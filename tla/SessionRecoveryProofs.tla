----------------------- MODULE SessionRecoveryProofs -----------------------
(***************************************************************************)
(* Proofs about the pool and its recovery, for any number of sessions,     *)
(* places, agents, prompts and restarts.                                   *)
(***************************************************************************)
EXTENDS SessionRecovery, FiniteSetTheorems, WellFoundedInduction, TLAPS

\* How a step may treat a session in the pool: it does not bring it to life, nor
\* make it another's child; and it leaves it in the pool.
Unraised(x) ==
    sessions'[x] # Absent =>
        /\ sessions[x] # Absent
        /\ sessions'[x].parent = sessions[x].parent
        /\ sessions[x].status = "dead" => sessions'[x].status = "dead"

Stays(x) == sessions[x] # Absent => sessions'[x] # Absent

LEMMA IdleIsNatural == Idle \in Nat
  BY PoolAssumption DEF Idle

\* A set of sessions is no larger than one it is part of, and an element makes it
\* larger by one at most.
LEMMA SmallerSet ==
    ASSUME NEW A \in SUBSET Id, NEW B \in SUBSET A
    PROVE  Cardinality(B) \in Nat /\ Cardinality(A) \in Nat /\ Cardinality(B) <= Cardinality(A)
<1>1. IsFiniteSet(A)
  BY PoolAssumption, FS_Subset
<1>2. IsFiniteSet(B) /\ Cardinality(B) <= Cardinality(A)
  BY <1>1, FS_Subset
<1> QED
  BY <1>1, <1>2, FS_CardinalityType

LEMMA OneMore ==
    ASSUME NEW A \in SUBSET Id, NEW x \in Id, NEW B \in SUBSET (A \union {x})
    PROVE  Cardinality(B) <= Cardinality(A) + 1
<1>1. IsFiniteSet(A)
  BY PoolAssumption, FS_Subset
<1>2. Cardinality(A \union {x}) <= Cardinality(A) + 1
  <2>1. Cardinality(A \union {x}) = IF x \in A THEN Cardinality(A) ELSE Cardinality(A) + 1
    BY <1>1, FS_AddElement
  <2> QED
    BY <1>1, <2>1, FS_CardinalityType
<1>3. A \union {x} \in SUBSET Id /\ Cardinality(A) \in Nat
  BY <1>1, FS_CardinalityType
<1>4. /\ Cardinality(B) \in Nat /\ Cardinality(A \union {x}) \in Nat
      /\ Cardinality(B) <= Cardinality(A \union {x})
  BY <1>3, SmallerSet
<1> QED
  BY <1>2, <1>3, <1>4

LEMMA LiveIsSubset == Live \in SUBSET Id /\ Live' \in SUBSET Id
  BY DEF Live

\* If no session comes to life, there is room where there was.
LEMMA FewerLive ==
    ASSUME \A x \in Id : Unraised(x)
    PROVE  Live' \subseteq Live /\ (HasRoom => HasRoom')
<1>1. Live' \subseteq Live
  BY DEF Live, Unraised, Present
<1>2. /\ Cardinality(Live') \in Nat /\ Cardinality(Live) \in Nat
      /\ Cardinality(Live') <= Cardinality(Live)
  BY <1>1, SmallerSet, LiveIsSubset
<1> QED
  BY <1>1, <1>2, PoolAssumption DEF HasRoom

-----------------------------------------------------------------------------
(* The operations of the pool. *)

LEMMA BeginKeeps ==
    ASSUME PoolTypeOK, NEW id \in Id, NEW parent \in Id \union {Absent}, NEW watched \in BOOLEAN,
           Begin(id, parent, watched)
    PROVE  /\ PoolTypeOK'
           /\ \A x \in Id : Unraised(x) /\ Stays(x)
           /\ HasRoom
           /\ \A x \in Id : x # id => opening'[x] = opening[x]
           /\ opening[id] = Absent
<1>1. HasRoom /\ (\A x \in Id : x # id => opening'[x] = opening[x]) /\ opening[id] = Absent
  BY DEF Begin, PoolTypeOK
<1>2. CASE Present(parent)
  <2>1. PICK r : r = BudgetHolder(parent)
    OBVIOUS
  <2>2. Present(r)
    BY <1>2, <2>1 DEF BudgetHolder
  <2>3. r \in Id /\ sessions[r] \in Session /\ sessions[parent] \in Session /\ parent \in Id
    BY <1>2, <2>2 DEF Present, PoolTypeOK
  <2>4. sessions[r].spawned < MaxAgents /\ sessions[r].spawned \in Nat
    BY <1>2, <2>1, <2>3 DEF Begin, BudgetLeft, Session
  <2>5. PICK s : s = [sessions[r] EXCEPT !.spawned = @ + 1]
    OBVIOUS
  <2>6. sessions[r].spawned + 1 \in 0 .. MaxAgents
    BY <2>4, PoolAssumption
  <2>7. s \in Session /\ s.parent = sessions[r].parent /\ s.status = sessions[r].status
        /\ s.spawned = sessions[r].spawned + 1
    BY <2>3, <2>5, <2>6 DEF Session
  <2>8. sessions' = [sessions EXCEPT ![r] = s]
    BY <1>2, <2>1, <2>5 DEF Begin, Counted
  <2>9. sessions' \in [Id -> Session \union {Absent}] /\ sessions'[r] = s
    BY <2>3, <2>7, <2>8 DEF PoolTypeOK
  <2>10. \A x \in Id : Unraised(x) /\ Stays(x)
    BY <2>2, <2>3, <2>7, <2>8, <2>9, AbsenceAssumption DEF Unraised, Stays, PoolTypeOK, Present
  <2>11. opening' = [opening EXCEPT ![id] =
            [watched |-> watched, parent |-> parent, crossed |-> FALSE,
             spawned |-> s.spawned, origin |-> sessions[parent].origin]]
    BY <1>2, <2>1, <2>9 DEF Begin
  <2>12. [watched |-> watched, parent |-> parent, crossed |-> FALSE,
          spawned |-> s.spawned, origin |-> sessions[parent].origin] \in Opening
    BY <2>3, <2>6, <2>7 DEF Opening, Session
  <2>13. opening' \in [Id -> Opening \union {Absent}] /\ broken' = broken
    BY <2>11, <2>12 DEF PoolTypeOK, Begin
  <2> QED
    BY <1>1, <2>9, <2>10, <2>13 DEF PoolTypeOK
<1>3. CASE ~Present(parent)
  <2>1. sessions' = sessions /\ broken' = broken
    BY <1>3 DEF Begin, Counted
  <2>2. opening' = [opening EXCEPT ![id] =
            [watched |-> watched, parent |-> parent, crossed |-> FALSE,
             spawned |-> 0, origin |-> id]]
    BY <1>3 DEF Begin
  <2>3. [watched |-> watched, parent |-> parent, crossed |-> FALSE,
         spawned |-> 0, origin |-> id] \in Opening
    BY PoolAssumption DEF Opening
  <2> QED
    BY <1>1, <2>1, <2>2, <2>3 DEF PoolTypeOK, Unraised, Stays
<1> QED
  BY <1>2, <1>3

LEMMA OpenFailsKeeps ==
    ASSUME PoolTypeOK, NEW id \in Id, OpenFails(id)
    PROVE  /\ PoolTypeOK' /\ sessions' = sessions
           /\ \A x \in Id : x # id => opening'[x] = opening[x]
           /\ opening'[id] = Absent
  BY DEF OpenFails, PoolTypeOK

\* The operations on the sessions of the pool that leave the creates alone.
LEMMA PromptKeeps ==
    ASSUME PoolTypeOK, NEW id \in Id, Prompt(id)
    PROVE  PoolTypeOK' /\ opening' = opening /\ \A x \in Id : Unraised(x) /\ Stays(x)
<1>1. PICK s : s = sessions[id]
  OBVIOUS
<1>2. s \in Session /\ s.status # "dead" /\ s # Absent /\ (s.runs => s.waiting < MaxWaiting)
  BY <1>1, AbsenceAssumption DEF Prompt, Live, Present, PoolTypeOK
<1>3. PICK t : t = Prompted(s)
  OBVIOUS
<1>4. t \in Session /\ t.parent = s.parent
  <2>1. CASE s.runs
    <3>1. t = [s EXCEPT !.waiting = @ + 1]
      BY <1>3, <2>1 DEF Prompted
    <3>2. s.waiting + 1 \in 0 .. MaxWaiting
      BY <1>2, <2>1, PoolAssumption DEF Session
    <3> QED
      BY <1>2, <3>1, <3>2 DEF Session
  <2>2. CASE ~s.runs
    <3>1. t = [s EXCEPT !.status = "working", !.runs = TRUE, !.since = 0]
      BY <1>3, <2>2 DEF Prompted, Starts
    <3>2. 0 \in 0 .. Idle
      BY IdleIsNatural
    <3> QED
      BY <1>2, <3>1, <3>2 DEF Session
  <2> QED
    BY <2>1, <2>2
<1>5. sessions' = [sessions EXCEPT ![id] = t] /\ opening' = opening /\ broken' = broken
  BY <1>1, <1>3 DEF Prompt
<1> QED
  BY <1>1, <1>2, <1>4, <1>5, AbsenceAssumption DEF PoolTypeOK, Unraised, Stays

LEMMA RunEndsKeeps ==
    ASSUME PoolTypeOK, NEW id \in Id, RunEnds(id)
    PROVE  /\ PoolTypeOK' /\ opening' = opening
           /\ Present(id) /\ \A x \in Id : Unraised(x) /\ Stays(x)
<1>1. PICK s : s = sessions[id]
  OBVIOUS
<1>2. s \in Session /\ s # Absent /\ Present(id)
  BY <1>1, AbsenceAssumption DEF RunEnds, Present, PoolTypeOK
<1>3. PICK t : t = Ended(s)
  OBVIOUS
<1>z. 0 \in 0 .. Idle /\ 0 \in 0 .. MaxWaiting
  BY IdleIsNatural, PoolAssumption
<1>4. t \in Session /\ t.parent = s.parent /\ (s.status = "dead" => t.status = "dead")
  <2>1. CASE s.status = "dead"
    <3>1. t = [s EXCEPT !.runs = FALSE, !.waiting = 0, !.since = 0]
      BY <1>3, <2>1 DEF Ended
    <3> QED
      BY <1>2, <1>z, <2>1, <3>1 DEF Session
  <2>2. CASE s.status # "dead" /\ s.waiting > 0
    <3>1. t = [s EXCEPT !.status = "working", !.runs = TRUE, !.since = 0, !.waiting = @ - 1]
      BY <1>2, <1>3, <2>2 DEF Ended, Starts, Session
    <3>2. s.waiting - 1 \in 0 .. MaxWaiting
      BY <1>2, <2>2, PoolAssumption DEF Session
    <3> QED
      BY <1>2, <1>z, <2>2, <3>1, <3>2 DEF Session
  <2>3. CASE s.status # "dead" /\ ~(s.waiting > 0)
    <3>1. t = [s EXCEPT !.runs = FALSE, !.status = "ready", !.since = 0]
      BY <1>3, <2>3 DEF Ended
    <3> QED
      BY <1>2, <1>z, <2>3, <3>1 DEF Session
  <2> QED
    BY <2>1, <2>2, <2>3
<1>5. sessions' = [sessions EXCEPT ![id] = t]
  BY <1>1, <1>3 DEF RunEnds
<1> QED
  BY <1>1, <1>2, <1>4, <1>5, AbsenceAssumption DEF PoolTypeOK, Unraised, Stays, RunEnds

LEMMA KilledIsDead ==
    ASSUME NEW s \in Session
    PROVE  Killed(s) \in Session /\ Killed(s).status = "dead" /\ Killed(s).parent = s.parent
  BY DEF Killed, Session

LEMMA KillKeeps ==
    ASSUME PoolTypeOK, NEW ids \in SUBSET Id, \A x \in ids : Present(x), Kill(ids)
    PROVE  /\ PoolTypeOK' /\ opening' = opening
           /\ \A x \in Id : Unraised(x) /\ Stays(x)
           /\ \A x \in ids : Present(x)' /\ sessions'[x].status = "dead"
<1>1. \A x \in Id : sessions'[x] = IF x \in ids THEN Killed(sessions[x]) ELSE sessions[x]
  BY DEF Kill
<1>2. \A x \in ids : sessions[x] \in Session
  BY DEF Present, PoolTypeOK
<1>3. \A x \in ids : /\ sessions'[x] \in Session /\ sessions'[x].status = "dead"
                     /\ sessions'[x].parent = sessions[x].parent
  BY <1>1, <1>2, KilledIsDead
<1>4. \A x \in Id : Unraised(x) /\ Stays(x)
  BY <1>1, <1>2, <1>3, AbsenceAssumption DEF Unraised, Stays, Present
<1>5. sessions' \in [Id -> Session \union {Absent}]
  <2>1. \A x \in Id : sessions'[x] \in Session \union {Absent}
    BY <1>1, <1>3 DEF PoolTypeOK
  <2> QED
    BY <2>1 DEF Kill
<1> QED
  BY <1>3, <1>4, <1>5, AbsenceAssumption DEF PoolTypeOK, Kill, Present

LEMMA CheckStaleKeeps ==
    ASSUME PoolTypeOK, checkStale
    PROVE  PoolTypeOK' /\ opening' = opening /\ \A x \in Id : Unraised(x) /\ Stays(x)
<1>1. \A x \in Id : /\ sessions'[x] \in Session \union {Absent}
                    /\ Unraised(x) /\ Stays(x)
  <2> TAKE x \in Id
  <2>1. sessions'[x] = sessions[x] \/ (sessions[x] \in Session /\ sessions'[x] = Killed(sessions[x]))
    BY DEF checkStale, Checked, PoolTypeOK
  <2> QED
    BY <2>1, KilledIsDead, AbsenceAssumption DEF Unraised, Stays, PoolTypeOK
<1>2. sessions' \in [Id -> Session \union {Absent}]
  BY <1>1 DEF checkStale
<1> QED
  BY <1>1, <1>2 DEF checkStale, PoolTypeOK

LEMMA RemoveDeadKeeps ==
    ASSUME PoolTypeOK, removeDead
    PROVE  /\ PoolTypeOK' /\ opening' = opening
           /\ \A x \in Id : Unraised(x)
<1>1. \A x \in Id : sessions'[x] = IF x \in Removable THEN Absent ELSE sessions[x]
  BY DEF removeDead
<1>2. sessions' \in [Id -> Session \union {Absent}]
  BY DEF removeDead, PoolTypeOK
<1>3. broken' \subseteq Id
  BY DEF removeDead, PoolTypeOK, Cut
<1> QED
  BY <1>1, <1>2, <1>3 DEF removeDead, PoolTypeOK, Unraised

LEMMA TickKeeps ==
    ASSUME PoolTypeOK, Tick
    PROVE  PoolTypeOK' /\ opening' = opening /\ \A x \in Id : Unraised(x) /\ Stays(x)
<1>1. \A x \in Id : /\ sessions'[x] \in Session \union {Absent}
                    /\ Unraised(x) /\ Stays(x)
  <2> TAKE x \in Id
  <2>1. PICK s : s = sessions[x]
    OBVIOUS
  <2>2. CASE Present(x) /\ s.since < Idle
    <3>1. s \in Session
      BY <2>1, <2>2 DEF Present, PoolTypeOK
    <3>2. sessions'[x] = [s EXCEPT !.since = @ + 1]
      BY <2>1, <2>2 DEF Tick
    <3>3. s.since + 1 \in 0 .. Idle
      BY <2>2, <3>1, IdleIsNatural DEF Session
    <3>4. sessions'[x] \in Session /\ sessions'[x].parent = s.parent /\ sessions'[x].status = s.status
      BY <3>1, <3>2, <3>3 DEF Session
    <3> QED
      BY <2>1, <3>1, <3>4, AbsenceAssumption DEF Unraised, Stays
  <2>3. CASE ~(Present(x) /\ s.since < Idle)
    <3>1. sessions'[x] = sessions[x]
      BY <2>1, <2>3 DEF Tick
    <3> QED
      BY <3>1 DEF Unraised, Stays, PoolTypeOK
  <2> QED
    BY <2>2, <2>3
<1>2. sessions' \in [Id -> Session \union {Absent}]
  BY <1>1 DEF Tick
<1> QED
  BY <1>1, <1>2 DEF Tick, PoolTypeOK

\* After Crossed there are the same creates, and nobody relies on a check.
LEMMA CrossedFacts ==
    ASSUME NEW open \in [Id -> Opening \union {Absent}]
    PROVE  /\ Crossed(open) \in [Id -> Opening \union {Absent}]
           /\ \A x \in Id : /\ Crossed(open)[x] = Absent <=> open[x] = Absent
                            /\ Crossed(open)[x] # Absent => Crossed(open)[x].crossed
<1>1. \A x \in Id : open[x] # Absent =>
          [open[x] EXCEPT !.crossed = TRUE] \in Opening /\ [open[x] EXCEPT !.crossed = TRUE].crossed
  BY DEF Opening
<1> QED
  BY <1>1, AbsenceAssumption DEF Crossed

LEMMA RegisterKeeps ==
    ASSUME PoolTypeOK, NEW id \in Id, Register(id)
    PROVE  /\ PoolTypeOK'
           /\ \A x \in Id : x # id => sessions'[x] = sessions[x]
           /\ sessions'[id] # Absent
           /\ \A x \in Id : opening'[x] # Absent => opening'[x].crossed
           /\ \A x \in Id : x # id /\ opening[x] # Absent => opening'[x] # Absent
<1>1. PICK o : o = opening[id]
  OBVIOUS
<1>2. o \in Opening
  BY <1>1 DEF Register, PoolTypeOK
<1>3. NewSession(o) \in Session
  BY <1>2, IdleIsNatural, PoolAssumption DEF NewSession, Session, Opening
<1>4. sessions' = [sessions EXCEPT ![id] = NewSession(o)]
  BY <1>1 DEF Register
<1>5. PICK open : open = [opening EXCEPT ![id] = Absent]
  OBVIOUS
<1>6. /\ open \in [Id -> Opening \union {Absent}] /\ opening' = Crossed(open)
      /\ \A x \in Id : x # id => open[x] = opening[x]
  BY <1>5 DEF Register, PoolTypeOK
<1>7. broken' \subseteq Id
  BY DEF Register, PoolTypeOK, Cut, Joined
<1>8. /\ sessions' \in [Id -> Session \union {Absent}] /\ sessions'[id] # Absent
      /\ \A x \in Id : x # id => sessions'[x] = sessions[x]
  BY <1>3, <1>4, AbsenceAssumption DEF PoolTypeOK
<1>9. /\ opening' \in [Id -> Opening \union {Absent}]
      /\ \A x \in Id : opening'[x] # Absent => opening'[x].crossed
      /\ \A x \in Id : open[x] # Absent => opening'[x] # Absent
  BY <1>6, CrossedFacts
<1> QED
  BY <1>6, <1>7, <1>8, <1>9 DEF PoolTypeOK

LEMMA RestoreKeeps ==
    ASSUME PoolTypeOK, NEW ids \in SUBSET Id, NEW snaps \in [Id -> Record \union {Absent}],
           \A x \in ids : snaps[x] # Absent, restore(ids, snaps)
    PROVE  /\ PoolTypeOK'
           /\ \A x \in Id \ ids : sessions'[x] = sessions[x]
           /\ \A x \in ids : sessions'[x] # Absent /\ sessions'[x].parent = snaps[x].parent
           /\ ids = {} => opening' = opening
           /\ ids # {} => \A x \in Id : opening'[x] # Absent => opening'[x].crossed
           /\ \A x \in Id : opening[x] # Absent => opening'[x] # Absent
<1>1. \A x \in ids : /\ Restored(snaps[x], x) \in Session
                     /\ Restored(snaps[x], x).parent = snaps[x].parent
  <2> TAKE x \in ids
  <2>1. snaps[x].parent \in Id \union {Absent}
    BY DEF Record
  <2> QED
    BY <2>1, IdleIsNatural, PoolAssumption DEF Restored, Session
<1>2. \A x \in Id : sessions'[x] = IF x \in ids THEN Restored(snaps[x], x) ELSE sessions[x]
  BY DEF restore
<1>3. sessions' \in [Id -> Session \union {Absent}]
  <2>1. \A x \in Id : sessions'[x] \in Session \union {Absent}
    BY <1>1, <1>2 DEF PoolTypeOK
  <2> QED
    BY <2>1 DEF restore
<1>4. opening' = IF ids = {} THEN opening ELSE Crossed(opening)
  BY DEF restore
<1>5. opening' \in [Id -> Opening \union {Absent}]
  BY <1>4, CrossedFacts DEF PoolTypeOK
<1>6. \A x \in ids : sessions'[x] # Absent /\ sessions'[x].parent = snaps[x].parent
  BY <1>1, <1>2, AbsenceAssumption
<1>7. /\ ids # {} => \A x \in Id : opening'[x] # Absent => opening'[x].crossed
      /\ \A x \in Id : opening[x] # Absent => opening'[x] # Absent
  BY <1>4, CrossedFacts DEF PoolTypeOK
<1>8. PoolTypeOK'
  BY <1>3, <1>5 DEF PoolTypeOK, restore, Joined
<1> QED
  BY <1>2, <1>4, <1>6, <1>7, <1>8

-----------------------------------------------------------------------------
(* The bridge. *)

LEMMA InitHolds == Init => IInv
<1> SUFFICES ASSUME Init PROVE IInv
  OBVIOUS
<1>1. Live = {} /\ \A x \in Id : sessions[x] = Absent /\ opening[x] = Absent
  BY DEF Init, PoolInit, Live, Present
<1>2. TypeOK
  BY RecoveryAssumption DEF Init, PoolInit, TypeOK, PoolTypeOK
<1>3. RoomIsLeft /\ FileIsIndex /\ IndexKnows /\ KillIsKept /\ KilledStaysKilled /\ DownIsEmpty
  BY <1>1 DEF Init, RoomIsLeft, FileIsIndex, IndexKnows, KillIsKept, KilledStaysKilled, Present,
              DownIsEmpty
<1> QED
  BY <1>2, <1>3 DEF IInv

\* A step that brings no session to life, saves nothing, and tells the checkpoint
\* sink of what it kills.
LEMMA PoolStepKeeps ==
    ASSUME IInv, TypeOK',
           \A x \in Id : Unraised(x),
           \A x \in ended \intersect ended' : x \in timers => Stays(x),
           \A x \in Id : opening'[x] # Absent /\ ~opening'[x].crossed =>
               HasRoom \/ (opening[x] # Absent /\ ~opening[x].crossed),
           UNCHANGED <<index, flush, disk, native>>,
           phase' \in {phase, "stopping"},
           timers \subseteq timers',
           \A x \in ended' \ ended : Present(x)' /\ sessions'[x].status = "dead" /\ x \in timers'
    PROVE  IInv'
<1>1. /\ TypeOK /\ RoomIsLeft /\ FileIsIndex /\ IndexKnows /\ KillIsKept /\ KilledStaysKilled
      /\ DownIsEmpty
  BY DEF IInv
<1>2. timers' \subseteq Id /\ ended' \subseteq Id
  BY DEF TypeOK
<1>3. Live' \subseteq Live /\ (HasRoom => HasRoom')
  BY FewerLive
<1>4. RoomIsLeft'
  BY <1>1, <1>3 DEF RoomIsLeft
<1>5. FileIsIndex' /\ DownIsEmpty'
  BY <1>1 DEF FileIsIndex, DownIsEmpty, Unraised, Present
<1>6. IndexKnows'
  BY <1>1, <1>3 DEF IndexKnows, Unraised, Present
<1>7. KillIsKept'
  <2> SUFFICES ASSUME NEW x \in ended'
               PROVE  (\/ x \in timers /\ Present(x)
                       \/ NotLive(index[x]) /\ (flush = "clean" => NotLive(disk[x])))'
    BY DEF KillIsKept
  <2>1. CASE x \notin ended
    BY <2>1
  <2>2. CASE x \in ended /\ x \in timers /\ Present(x)
    BY <1>2, <2>2 DEF Stays, Present
  <2>3. CASE x \in ended /\ ~(x \in timers /\ Present(x))
    BY <1>1, <2>3 DEF KillIsKept, NotLive
  <2> QED
    BY <2>1, <2>2, <2>3
<1>8. KilledStaysKilled'
  BY <1>1, <1>3 DEF KilledStaysKilled, Live
<1> QED
  BY <1>4, <1>5, <1>6, <1>7, <1>8 DEF IInv

LEMMA BeginStep ==
    ASSUME IInv, NEW id \in Id, NEW parent \in Id \union {Absent}, NEW watched \in BOOLEAN,
           Begin(id, parent, watched), Quiet
    PROVE  IInv'
<1>1. PoolTypeOK /\ TypeOK
  BY DEF IInv, TypeOK
<1>2. /\ PoolTypeOK' /\ HasRoom
      /\ \A x \in Id : Unraised(x) /\ Stays(x)
  BY <1>1, BeginKeeps
<1>3. TypeOK'
  BY <1>1, <1>2 DEF TypeOK, Quiet, bridgeVars
<1> QED
  BY <1>1, <1>2, <1>3, PoolStepKeeps DEF Quiet, bridgeVars, TypeOK

LEMMA SpawnFailsStep == ASSUME IInv, NEW id \in Id, SpawnFails(id) PROVE IInv'
<1>1. PoolTypeOK /\ TypeOK
  BY DEF IInv, TypeOK
<1>2. /\ PoolTypeOK' /\ sessions' = sessions /\ opening'[id] = Absent
      /\ \A x \in Id : x # id => opening'[x] = opening[x]
  BY <1>1, OpenFailsKeeps DEF SpawnFails
<1>3. TypeOK'
  BY <1>1, <1>2 DEF TypeOK, SpawnFails, Quiet, bridgeVars
<1>4. \A x \in Id : Unraised(x) /\ Stays(x)
  BY <1>2 DEF Unraised, Stays
<1> QED
  BY <1>1, <1>2, <1>3, <1>4, PoolStepKeeps DEF SpawnFails, Quiet, bridgeVars, TypeOK

LEMMA PromptStep == ASSUME IInv, NEW id \in Id, PromptRequest(id) PROVE IInv'
<1>1. PoolTypeOK /\ TypeOK
  BY DEF IInv, TypeOK
<1>2. PoolTypeOK' /\ opening' = opening /\ \A x \in Id : Unraised(x) /\ Stays(x)
  BY <1>1, PromptKeeps DEF PromptRequest
<1>3. TypeOK'
  BY <1>1, <1>2 DEF TypeOK, PromptRequest, Quiet, bridgeVars
<1> QED
  BY <1>1, <1>2, <1>3, PoolStepKeeps DEF PromptRequest, Quiet, bridgeVars, TypeOK

LEMMA PromptEndsStep ==
    ASSUME IInv, NEW id \in Id, NEW told \in BOOLEAN, PromptEnds(id, told) PROVE IInv'
<1>1. PoolTypeOK /\ TypeOK
  BY DEF IInv, TypeOK
<1>2. /\ PoolTypeOK' /\ opening' = opening /\ Present(id)
      /\ \A x \in Id : Unraised(x) /\ Stays(x)
  BY <1>1, RunEndsKeeps DEF PromptEnds
<1>3. timers' \subseteq timers \union {id} /\ timers \subseteq timers'
  BY DEF PromptEnds, Notified
<1>4. TypeOK'
  BY <1>1, <1>2, <1>3 DEF TypeOK, PromptEnds
<1> QED
  BY <1>1, <1>2, <1>3, <1>4, PoolStepKeeps DEF PromptEnds, TypeOK

\* The kills that the sink hears of: one session, or all that live.
LEMMA KillStep ==
    ASSUME IInv, NEW ids \in SUBSET Id, \A x \in ids : Present(x), Kill(ids), Notified(ids),
           ended' = ended \union ids, UNCHANGED <<index, flush, disk, boots, native>>,
           phase' \in {phase, "stopping"}
    PROVE  IInv'
<1>1. PoolTypeOK /\ TypeOK
  BY DEF IInv, TypeOK
<1>2. /\ PoolTypeOK' /\ opening' = opening
      /\ \A x \in Id : Unraised(x) /\ Stays(x)
      /\ \A x \in ids : Present(x)' /\ sessions'[x].status = "dead"
  BY <1>1, KillKeeps
<1>3. timers' = timers \union ids
  BY DEF Notified
<1>4. TypeOK'
  BY <1>1, <1>2, <1>3 DEF TypeOK
<1> QED
  BY <1>1, <1>2, <1>3, <1>4, PoolStepKeeps DEF TypeOK

LEMMA StaleStep == ASSUME IInv, StaleCheck PROVE IInv'
<1>1. PoolTypeOK /\ TypeOK
  BY DEF IInv, TypeOK
<1>2. PoolTypeOK' /\ opening' = opening /\ \A x \in Id : Unraised(x) /\ Stays(x)
  BY <1>1, CheckStaleKeeps DEF StaleCheck
<1>3. UNCHANGED <<phase, timers, index, flush, disk, boots, native, ended>>
  BY DEF StaleCheck, Quiet, bridgeVars
<1>4. TypeOK'
  BY <1>1, <1>2, <1>3 DEF TypeOK
<1> QED
  BY <1>1, <1>2, <1>3, <1>4, PoolStepKeeps DEF TypeOK

\* A removal leaves what is still counted as killed where it was, if its checkpoint
\* is to come.
LEMMA CleanupStep == ASSUME IInv, Cleanup PROVE IInv'
<1>1. PoolTypeOK /\ TypeOK
  BY DEF IInv, TypeOK
<1>2. /\ removeDead /\ UNCHANGED <<phase, timers, index, flush, disk, boots, native>>
      /\ ended' = ended \ {x \in timers : Present(x) /\ ~Present(x)'}
  BY DEF Cleanup
<1>3. /\ PoolTypeOK' /\ opening' = opening
      /\ \A x \in Id : Unraised(x)
  BY <1>1, <1>2, RemoveDeadKeeps
<1>4. TypeOK'
  BY <1>1, <1>2, <1>3 DEF TypeOK
<1>5. \A x \in ended \intersect ended' : x \in timers => Stays(x)
  BY <1>1, <1>2 DEF TypeOK, Stays, Present
<1>6. ended' \subseteq ended
  BY <1>2
<1> QED
  BY <1>2, <1>3, <1>4, <1>5, <1>6, PoolStepKeeps

LEMMA PassesStep == ASSUME IInv, Passes PROVE IInv'
<1>1. PoolTypeOK /\ TypeOK
  BY DEF IInv, TypeOK
<1>2. PoolTypeOK' /\ opening' = opening /\ \A x \in Id : Unraised(x) /\ Stays(x)
  BY <1>1, TickKeeps DEF Passes
<1>3. TypeOK'
  BY <1>1, <1>2 DEF TypeOK, Passes, Quiet, bridgeVars
<1> QED
  BY <1>1, <1>2, <1>3, PoolStepKeeps DEF Passes, Quiet, bridgeVars, TypeOK

\* A session that was just registered waits for its checkpoint, and is no longer one
\* that was killed.
LEMMA SpawnedStep == ASSUME IInv, NEW id \in Id, Spawned(id) PROVE IInv'
<1>1. /\ PoolTypeOK /\ TypeOK /\ DownIsEmpty
      /\ RoomIsLeft /\ FileIsIndex /\ IndexKnows /\ KillIsKept /\ KilledStaysKilled
  BY DEF IInv, TypeOK
<1>2. /\ PoolTypeOK'
      /\ \A x \in Id : x # id => sessions'[x] = sessions[x]
      /\ sessions'[id] # Absent
      /\ \A x \in Id : opening'[x] # Absent => opening'[x].crossed
  BY <1>1, RegisterKeeps DEF Spawned
<1>3. /\ timers' = timers \union {id} /\ ended' = ended \ {id} /\ Serving
      /\ UNCHANGED <<phase, index, flush, disk, boots, native>>
  BY DEF Spawned, Notified
<1>4. TypeOK'
  BY <1>1, <1>2, <1>3 DEF TypeOK
<1>5. RoomIsLeft' /\ FileIsIndex' /\ DownIsEmpty'
  BY <1>1, <1>2, <1>3 DEF RoomIsLeft, FileIsIndex, DownIsEmpty, Serving
<1>6. IndexKnows'
  BY <1>1, <1>2, <1>3 DEF IndexKnows, Present, Live
<1>7. KillIsKept'
  BY <1>1, <1>2, <1>3 DEF KillIsKept, NotLive, Present, TypeOK
<1>8. KilledStaysKilled'
  BY <1>1, <1>2, <1>3 DEF KilledStaysKilled, Present, Live
<1> QED
  BY <1>4, <1>5, <1>6, <1>7, <1>8 DEF IInv

LEMMA CheckpointStep == ASSUME IInv, NEW id \in Id, Checkpoint(id) PROVE IInv'
<1>1. /\ PoolTypeOK /\ TypeOK /\ DownIsEmpty
      /\ RoomIsLeft /\ FileIsIndex /\ IndexKnows /\ KillIsKept /\ KilledStaysKilled
  BY DEF IInv, TypeOK
<1>2. /\ UNCHANGED <<poolVars, phase, disk, boots, native, ended>>
      /\ id \in timers /\ timers' = timers \ {id}
  BY DEF Checkpoint
<1>3. UNCHANGED <<sessions, opening, broken>>
  BY <1>2 DEF poolVars
<1>4. Live' = Live /\ \A x : Present(x)' = Present(x)
  BY <1>3 DEF Live, Present
<1>5. RoomIsLeft' /\ KilledStaysKilled'
  BY <1>1, <1>2, <1>3, <1>4 DEF RoomIsLeft, KilledStaysKilled, HasRoom
<1>6. CASE Present(id)
  <2>1. PICK r : r = RecordOf(id)
    OBVIOUS
  <2>2. sessions[id] \in Session
    BY <1>1, <1>6 DEF Present, PoolTypeOK
  <2>3. r \in Record /\ r.parent = sessions[id].parent /\ (r.live <=> sessions[id].status # "dead")
    BY <2>1, <2>2 DEF RecordOf, Record, Session
  <2>4. index' = [index EXCEPT ![id] = r] /\ flush' = "due"
    BY <1>6, <2>1 DEF Checkpoint
  <2>5. index' \in [Id -> Record \union {Absent}] /\ index'[id] = r
        /\ \A x \in Id : x # id => index'[x] = index[x]
    BY <1>1, <2>3, <2>4 DEF TypeOK
  <2>6. TypeOK'
    BY <1>1, <1>2, <1>3, <2>4, <2>5 DEF TypeOK, PoolTypeOK
  <2>7. FileIsIndex' /\ DownIsEmpty'
    BY <1>1, <1>2, <1>4, <1>6, <2>4 DEF FileIsIndex, DownIsEmpty
  <2>8. IndexKnows'
    <3> SUFFICES ASSUME NEW x \in Id, Present(x), x \notin timers'
                 PROVE  /\ index'[x] # Absent /\ index'[x].parent = sessions[x].parent
                        /\ x \in Live => index'[x].live \/ x \in native
      BY <1>2, <1>3, <1>4 DEF IndexKnows
    <3>1. CASE x = id
      BY <2>3, <2>5, <3>1, RecordAssumption DEF Live
    <3>2. CASE x # id
      BY <1>1, <1>2, <2>5, <3>2 DEF IndexKnows
    <3> QED
      BY <3>1, <3>2
  <2>9. KillIsKept'
    <3> SUFFICES ASSUME NEW x \in ended
                 PROVE  (x \in timers' /\ Present(x)) \/ NotLive(index'[x])
      BY <1>2, <1>4, <2>4 DEF KillIsKept, NotLive
    <3>1. CASE x = id
      BY <1>1, <1>6, <2>3, <2>5, <3>1 DEF KilledStaysKilled, Live, NotLive
    <3>2. CASE x # id
      <4>1. x \in Id
        BY <1>1 DEF TypeOK
      <4> QED
        BY <1>1, <1>2, <2>5, <3>2, <4>1 DEF KillIsKept
    <3> QED
      BY <3>1, <3>2
  <2> QED
    BY <1>5, <2>6, <2>7, <2>8, <2>9 DEF IInv
<1>7. CASE ~Present(id)
  <2>1. index' = index /\ flush' = flush
    BY <1>7 DEF Checkpoint
  <2>2. TypeOK'
    BY <1>1, <1>2, <1>3, <2>1 DEF TypeOK, PoolTypeOK
  <2>3. FileIsIndex' /\ DownIsEmpty'
    BY <1>1, <1>2, <1>4, <2>1 DEF FileIsIndex, DownIsEmpty
  <2>4. IndexKnows'
    BY <1>1, <1>2, <1>3, <1>4, <1>7, <2>1 DEF IndexKnows
  <2>5. KillIsKept'
    BY <1>1, <1>2, <1>4, <1>7, <2>1 DEF KillIsKept, NotLive
  <2> QED
    BY <1>5, <2>2, <2>3, <2>4, <2>5 DEF IInv
<1> QED
  BY <1>6, <1>7

\* A step of the store's timer: sessions, sink and index stay.
LEMMA FileStep ==
    ASSUME IInv, TypeOK', UNCHANGED <<sessions, opening, timers, index, native, ended, phase>>,
           flush' = "clean" => disk' = index \/ (flush = "clean" /\ disk' = disk),
           flush = "clean" => flush' = "clean"
    PROVE  IInv'
<1>1. RoomIsLeft /\ FileIsIndex /\ IndexKnows /\ KillIsKept /\ KilledStaysKilled /\ DownIsEmpty
  BY DEF IInv
<1>2. Live' = Live /\ \A x : Present(x)' = Present(x)
  BY DEF Live, Present
<1>3. FileIsIndex'
  BY <1>1 DEF FileIsIndex
<1>4. RoomIsLeft'
  BY <1>1, <1>2 DEF RoomIsLeft, HasRoom
<1>5. IndexKnows' /\ KilledStaysKilled' /\ DownIsEmpty'
  BY <1>1, <1>2 DEF IndexKnows, KilledStaysKilled, DownIsEmpty
<1>6. KillIsKept'
  BY <1>1, <1>2 DEF KillIsKept, NotLive
<1> QED
  BY <1>3, <1>4, <1>5, <1>6 DEF IInv

LEMMA FlushStep == ASSUME IInv, flushToDisk \/ FlushFails PROVE IInv'
<1>1. TypeOK
  BY DEF IInv
<1>2. TypeOK'
  BY <1>1 DEF flushToDisk, FlushFails, TypeOK, PoolTypeOK, poolVars
<1>3. /\ UNCHANGED <<sessions, opening, timers, index, native, ended, phase>>
      /\ flush' = "clean" => disk' = index
      /\ flush # "clean"
  BY DEF flushToDisk, FlushFails, poolVars
<1> QED
  BY <1>2, <1>3, FileStep

\* The next process, whether or not it could read the file, takes no killed session
\* for live.
LEMMA BootStep == ASSUME IInv, Boot PROVE IInv'
<1>1. TypeOK /\ RoomIsLeft /\ KillIsKept /\ KilledStaysKilled /\ DownIsEmpty
  BY DEF IInv
<1>2. /\ UNCHANGED <<sessions, opening, broken, flush, disk, native, ended>>
      /\ phase = "down" /\ phase' = "starting"
      /\ boots < MaxBoots /\ boots' = boots + 1
      /\ index' \in {disk, Unread} /\ timers' \subseteq Id
  BY DEF Boot, poolVars
<1>3. \A x \in Id : index'[x] \in {disk[x], Absent}
  BY <1>2 DEF Unread
<1>4. index' \in [Id -> Record \union {Absent}]
  BY <1>1, <1>2 DEF TypeOK, Unread
<1>5. TypeOK'
  <2>1. boots' \in 0 .. MaxBoots
    BY <1>1, <1>2, RecoveryAssumption DEF TypeOK
  <2> QED
    BY <1>1, <1>2, <1>4, <2>1 DEF TypeOK, PoolTypeOK
<1>6. Live' = Live /\ \A x : Present(x)' = Present(x)
  BY <1>2 DEF Live, Present
<1>7. flush = "clean" /\ \A x \in Id : ~Present(x)
  BY <1>1, <1>2 DEF DownIsEmpty
<1>8. RoomIsLeft' /\ FileIsIndex' /\ IndexKnows' /\ KilledStaysKilled' /\ DownIsEmpty'
  BY <1>1, <1>2, <1>3, <1>6, <1>7
     DEF RoomIsLeft, HasRoom, FileIsIndex, IndexKnows, KilledStaysKilled, DownIsEmpty
<1>9. KillIsKept'
  <2>1. \A x \in ended : NotLive(disk[x]) /\ x \in Id
    BY <1>1, <1>7 DEF KillIsKept, TypeOK
  <2> QED
    BY <1>2, <1>3, <2>1 DEF KillIsKept, NotLive
<1> QED
  BY <1>5, <1>8, <1>9 DEF IInv

\* The process is gone: what was killed and not written, the file cannot know.
LEMMA GoneStep == ASSUME IInv, Gone PROVE IInv'
<1>1. TypeOK /\ KillIsKept
  BY DEF IInv
<1>2. /\ \A x \in Id : sessions'[x] = Absent /\ opening'[x] = Absent
      /\ timers' = {} /\ index' = Unread /\ disk' = disk /\ flush' = "clean"
      /\ native' = {} /\ phase' = "down" /\ boots' = boots
      /\ ended' = IF flush = "clean" THEN {x \in ended : x \in timers => ~Present(x)} ELSE {}
  BY DEF Gone, lose, Known
<1>3. TypeOK'
  <2>1. PoolTypeOK'
    BY DEF Gone, lose, PoolTypeOK
  <2>2. ended' \subseteq Id
    BY <1>1, <1>2 DEF TypeOK
  <2>3. index' \in [Id -> Record \union {Absent}]
    BY <1>2 DEF Unread
  <2> QED
    BY <1>1, <1>2, <2>1, <2>2, <2>3 DEF TypeOK
<1>4. Live' = {} /\ \A x \in Id : ~Present(x)'
  BY <1>2 DEF Live, Present
<1>5. \A x \in Id : index'[x] = Absent
  BY <1>2 DEF Unread
<1>6. RoomIsLeft' /\ FileIsIndex' /\ IndexKnows' /\ KilledStaysKilled' /\ DownIsEmpty'
  BY <1>2, <1>4, <1>5
     DEF RoomIsLeft, FileIsIndex, IndexKnows, KilledStaysKilled, DownIsEmpty
<1>7. KillIsKept'
  <2>1. \A x \in ended' : x \in Id /\ flush = "clean" /\ x \in ended /\ (x \in timers => ~Present(x))
    BY <1>1, <1>2 DEF TypeOK
  <2> QED
    BY <1>1, <1>2, <1>5, <2>1 DEF KillIsKept, NotLive
<1> QED
  BY <1>3, <1>6, <1>7 DEF IInv

\* A restart puts back what the index takes for live, and that is nothing killed, and
\* what has a process left.
LEMMA RecoverStep == ASSUME IInv, NEW found \in SUBSET Id, Recover(found) PROVE IInv'
<1> DEFINE ids == {id \in Recoverable(found) : ~Present(id)}
<1>1. /\ PoolTypeOK /\ TypeOK /\ DownIsEmpty
      /\ RoomIsLeft /\ FileIsIndex /\ IndexKnows /\ KillIsKept /\ KilledStaysKilled
  BY DEF IInv, TypeOK
<1>2. /\ ids \in SUBSET Id
      /\ \A x \in ids : index[x] # Absent /\ (index[x].live \/ x \in found) /\ ~Present(x)
  BY DEF Recoverable
<1>3. /\ restore(ids, index) /\ UNCHANGED <<timers, index, flush, disk, boots>>
      /\ phase = "starting" /\ phase' = "up"
      /\ native' = {x \in found : index[x] # Absent /\ ~Present(x)}
      /\ ended' = ended \ native'
  BY DEF Recover
<1>4. index \in [Id -> Record \union {Absent}]
  BY <1>1 DEF TypeOK
<1>5. \A x \in ids : x \notin ended'
  BY <1>1, <1>2, <1>3 DEF KillIsKept, NotLive
<1>6. native = {} /\ native' \subseteq Id
  BY <1>1, <1>3 DEF DownIsEmpty
<1>7. \A x \in ids : x \in native' \/ index[x].live
  BY <1>2, <1>3
<1> HIDE DEF ids
<1>8. /\ PoolTypeOK'
      /\ \A x \in Id \ ids : sessions'[x] = sessions[x]
      /\ \A x \in ids : sessions'[x] # Absent /\ sessions'[x].parent = index[x].parent
      /\ ids = {} => opening' = opening
      /\ ids # {} => \A x \in Id : opening'[x] # Absent => opening'[x].crossed
  BY <1>1, <1>2, <1>3, <1>4, RestoreKeeps
<1>9. TypeOK'
  BY <1>1, <1>3, <1>6, <1>8 DEF TypeOK
<1>10. RoomIsLeft'
  <2>1. CASE ids = {}
    <3>1. Live' = Live
      BY <1>8, <2>1 DEF Live, Present
    <3> QED
      BY <1>1, <1>8, <2>1, <3>1 DEF RoomIsLeft, HasRoom
  <2>2. CASE ids # {}
    BY <1>8, <2>2 DEF RoomIsLeft
  <2> QED
    BY <2>1, <2>2
<1>11. FileIsIndex' /\ DownIsEmpty'
  BY <1>1, <1>3 DEF FileIsIndex, DownIsEmpty
<1>12. IndexKnows'
  BY <1>1, <1>2, <1>3, <1>6, <1>7, <1>8 DEF IndexKnows, Present, Live
<1>13. ended' \subseteq ended /\ ended' \subseteq Id
  BY <1>1, <1>3 DEF TypeOK
<1>14. KillIsKept'
  <2> SUFFICES ASSUME NEW x \in ended'
               PROVE  (x \in timers /\ Present(x)') \/ (NotLive(index[x]) /\ (flush = "clean" => NotLive(disk[x])))
    BY <1>3 DEF KillIsKept, NotLive
  <2>1. x \in Id \ ids /\ x \in ended
    BY <1>5, <1>13
  <2>2. Present(x)' <=> Present(x)
    BY <1>8, <2>1 DEF Present
  <2> QED
    BY <1>1, <2>1, <2>2 DEF KillIsKept
<1>15. KilledStaysKilled'
  BY <1>1, <1>5, <1>8, <1>13 DEF KilledStaysKilled, Present, Live
<1> QED
  BY <1>9, <1>10, <1>11, <1>12, <1>14, <1>15 DEF IInv

LEMMA StutterKeeps == ASSUME IInv, UNCHANGED vars PROVE IInv'
<1>1. /\ UNCHANGED <<sessions, opening, broken>>
      /\ UNCHANGED <<phase, timers, index, flush, disk, boots, native, ended>>
  BY DEF vars, poolVars, bridgeVars
<1>2. TypeOK'
  BY <1>1 DEF IInv, TypeOK, PoolTypeOK
<1> QED
  BY <1>1, <1>2, FileStep

LEMMA StepKeeps ==
    ASSUME IInv, [Next]_vars PROVE IInv'
<1>1. ASSUME NEW id \in Id, NEW p \in Parents \union {Absent}, Spawn(id, p) PROVE IInv'
  <2>1. Begin(id, p, id \notin Persistent) /\ Quiet /\ (id \notin Persistent) \in BOOLEAN
    BY <1>1 DEF Spawn
  <2>2. p \in Id \union {Absent}
    BY RecoveryAssumption
  <2> QED
    BY <2>1, <2>2, BeginStep
<1>2. ASSUME NEW id \in Id, Resume(id) PROVE IInv'
  <2>1. Begin(id, Absent, TRUE) /\ Quiet
    BY <1>2 DEF Resume
  <2> QED
    BY <2>1, BeginStep
<1>3. ASSUME NEW id \in Id, KillRequest(id) PROVE IInv'
  <2>1. /\ Present(id) /\ Kill({id}) /\ Notified({id}) /\ ended' = ended \union {id}
        /\ UNCHANGED <<index, flush, disk, boots, native>> /\ phase' = phase
    BY <1>3 DEF KillRequest
  <2>2. {id} \in SUBSET Id
    OBVIOUS
  <2> QED
    BY <2>1, <2>2, KillStep
<1>4. ASSUME Stop PROVE IInv'
  <2>1. /\ Kill(Live) /\ Notified(Live) /\ ended' = ended \union Live
        /\ UNCHANGED <<index, flush, disk, boots, native>> /\ phase' = "stopping"
    BY <1>4 DEF Stop
  <2>2. Live \in SUBSET Id /\ \A x \in Live : Present(x)
    BY DEF Live
  <2> QED
    BY <2>1, <2>2, KillStep
<1>5. ASSUME Exit \/ Crash PROVE IInv'
  BY <1>5, GoneStep DEF Exit, Crash
<1> QED
  BY <1>1, <1>2, <1>3, <1>4, <1>5, SpawnFailsStep, SpawnedStep, PromptStep, PromptEndsStep,
     StaleStep, CleanupStep, PassesStep, CheckpointStep, FlushStep, BootStep, RecoverStep,
     StutterKeeps DEF Next

LEMMA Invariance == Spec => []IInv
<1>1. IInv /\ [Next]_vars => IInv'
  BY StepKeeps
<1> QED
  BY InitHolds, <1>1, PTL DEF Spec

-----------------------------------------------------------------------------
(* What was killed, and what the file says. *)

\* A session that was killed on request, or by a stop, stays dead, whatever the
\* debounces of sink and store, failed writes, crashes, restarts and an unreadable
\* file do: but for what KilledStaysKilled names.
THEOREM TheKilledStayKilled == Spec => []KilledStaysKilled
<1>1. IInv => KilledStaysKilled
  BY DEF IInv
<1> QED
  BY <1>1, Invariance, PTL

\* When the debounces of a session are over the file tells the truth about it, unless
\* it came back with its process.
THEOREM QuietIsSaved == Spec => []QuietMeansSaved
<1>1. IInv => QuietMeansSaved
  BY DEF IInv, IndexKnows, FileIsIndex, KillIsKept, NotLive, QuietMeansSaved
<1> QED
  BY <1>1, Invariance, PTL

-----------------------------------------------------------------------------
(* The budget of a chain: the way up from a session to the root, which a   *)
(* recursive function computes, and induction over its steps.              *)

LEMMA NatOrder ==
    \E R : IsWellFoundedOn(R, Nat) /\ \A x, y \in Nat : x < y => <<x, y>> \in R
<1> DEFINE R == OpToRel(<, Nat)
<1>1. IsWellFoundedOn(R, Nat)
  BY NatLessThanWellFounded
<1>2. \A x, y \in Nat : x < y => <<x, y>> \in R
  BY DEF OpToRel
<1> HIDE DEF R
<1> QED
  BY <1>1, <1>2

LEMMA NatInductionSet ==
    ASSUME NEW T, 0 \in T, \A n \in Nat : n \in T => n + 1 \in T
    PROVE  Nat \subseteq T
<1> SUFFICES ASSUME Nat \ T # {} PROVE FALSE
  OBVIOUS
<1>1. PICK R : IsWellFoundedOn(R, Nat) /\ \A x, y \in Nat : x < y => <<x, y>> \in R
  BY NatOrder
<1>2. IsWellFoundedOn(R, Nat) /\ Nat \ T \subseteq Nat
  BY <1>1
<1>3. PICK n \in Nat \ T : \A y \in Nat \ T : ~ (<<y, n>> \in R)
  BY <1>2, WFMin, Zenon
<1>4. n # 0 /\ n - 1 \in Nat /\ n - 1 < n
  OBVIOUS
<1>5. n - 1 \in T
  BY <1>1, <1>3, <1>4
<1> QED
  BY <1>4, <1>5

\* f goes up n steps from x, by the steps that next takes.
Climbs(f, next, x, N) ==
    /\ f \in [0 .. N -> Id]
    /\ f[0] = x
    /\ \A n \in 1 .. N : f[n] = next[f[n - 1]]

LEMMA ClimbExists ==
    ASSUME NEW next \in [Id -> Id], NEW x \in Id, NEW N \in Nat
    PROVE  \E f : Climbs(f, next, x, N)
<1> DEFINE T == {n \in Nat : \E f : Climbs(f, next, x, n)}
<1>1. 0 \in T
  <2>1. Climbs([n \in 0 .. 0 |-> x], next, x, 0)
    BY DEF Climbs
  <2> QED
    BY <2>1
<1>2. ASSUME NEW n \in Nat, n \in T PROVE n + 1 \in T
  <2>1. PICK f : Climbs(f, next, x, n)
    BY <1>2
  <2>2. PICK g : g = [m \in 0 .. n + 1 |-> IF m = n + 1 THEN next[f[n]] ELSE f[m]]
    OBVIOUS
  <2>3. f[n] \in Id /\ next[f[n]] \in Id
    BY <2>1 DEF Climbs
  <2>4. g \in [0 .. n + 1 -> Id]
    BY <2>1, <2>2, <2>3 DEF Climbs
  <2>5. g[0] = x
    BY <2>1, <2>2 DEF Climbs
  <2>6. ASSUME NEW m \in 1 .. n + 1 PROVE g[m] = next[g[m - 1]]
    <3>1. g[m - 1] = f[m - 1] /\ m - 1 \in 0 .. n
      BY <2>2
    <3>2. CASE m = n + 1
      BY <2>2, <3>1, <3>2
    <3>3. CASE m # n + 1
      BY <2>1, <2>2, <3>1, <3>3 DEF Climbs
    <3> QED
      BY <3>2, <3>3
  <2>7. Climbs(g, next, x, n + 1)
    BY <2>4, <2>5, <2>6 DEF Climbs
  <2> QED
    BY <2>7
<1> HIDE DEF T
<1>3. N \in T
  BY <1>1, <1>2, NatInductionSet
<1> QED
  BY <1>3 DEF T

\* The step from a session to its parent in the pool.
Up == [x \in Id |-> IF Present(sessions[x].parent) THEN sessions[x].parent ELSE x]

LEMMA UpType == Up \in [Id -> Id]
  BY DEF Up, Present

\* getRootBudget climbs.
LEMMA RootIsTop ==
    ASSUME NEW p \in Id
    PROVE  \E f : Climbs(f, Up, p, Cardinality(Id)) /\ Root(p) = f[Cardinality(Id)]
<1> DEFINE N == Cardinality(Id)
           Body(up) == [n \in 0 .. N |->
                IF n = 0 THEN p
                ELSE IF Present(sessions[up[n - 1]].parent) THEN sessions[up[n - 1]].parent
                     ELSE up[n - 1]]
           it == CHOOSE up : up = Body(up)
<1>1. N \in Nat
  BY PoolAssumption, FS_CardinalityType
<1>2. PICK f : Climbs(f, Up, p, N)
  BY <1>1, UpType, ClimbExists
<1>3. f = Body(f)
  <2> HIDE DEF N
  <2>1. f \in [0 .. N -> Id] /\ f[0] = p /\ \A n \in 1 .. N : f[n] = Up[f[n - 1]]
    BY <1>2 DEF Climbs
  <2>2. ASSUME NEW n \in 0 .. N PROVE f[n] = Body(f)[n]
    <3>1. CASE n = 0
      BY <2>1, <3>1
    <3>2. CASE n # 0
      <4>1. n \in 1 .. N /\ n - 1 \in 0 .. N
        BY <1>1, <3>2
      <4>2. f[n - 1] \in Id /\ f[n] = Up[f[n - 1]]
        BY <2>1, <4>1
      <4> QED
        BY <3>2, <4>2 DEF Up
    <3> QED
      BY <3>1, <3>2
  <2> QED
    BY <2>1, <2>2
<1>4. it = Body(it)
  BY <1>3
<1>5. Root(p) = it[N]
  BY DEF Root
<1>6. it = f
  <2> HIDE DEF it, N
  <2>1. f \in [0 .. N -> Id] /\ f[0] = p /\ \A n \in 1 .. N : f[n] = Up[f[n - 1]]
    BY <1>2 DEF Climbs
  <2>2. DOMAIN it = 0 .. N /\ it = [n \in 0 .. N |-> it[n]]
    BY <1>4
  <2> DEFINE T == {n \in Nat : n <= N => it[n] = f[n]}
  <2>3. 0 \in T
    BY <1>1, <1>4, <2>1
  <2>4. ASSUME NEW n \in Nat, n \in T PROVE n + 1 \in T
    <3> SUFFICES ASSUME n + 1 <= N PROVE it[n + 1] = f[n + 1]
      OBVIOUS
    <3>1. n + 1 \in 1 .. N /\ n + 1 \in 0 .. N /\ n \in 0 .. N /\ n + 1 # 0 /\ (n + 1) - 1 = n
      BY <1>1
    <3>2. it[n] = f[n] /\ f[n] \in Id /\ f[n + 1] = Up[f[n]]
      BY <1>1, <2>1, <2>4, <3>1
    <3>3. it[n + 1] = IF Present(sessions[it[n]].parent) THEN sessions[it[n]].parent ELSE it[n]
      BY <1>4, <3>1
    <3> QED
      BY <3>2, <3>3 DEF Up
  <2>5. Nat \subseteq T
    <3> HIDE DEF T
    <3> QED
      BY <2>3, <2>4, NatInductionSet
  <2>6. \A n \in 0 .. N : it[n] = f[n]
    BY <1>1, <2>5
  <2> QED
    BY <2>1, <2>2, <2>6
<1> QED
  BY <1>2, <1>5, <1>6

\* Along a whole chain, up means to the parent, and the root is where it ends.
LEMMA OneUp ==
    ASSUME PoolTypeOK, Linked, NEW x \in Id, Present(x), sessions[x].origin \notin broken
    PROVE  /\ Up[x] \in Id /\ Present(Up[x]) /\ sessions[Up[x]].origin = sessions[x].origin
           /\ x = sessions[x].origin => Up[x] = x
           /\ x # sessions[x].origin => Up[x] = sessions[x].parent
  BY DEF Linked, InChain, Up, Present

LEMMA RootOfChain ==
    ASSUME PoolTypeOK, Linked, Grounded, NEW p \in Id, Present(p), sessions[p].origin \notin broken
    PROVE  Root(p) = sessions[p].origin /\ Present(sessions[p].origin)
<1> DEFINE N == Cardinality(Id)
<1>1. PICK r : r = sessions[p].origin
  OBVIOUS
<1>2. r \in Id /\ r \notin broken
  BY <1>1 DEF PoolTypeOK, Present, Session
<1>3. PICK f : Climbs(f, Up, p, N) /\ Root(p) = f[N]
  BY RootIsTop
<1>4. N \in Nat /\ IsFiniteSet(Id)
  BY PoolAssumption, FS_CardinalityType
<1> HIDE DEF N
<1>5. f \in [0 .. N -> Id] /\ f[0] = p /\ \A n \in 1 .. N : f[n] = Up[f[n - 1]]
  BY <1>3 DEF Climbs
<1>6. \A n \in 0 .. N : Present(f[n]) /\ sessions[f[n]].origin = r
  <2> DEFINE T == {n \in Nat : n <= N => Present(f[n]) /\ sessions[f[n]].origin = r}
  <2>1. 0 \in T
    BY <1>1, <1>5
  <2>2. ASSUME NEW n \in Nat, n \in T PROVE n + 1 \in T
    <3> SUFFICES ASSUME n + 1 <= N PROVE Present(f[n + 1]) /\ sessions[f[n + 1]].origin = r
      OBVIOUS
    <3>1. n \in 0 .. N /\ n + 1 \in 1 .. N /\ (n + 1) - 1 = n
      BY <1>4
    <3>2. f[n] \in Id /\ Present(f[n]) /\ sessions[f[n]].origin = r
      BY <1>4, <1>5, <2>2, <3>1
    <3>3. f[n + 1] = Up[f[n]]
      BY <1>5, <3>1
    <3> QED
      BY <1>2, <3>2, <3>3, OneUp
  <2>3. Nat \subseteq T
    <3> HIDE DEF T
    <3> QED
      BY <2>1, <2>2, NatInductionSet
  <2> QED
    BY <1>4, <2>3
<1>7. \E i \in 0 .. N : f[i] = r
  <2> SUFFICES ASSUME \A i \in 0 .. N : f[i] # r PROVE FALSE
    OBVIOUS
  <2>1. IsFiniteSet(0 .. N) /\ Cardinality(Id) < Cardinality(0 .. N)
    <3>1. IsFiniteSet(0 .. N) /\ Cardinality(0 .. N) = N + 1
      BY <1>4, FS_Interval
    <3> QED
      BY <1>4, <3>1 DEF N
  <2>2. \E i, j \in 0 .. N : i # j /\ f[i] = f[j]
    BY <1>4, <1>5, <2>1, FS_PigeonHole
  <2>3. PICK i, j \in 0 .. N : i < j /\ f[i] = f[j]
    BY <1>4, <2>2
  <2>4. PICK C : C = {f[n] : n \in i .. j - 1}
    OBVIOUS
  <2>5. C \subseteq Id /\ f[i] \in C
    BY <1>4, <1>5, <2>3, <2>4
  <2>6. PICK x \in C : Below(x) => sessions[x].parent \notin C
    BY <2>5 DEF Grounded
  <2>7. PICK n \in i .. j - 1 : x = f[n]
    BY <2>4, <2>6
  <2>8. n \in 0 .. N /\ n + 1 \in 1 .. N /\ (n + 1) - 1 = n /\ n + 1 \in i .. j
    BY <1>4, <2>3, <2>7
  <2>9. x \in Id /\ Present(x) /\ sessions[x].origin = r /\ x # r
    BY <1>5, <1>6, <2>7, <2>8
  <2>10. f[n + 1] = Up[x]
    BY <1>5, <2>7, <2>8
  <2>11. Up[x] = sessions[x].parent
    BY <1>2, <2>9, OneUp
  <2>12. f[n + 1] \in C
    <3>1. CASE n + 1 = j
      BY <2>3, <2>5, <3>1
    <3>2. CASE n + 1 # j
      BY <1>4, <2>3, <2>4, <2>8, <3>2
    <3> QED
      BY <3>1, <3>2
  <2> QED
    BY <1>2, <2>6, <2>9, <2>10, <2>11, <2>12 DEF Below
<1>8. PICK i \in 0 .. N : f[i] = r
  BY <1>7
<1>9. Present(r) /\ sessions[r].origin = r /\ Up[r] = r
  <2>1. Present(r) /\ sessions[r].origin = r
    BY <1>6, <1>8
  <2> QED
    BY <1>2, <2>1, OneUp
<1>10. f[N] = r
  <2> DEFINE T == {n \in Nat : i + n <= N => f[i + n] = r}
  <2>1. 0 \in T
    BY <1>4, <1>8
  <2>2. ASSUME NEW n \in Nat, n \in T PROVE n + 1 \in T
    <3> SUFFICES ASSUME i + (n + 1) <= N PROVE f[i + (n + 1)] = r
      OBVIOUS
    <3>1. i + n <= N /\ i + (n + 1) \in 1 .. N /\ (i + (n + 1)) - 1 = i + n
      BY <1>4
    <3>2. f[i + n] = r
      BY <2>2, <3>1
    <3> QED
      BY <1>5, <1>9, <3>1, <3>2
  <2>3. Nat \subseteq T
    <3> HIDE DEF T
    <3> QED
      BY <2>1, <2>2, NatInductionSet
  <2>4. N - i \in Nat /\ i + (N - i) = N
    BY <1>4, <1>8
  <2> QED
    BY <1>4, <2>3, <2>4
<1> QED
  BY <1>1, <1>3, <1>9, <1>10

-----------------------------------------------------------------------------
(* Steps that do not count agents. *)

\* x has a record, in the pool or on its way, with this parent and in this chain.
HasRecord(x, p, r) ==
    \/ Present(x) /\ sessions[x].parent = p /\ sessions[x].origin = r
    \/ opening[x] # Absent /\ opening[x].parent = p /\ opening[x].origin = r

Alike(x) ==
    /\ Present(x)' <=> Present(x)
    /\ Present(x) => /\ sessions'[x].parent = sessions[x].parent
                     /\ sessions'[x].origin = sessions[x].origin
                     /\ sessions'[x].spawned >= sessions[x].spawned

\* Only these sessions come, go or are replaced, and of a chain that stays whole
\* none goes that the chain needs.
Changes(G) ==
    /\ \A x \in Id \ G : Alike(x)
    /\ \A x, r \in Id, p \in Id \union {Absent} :
           HasRecord(x, p, r)' /\ x # r => HasRecord(x, p, r)
    /\ broken \subseteq broken'
    /\ \A r \in Id \ broken' : /\ \A y \in G : Present(y) /\ sessions[y].origin = r => Family(r) = {}
                               /\ \A p \in Id \union {Absent} : HasRecord(r, p, r)' => ~Present(p)'

\* Where the record of a session leads.
LEMMA RecordLinks ==
    ASSUME Linked, NEW x \in Id, NEW r \in Id \ broken, NEW p, HasRecord(x, p, r)
    PROVE  IF r = x THEN ~Present(p) ELSE Present(p) /\ sessions[p].origin = r
  BY DEF Linked, InChain, HasRecord

RecordTyped(x) ==
    /\ Present(x) => /\ sessions[x].parent \in Id \union {Absent} /\ sessions[x].origin \in Id
                     /\ sessions[x].spawned \in Nat
                     /\ HasRecord(x, sessions[x].parent, sessions[x].origin)
    /\ opening[x] # Absent => /\ opening[x].parent \in Id \union {Absent}
                              /\ opening[x].origin \in Id
                              /\ HasRecord(x, opening[x].parent, opening[x].origin)

RecordsTyped == \A x \in Id : RecordTyped(x)

LEMMA RecordType == PoolTypeOK => RecordsTyped
<1> SUFFICES ASSUME PoolTypeOK, NEW x \in Id PROVE RecordTyped(x)
  BY DEF RecordsTyped
<1>1. Present(x) => sessions[x] \in Session
  BY DEF PoolTypeOK, Present
<1>2. opening[x] # Absent => opening[x] \in Opening
  BY DEF PoolTypeOK
<1> QED
  BY <1>1, <1>2, PoolAssumption DEF Session, Opening, HasRecord, RecordTyped

RecordsLinked ==
    \A x \in Id, r \in Id \ broken, p \in Id \union {Absent} : HasRecord(x, p, r) =>
        IF r = x THEN ~Present(p) ELSE Present(p) /\ sessions[p].origin = r

LEMMA LinkedByRecord == PoolTypeOK /\ RecordsLinked => Linked
<1> SUFFICES ASSUME PoolTypeOK, RecordsLinked, NEW x \in Id
             PROVE  /\ Present(x) => InChain(x, sessions[x])
                    /\ opening[x] # Absent => InChain(x, opening[x])
  BY DEF Linked
<1>z. RecordTyped(x)
  BY RecordType DEF RecordsTyped
<1>1. ASSUME Present(x) PROVE InChain(x, sessions[x])
  BY <1>z, <1>1 DEF InChain, RecordTyped, RecordsLinked
<1>2. ASSUME opening[x] # Absent PROVE InChain(x, opening[x])
  BY <1>z, <1>2 DEF InChain, RecordTyped, RecordsLinked
<1> QED
  BY <1>1, <1>2

FamiliesRecorded ==
    \A r, x \in Id :
        x \in Family(r) <=> x # r /\ \E p \in Id \union {Absent} : HasRecord(x, p, r)

LEMMA FamilyRecord == PoolTypeOK => FamiliesRecorded
<1> SUFFICES ASSUME PoolTypeOK, NEW r \in Id, NEW x \in Id
             PROVE  x \in Family(r) <=>
                        x # r /\ \E p \in Id \union {Absent} : HasRecord(x, p, r)
  BY DEF FamiliesRecorded
<1>z. RecordTyped(x)
  BY RecordType DEF RecordsTyped
<1>1. ASSUME x \in Family(r) PROVE x # r /\ \E p \in Id \union {Absent} : HasRecord(x, p, r)
  BY <1>z, <1>1 DEF Family, HasRecord, RecordTyped
<1>2. ASSUME x # r, NEW p \in Id \union {Absent}, HasRecord(x, p, r) PROVE x \in Family(r)
  BY <1>2 DEF Family, HasRecord
<1> QED
  BY <1>1, <1>2

LEMMA FamilySize ==
    ASSUME NEW r \in Id
    PROVE  IsFiniteSet(Family(r)) /\ Cardinality(Family(r)) \in Nat
<1>1. Family(r) \subseteq Id
  BY DEF Family
<1> QED
  BY <1>1, PoolAssumption, FS_Subset, FS_CardinalityType

LEMMA ChangesKeep ==
    ASSUME PoolTypeOK, PoolTypeOK', ChainInv, NEW G \in SUBSET Id, Changes(G)
    PROVE  ChainInv'
<1>1. Linked /\ RootThere /\ Grounded /\ ChainBudget
  BY DEF ChainInv
<1>z. RecordsTyped /\ RecordsTyped' /\ FamiliesRecorded /\ FamiliesRecorded'
  <2>1. RecordsTyped' /\ FamiliesRecorded'
    BY RecordType, FamilyRecord, PTL
  <2> QED
    BY <2>1, RecordType, FamilyRecord
<1>2. \A r \in Id \ broken' : r \in Id \ broken
  BY DEF Changes
<1>3. ASSUME NEW r \in Id \ broken', NEW x \in Id, NEW p \in Id \union {Absent}, x # r,
             HasRecord(x, p, r)'
      PROVE  /\ HasRecord(x, p, r) /\ x \in Family(r)
             /\ Present(p) /\ sessions[p].origin = r /\ p \in Id \ G
  <2>1. HasRecord(x, p, r)
    BY <1>3 DEF Changes
  <2>2. x \in Family(r)
    BY <1>z, <1>3, <2>1 DEF FamiliesRecorded
  <2>3. Present(p) /\ sessions[p].origin = r /\ p \in Id
    BY <1>1, <1>2, <1>3, <2>1, RecordLinks DEF Present
  <2>4. p \notin G
    BY <2>2, <2>3 DEF Changes
  <2> QED
    BY <2>1, <2>2, <2>3, <2>4
<1>4. \A r \in Id \ broken' : Family(r)' \subseteq Family(r)
  <2> SUFFICES ASSUME NEW r \in Id \ broken', NEW x \in Family(r)' PROVE x \in Family(r)
    OBVIOUS
  <2>1. x \in Id
    BY DEF Family
  <2>2. x # r /\ \E p \in Id \union {Absent} : HasRecord(x, p, r)'
    BY <1>z, <2>1 DEF FamiliesRecorded
  <2> QED
    BY <1>3, <2>1, <2>2
<1>5. Linked'
  <2>1. ASSUME NEW x \in Id, NEW r \in Id \ broken', NEW p \in Id \union {Absent},
               HasRecord(x, p, r)'
        PROVE  IF r = x THEN ~Present(p)' ELSE Present(p)' /\ sessions'[p].origin = r
    <3>1. CASE r = x
      BY <2>1, <3>1 DEF Changes
    <3>2. CASE r # x
      <4>1. Present(p) /\ sessions[p].origin = r /\ p \in Id \ G
        BY <1>3, <2>1, <3>2
      <4> QED
        BY <3>2, <4>1 DEF Changes, Alike
    <3> QED
      BY <3>1, <3>2
  <2>2. RecordsLinked'
    BY <2>1 DEF RecordsLinked
  <2> QED
    BY <2>2, LinkedByRecord, PTL
<1>6. ASSUME NEW r \in Id \ broken', Family(r) # {}
      PROVE  Present(r) /\ sessions[r].origin = r /\ r \notin G
  BY <1>1, <1>2, <1>6 DEF RootThere, Changes
<1>7. RootThere'
  <2> SUFFICES ASSUME NEW r \in Id \ broken', Family(r)' # {}
               PROVE  Present(r)' /\ sessions'[r].origin = r
    BY DEF RootThere
  <2>1. Present(r) /\ sessions[r].origin = r /\ r \notin G
    BY <1>4, <1>6
  <2> QED
    BY <2>1 DEF Changes, Alike
<1>8. Grounded'
  <2> SUFFICES ASSUME NEW C \in SUBSET Id, C # {}
               PROVE  \E x \in C : Below(x)' => sessions'[x].parent \notin C
    BY DEF Grounded
  <2>1. ASSUME NEW x \in Id, Below(x)' PROVE sessions'[x].parent \notin G
    <3>1. Present(x)' /\ sessions'[x].origin \notin broken' /\ x # sessions'[x].origin
      BY <2>1 DEF Below
    <3>2. sessions'[x].parent \in Id \union {Absent} /\ sessions'[x].origin \in Id
      BY <1>z, <3>1 DEF RecordsTyped, RecordTyped
    <3>3. PICK p \in Id \union {Absent}, r \in Id : p = sessions'[x].parent /\ r = sessions'[x].origin
      BY <3>2
    <3>4. HasRecord(x, p, r)'
      BY <3>1, <3>3 DEF HasRecord
    <3>5. p \in Id \ G
      BY <1>3, <3>1, <3>3, <3>4
    <3> QED
      BY <3>3, <3>5
  <2>2. ASSUME NEW x \in Id \ G, Below(x)' PROVE Below(x) /\ sessions'[x].parent = sessions[x].parent
    BY <2>2 DEF Below, Changes, Alike
  <2>3. CASE C \subseteq G
    BY <2>1, <2>3
  <2>4. CASE ~(C \subseteq G)
    <3>1. PICK x \in C \ G : Below(x) => sessions[x].parent \notin C \ G
      BY <1>1, <2>4 DEF Grounded
    <3> QED
      BY <2>1, <2>2, <3>1
  <2> QED
    BY <2>3, <2>4
<1>9. ChainBudget'
  <2> SUFFICES ASSUME NEW r \in Id, Present(r)', sessions'[r].origin = r, r \notin broken'
               PROVE  Cardinality(Family(r)') <= sessions'[r].spawned
    BY DEF ChainBudget
  <2>0. sessions'[r].spawned \in Nat
    BY <1>z DEF RecordsTyped, RecordTyped
  <2>1. Family(r)' \subseteq Family(r) /\ Family(r) \subseteq Id
    BY <1>4 DEF Family
  <2>2. CASE Family(r)' = {}
    BY <2>0, <2>2, FS_EmptySet
  <2>3. CASE Family(r)' # {}
    <3>1. Present(r) /\ sessions[r].origin = r /\ r \notin G /\ r \notin broken
      BY <1>2, <1>6, <2>1, <2>3
    <3>2. Cardinality(Family(r)) <= sessions[r].spawned
      BY <1>1, <3>1 DEF ChainBudget
    <3>3. sessions[r].spawned \in Nat /\ sessions'[r].spawned >= sessions[r].spawned
      BY <1>z, <3>1 DEF Changes, Alike, RecordsTyped, RecordTyped
    <3>4. /\ Cardinality(Family(r)') \in Nat /\ Cardinality(Family(r)) \in Nat
          /\ Cardinality(Family(r)') <= Cardinality(Family(r))
      BY <2>1, SmallerSet
    <3> QED
      BY <2>0, <3>2, <3>3, <3>4
  <2> QED
    BY <2>2, <2>3
<1> QED
  BY <1>5, <1>7, <1>8, <1>9 DEF ChainInv

-----------------------------------------------------------------------------
(* The steps of the pool. *)

LEMMA BeginAlike ==
    ASSUME PoolTypeOK, NEW id \in Id, NEW parent \in Id \union {Absent}, NEW watched \in BOOLEAN,
           Begin(id, parent, watched)
    PROVE  /\ \A x \in Id : Alike(x)
           /\ Present(parent) => sessions'[BudgetHolder(parent)].spawned
                                   >= sessions[BudgetHolder(parent)].spawned + 1
           /\ opening'[id] # Absent /\ opening'[id].parent = parent
           /\ opening'[id].origin = IF Present(parent) THEN sessions[parent].origin ELSE id
           /\ \A x \in Id \ {id} : opening'[x] = opening[x]
           /\ opening[id] = Absent /\ broken' = broken
<1>1. /\ \A x \in Id \ {id} : opening'[x] = opening[x]
      /\ opening[id] = Absent /\ broken' = broken
  BY DEF Begin, PoolTypeOK
<1>2. PoolTypeOK'
  BY BeginKeeps
<1>3. opening'[id] \in Opening \union {Absent} /\ opening \in [Id -> Opening \union {Absent}]
  BY <1>2 DEF PoolTypeOK
<1>4. CASE Present(parent)
  <2>1. PICK r : r = BudgetHolder(parent)
    OBVIOUS
  <2>2. Present(r)
    BY <1>4, <2>1 DEF BudgetHolder
  <2>3. r \in Id /\ sessions[r] \in Session /\ sessions[parent] \in Session /\ parent \in Id
    BY <1>4, <2>2 DEF Present, PoolTypeOK
  <2>4. sessions[r].spawned < MaxAgents /\ sessions[r].spawned \in Nat
    BY <1>4, <2>1, <2>3 DEF Begin, BudgetLeft, Session
  <2>5. PICK s : s = [sessions[r] EXCEPT !.spawned = @ + 1]
    OBVIOUS
  <2>6. sessions[r].spawned + 1 \in 0 .. MaxAgents
    BY <2>4, PoolAssumption
  <2>7. /\ s \in Session /\ s.parent = sessions[r].parent /\ s.origin = sessions[r].origin
        /\ s.spawned = sessions[r].spawned + 1
    BY <2>3, <2>5, <2>6 DEF Session
  <2>8. sessions' = [sessions EXCEPT ![r] = s]
    BY <1>4, <2>1, <2>5 DEF Begin, Counted
  <2>9. sessions'[r] = s /\ \A x \in Id : x # r => sessions'[x] = sessions[x]
    BY <2>3, <2>8 DEF PoolTypeOK
  <2>z. \A x \in Id : Present(x) => sessions[x].spawned \in Nat
    BY RecordType DEF RecordsTyped, RecordTyped
  <2>10. \A x \in Id : Alike(x)
    BY <2>2, <2>3, <2>4, <2>7, <2>9, <2>z, AbsenceAssumption DEF Alike, Present
  <2>11. PICK o : o = [watched |-> watched, parent |-> parent, crossed |-> FALSE,
                       spawned |-> s.spawned, origin |-> sessions[parent].origin]
    OBVIOUS
  <2>12. opening' = [opening EXCEPT ![id] = o]
    BY <1>4, <2>1, <2>9, <2>11 DEF Begin
  <2>13. o \in Opening /\ o.parent = parent /\ o.origin = sessions[parent].origin
    BY <2>3, <2>6, <2>7, <2>11 DEF Opening, Session
  <2>14. opening'[id] = o
    BY <2>12 DEF PoolTypeOK
  <2> QED
    BY <1>1, <1>4, <2>1, <2>4, <2>7, <2>9, <2>10, <2>13, <2>14, AbsenceAssumption
<1>5. CASE ~Present(parent)
  <2>1. sessions' = sessions
    BY <1>5 DEF Begin, Counted
  <2>2. PICK o : o = [watched |-> watched, parent |-> parent, crossed |-> FALSE,
                      spawned |-> 0, origin |-> id]
    OBVIOUS
  <2>3. opening' = [opening EXCEPT ![id] = o]
    BY <1>5, <2>2 DEF Begin
  <2>4. o \in Opening /\ o.parent = parent /\ o.origin = id
    BY <2>2, PoolAssumption DEF Opening
  <2>5. opening'[id] = o
    BY <2>3 DEF PoolTypeOK
  <2>6. \A x \in Id : Present(x) => sessions[x].spawned \in Nat
    BY RecordType DEF RecordsTyped, RecordTyped
  <2>7. \A x \in Id : Alike(x)
    BY <2>1, <2>6 DEF Alike, Present
  <2> QED
    BY <1>1, <1>5, <2>4, <2>5, <2>7, AbsenceAssumption
<1> QED
  BY <1>4, <1>5

\* A create counts its agent where getRootBudget finds the budget, and in a whole
\* chain that is the root's.  The id of an agent is new.
LEMMA BeginChain ==
    ASSUME PoolTypeOK, ChainInv,
           NEW id \in Id, NEW parent \in Id \union {Absent}, NEW watched \in BOOLEAN,
           Begin(id, parent, watched), parent # Absent => id # parent /\ ~Present(id)
    PROVE  ChainInv'
<1>1. Linked /\ RootThere /\ Grounded /\ ChainBudget
  BY DEF ChainInv
<1>2. PoolTypeOK'
  BY BeginKeeps
<1>3. /\ \A x \in Id : Alike(x)
      /\ Present(parent) => sessions'[BudgetHolder(parent)].spawned
                              >= sessions[BudgetHolder(parent)].spawned + 1
      /\ \A x \in Id \ {id} : opening'[x] = opening[x]
      /\ opening[id] = Absent /\ broken' = broken
  BY BeginAlike
<1>4. PICK q : q = IF Present(parent) THEN sessions[parent].origin ELSE id
  OBVIOUS
<1>5. opening'[id] # Absent /\ opening'[id].parent = parent /\ opening'[id].origin = q
  BY <1>4, BeginAlike
<1>6. RecordsTyped /\ FamiliesRecorded /\ RecordsTyped' /\ FamiliesRecorded'
  <2>1. RecordsTyped' /\ FamiliesRecorded'
    BY <1>2, RecordType, FamilyRecord, PTL
  <2> QED
    BY <2>1, RecordType, FamilyRecord
<1>7. parent \in Id => Alike(parent)
  BY <1>3
<1>8. ASSUME Present(parent), q \notin broken
      PROVE  /\ parent \in Id /\ q \in Id /\ q # id
             /\ Present(q) /\ sessions[q].origin = q /\ BudgetHolder(parent) = q
  <2>1. parent \in Id /\ q = sessions[parent].origin /\ q \in Id /\ parent # Absent
    BY <1>4, <1>6, <1>8, PoolAssumption DEF Present, RecordsTyped, RecordTyped
  <2>2. Root(parent) = q /\ Present(q)
    BY <1>1, <1>8, <2>1, RootOfChain
  <2>3. BudgetHolder(parent) = q
    BY <2>2 DEF BudgetHolder
  <2>4. sessions[q].origin = q
    <3>1. CASE parent = q
      BY <2>1, <3>1
    <3>2. CASE parent # q
      <4>1. parent \in Family(q)
        BY <1>8, <2>1, <3>2 DEF Family
      <4> QED
        BY <1>1, <1>8, <2>1, <4>1 DEF RootThere
    <3> QED
      BY <3>1, <3>2
  <2> QED
    BY <2>1, <2>2, <2>3, <2>4
<1>9. ASSUME NEW x \in Id, NEW r \in Id, NEW p \in Id \union {Absent}, HasRecord(x, p, r)'
      PROVE  HasRecord(x, p, r) \/ (x = id /\ p = parent /\ r = q)
  BY <1>3, <1>5, <1>9 DEF HasRecord, Alike, Present
<1>10. Linked'
  <2>1. ASSUME NEW x \in Id, NEW r \in Id \ broken', NEW p \in Id \union {Absent},
               HasRecord(x, p, r)'
        PROVE  IF r = x THEN ~Present(p)' ELSE Present(p)' /\ sessions'[p].origin = r
    <3>1. r \in Id \ broken
      BY <1>3
    <3>2. CASE HasRecord(x, p, r)
      <4>1. IF r = x THEN ~Present(p) ELSE Present(p) /\ sessions[p].origin = r
        BY <1>1, <3>1, <3>2, RecordLinks
      <4>2. p \in Id => Alike(p)
        BY <1>3
      <4>3. p \notin Id => ~Present(p) /\ ~Present(p)'
        BY DEF Present
      <4> QED
        BY <4>1, <4>2, <4>3 DEF Alike
    <3>3. CASE x = id /\ p = parent /\ r = q
      <4>1. CASE Present(parent)
        BY <1>4, <1>7, <1>8, <3>1, <3>3, <4>1 DEF Alike
      <4>2. CASE ~Present(parent)
        BY <1>4, <1>7, <3>3, <4>2 DEF Alike, Present
      <4> QED
        BY <4>1, <4>2
    <3> QED
      BY <1>9, <2>1, <3>2, <3>3
  <2>2. RecordsLinked'
    BY <2>1 DEF RecordsLinked
  <2> QED
    BY <1>2, <2>2, LinkedByRecord, PTL
<1>11. ASSUME NEW r \in Id
       PROVE  \/ Family(r)' \subseteq Family(r)
              \/ r = q /\ q # id /\ Family(r)' \subseteq Family(r) \union {id}
  <2>1. ASSUME NEW x \in Family(r)'
        PROVE  x \in Family(r) \/ (x = id /\ r = q /\ q # id)
    <3>1. x \in Id
      BY DEF Family
    <3>2. PICK p \in Id \union {Absent} : x # r /\ HasRecord(x, p, r)'
      BY <1>6, <3>1 DEF FamiliesRecorded
    <3>3. CASE HasRecord(x, p, r)
      BY <1>6, <3>1, <3>2, <3>3 DEF FamiliesRecorded
    <3>4. CASE x = id /\ r = q
      BY <3>2, <3>4
    <3> QED
      BY <1>9, <3>1, <3>2, <3>3, <3>4
  <2> QED
    BY <2>1
<1>12. ASSUME NEW r \in Id \ broken, r = q, q # id PROVE Present(parent)
  BY <1>4, <1>12
<1>13. RootThere'
  <2> SUFFICES ASSUME NEW r \in Id \ broken', Family(r)' # {}
               PROVE  Present(r)' /\ sessions'[r].origin = r
    BY DEF RootThere
  <2>1. r \in Id \ broken /\ Alike(r)
    BY <1>3
  <2>2. Present(r) /\ sessions[r].origin = r
    <3>1. CASE Family(r) # {}
      BY <1>1, <2>1, <3>1 DEF RootThere
    <3>2. CASE Family(r) = {}
      <4>1. r = q /\ q # id
        BY <1>11, <3>2
      <4> QED
        BY <1>8, <1>12, <2>1, <4>1
    <3> QED
      BY <3>1, <3>2
  <2> QED
    BY <2>1, <2>2 DEF Alike
<1>14. Grounded'
  <2> SUFFICES ASSUME NEW C \in SUBSET Id, C # {}
               PROVE  \E x \in C : Below(x)' => sessions'[x].parent \notin C
    BY DEF Grounded
  <2>1. PICK x \in C : Below(x) => sessions[x].parent \notin C
    BY <1>1 DEF Grounded
  <2>2. Alike(x)
    BY <1>3
  <2>3. Below(x)' => Below(x) /\ sessions'[x].parent = sessions[x].parent
    BY <1>3, <2>2 DEF Below, Alike
  <2> QED
    BY <2>1, <2>3
<1>15. ChainBudget'
  <2> SUFFICES ASSUME NEW r \in Id, Present(r)', sessions'[r].origin = r, r \notin broken'
               PROVE  Cardinality(Family(r)') <= sessions'[r].spawned
    BY DEF ChainBudget
  <2>1. Present(r) /\ sessions[r].origin = r /\ r \in Id \ broken
    BY <1>3 DEF Alike
  <2>2. Cardinality(Family(r)) <= sessions[r].spawned
    BY <1>1, <2>1 DEF ChainBudget
  <2>3. /\ sessions[r].spawned \in Nat /\ sessions'[r].spawned \in Nat
        /\ sessions'[r].spawned >= sessions[r].spawned
    BY <1>3, <1>6, <2>1 DEF Alike, RecordsTyped, RecordTyped
  <2>4. Family(r) \in SUBSET Id /\ Family(r)' \in SUBSET Id
    BY DEF Family
  <2>5. Cardinality(Family(r)) \in Nat /\ Cardinality(Family(r)') \in Nat
    BY <2>4, SmallerSet
  <2>6. CASE Family(r)' \subseteq Family(r)
    <3>1. Cardinality(Family(r)') <= Cardinality(Family(r))
      BY <2>4, <2>6, SmallerSet
    <3> QED
      BY <2>2, <2>3, <2>5, <3>1
  <2>7. CASE r = q /\ q # id /\ Family(r)' \subseteq Family(r) \union {id}
    <3>1. Cardinality(Family(r)') <= Cardinality(Family(r)) + 1
      BY <2>4, <2>7, OneMore
    <3>2. BudgetHolder(parent) = r /\ Present(parent)
      BY <1>8, <1>12, <2>1, <2>7
    <3>3. sessions'[r].spawned >= sessions[r].spawned + 1
      BY <1>3, <3>2
    <3> QED
      BY <2>2, <2>3, <2>5, <3>1, <3>3
  <2> QED
    BY <1>11, <2>6, <2>7
<1> QED
  BY <1>10, <1>13, <1>14, <1>15 DEF ChainInv

LEMMA AlikeKeeps ==
    ASSUME PoolTypeOK, PoolTypeOK', ChainInv, \A x \in Id : Alike(x), broken' = broken,
           \A x \in Id : opening'[x] # Absent =>
               /\ opening[x] # Absent
               /\ opening'[x].parent = opening[x].parent
               /\ opening'[x].origin = opening[x].origin
    PROVE  ChainInv'
<1>1. Linked
  BY DEF ChainInv
<1>2. ASSUME NEW x \in Id, NEW r \in Id, NEW p \in Id \union {Absent}, HasRecord(x, p, r)'
      PROVE  HasRecord(x, p, r)
  BY <1>2 DEF HasRecord, Alike
<1>3. ASSUME NEW r \in Id \ broken', NEW p \in Id \union {Absent}, HasRecord(r, p, r)'
      PROVE  ~Present(p)'
  <2>1. ~Present(p)
    BY <1>1, <1>2, <1>3, RecordLinks
  <2>2. p \in Id => Alike(p)
    OBVIOUS
  <2> QED
    BY <2>1, <2>2 DEF Alike, Present
<1>4. Changes({})
  BY <1>2, <1>3 DEF Changes
<1>5. {} \in SUBSET Id
  OBVIOUS
<1> QED
  BY <1>4, <1>5, ChangesKeep

\* Records of one session at two times.
SameCount(s, t) == t.parent = s.parent /\ t.origin = s.origin /\ t.spawned = s.spawned

LEMMA CountsStay ==
    ASSUME NEW s \in Session
    PROVE  /\ SameCount(s, Prompted(s)) /\ SameCount(s, Ended(s)) /\ SameCount(s, Killed(s))
           /\ SameCount(s, [s EXCEPT !.since = @ + 1])
<1>1. SameCount(s, Killed(s)) /\ SameCount(s, [s EXCEPT !.since = @ + 1])
  BY DEF SameCount, Killed, Session
<1>2. SameCount(s, Prompted(s))
  BY DEF SameCount, Prompted, Starts, Session
<1>3. SameCount(s, Ended(s))
  <2>1. CASE s.status = "dead"
    <3>1. Ended(s) = [s EXCEPT !.runs = FALSE, !.waiting = 0, !.since = 0]
      BY <2>1 DEF Ended
    <3> QED
      BY <3>1 DEF SameCount, Session
  <2>2. CASE s.status # "dead" /\ s.waiting > 0
    <3>1. Ended(s) = [s EXCEPT !.status = "working", !.runs = TRUE, !.since = 0, !.waiting = @ - 1]
      BY <2>2 DEF Ended, Starts, Session
    <3> QED
      BY <3>1 DEF SameCount, Session
  <2>3. CASE s.status # "dead" /\ ~(s.waiting > 0)
    <3>1. Ended(s) = [s EXCEPT !.runs = FALSE, !.status = "ready", !.since = 0]
      BY <2>3 DEF Ended
    <3> QED
      BY <3>1 DEF SameCount, Session
  <2> QED
    BY <2>1, <2>2, <2>3
<1> QED
  BY <1>1, <1>2, <1>3

LEMMA SameCountAlike ==
    ASSUME PoolTypeOK, PoolTypeOK', NEW x \in Id,
           \/ sessions'[x] = sessions[x]
           \/ /\ Present(x) /\ Present(x)'
              /\ SameCount(sessions[x], sessions'[x])
    PROVE  Alike(x)
<1>1. Present(x) => sessions[x].spawned \in Nat
  BY RecordType DEF RecordsTyped, RecordTyped
<1> QED
  BY <1>1 DEF Alike, SameCount, Present

LEMMA QuietChain ==
    ASSUME PoolTypeOK, ChainInv,
           \/ \E id \in Id : OpenFails(id) \/ Prompt(id) \/ RunEnds(id)
           \/ \E ids \in SUBSET Id : Kill(ids) /\ \A x \in ids : Present(x)
           \/ checkStale
           \/ Tick
    PROVE  ChainInv'
<1>1. broken' = broken
  BY DEF OpenFails, Prompt, RunEnds, Kill, checkStale, Tick
<1>2. \A x \in Id : opening'[x] # Absent => opening'[x] = opening[x]
  BY DEF OpenFails, Prompt, RunEnds, Kill, checkStale, Tick, PoolTypeOK
<1>3. PoolTypeOK'
  BY OpenFailsKeeps, PromptKeeps, RunEndsKeeps, KillKeeps, CheckStaleKeeps, TickKeeps
<1>4. \A x \in Id : Present(x) => sessions[x] \in Session
  BY DEF PoolTypeOK, Present
<1>5. ASSUME NEW id \in Id, OpenFails(id) PROVE sessions' = sessions
  BY <1>5 DEF OpenFails
<1>6. ASSUME NEW id \in Id, Prompt(id), NEW x \in Id PROVE Alike(x)
  <2>1. Present(id) /\ Stays(id)
    BY <1>6, PromptKeeps DEF Prompt, Live
  <2>2. IF x = id THEN sessions'[x] = Prompted(sessions[x]) ELSE sessions'[x] = sessions[x]
    BY <1>6 DEF Prompt, PoolTypeOK
  <2> QED
    BY <1>3, <1>4, <2>1, <2>2, CountsStay, SameCountAlike DEF Stays, Present
<1>7. ASSUME NEW id \in Id, RunEnds(id), NEW x \in Id PROVE Alike(x)
  <2>1. Present(id) /\ Stays(id)
    BY <1>7, RunEndsKeeps
  <2>2. IF x = id THEN sessions'[x] = Ended(sessions[x]) ELSE sessions'[x] = sessions[x]
    BY <1>7 DEF RunEnds, PoolTypeOK
  <2> QED
    BY <1>3, <1>4, <2>1, <2>2, CountsStay, SameCountAlike DEF Stays, Present
<1>8. ASSUME NEW ids \in SUBSET Id, Kill(ids), \A x \in ids : Present(x), NEW x \in Id
      PROVE  Alike(x)
  <2>1. Stays(x)
    BY <1>8, KillKeeps
  <2>2. IF x \in ids THEN sessions'[x] = Killed(sessions[x]) ELSE sessions'[x] = sessions[x]
    BY <1>8 DEF Kill
  <2> QED
    BY <1>3, <1>4, <1>8, <2>1, <2>2, CountsStay, SameCountAlike DEF Stays, Present
<1>9. ASSUME checkStale, NEW x \in Id PROVE Alike(x)
  <2>1. Stays(x)
    BY <1>9, CheckStaleKeeps
  <2>2. sessions'[x] = sessions[x] \/ (Present(x) /\ sessions'[x] = Killed(sessions[x]))
    BY <1>9 DEF checkStale, Checked, Present
  <2> QED
    BY <1>3, <1>4, <2>1, <2>2, CountsStay, SameCountAlike DEF Stays, Present
<1>10. ASSUME Tick, NEW x \in Id PROVE Alike(x)
  <2>1. Stays(x)
    BY <1>10, TickKeeps
  <2>2. \/ sessions'[x] = sessions[x]
        \/ Present(x) /\ sessions'[x] = [sessions[x] EXCEPT !.since = @ + 1]
    BY <1>10 DEF Tick
  <2> QED
    BY <1>3, <1>4, <2>1, <2>2, CountsStay, SameCountAlike DEF Stays, Present
<1>11. ASSUME sessions' = sessions, NEW x \in Id PROVE Alike(x)
  BY <1>3, <1>11, SameCountAlike
<1>12. \A x \in Id : Alike(x)
  BY <1>5, <1>6, <1>7, <1>8, <1>9, <1>10, <1>11
<1> QED
  BY <1>1, <1>2, <1>3, <1>12, AlikeKeeps

\* A crossed create is the same create.
LEMMA CrossedRecords ==
    ASSUME NEW open \in [Id -> Opening \union {Absent}], NEW x \in Id
    PROVE  Crossed(open)[x] # Absent =>
               /\ open[x] # Absent
               /\ Crossed(open)[x].parent = open[x].parent
               /\ Crossed(open)[x].origin = open[x].origin
<1>1. open[x] # Absent => open[x] \in Opening
  OBVIOUS
<1> QED
  BY <1>1 DEF Crossed, Opening

\* A chain into whose root a parent has come is not whole.
LEMMA JoinedRecords ==
    ASSUME NEW r \in Id, NEW p \in Id \union {Absent}, HasRecord(r, p, r)',
           r \notin Joined(sessions', opening')
    PROVE  ~Present(p)'
<1>1. /\ sessions'[r] # Absent /\ sessions'[r].origin = r =>
            ~(sessions'[r].parent \in Id /\ sessions'[sessions'[r].parent] # Absent)
      /\ opening'[r] # Absent /\ opening'[r].origin = r =>
            ~(opening'[r].parent \in Id /\ sessions'[opening'[r].parent] # Absent)
  BY DEF Joined
<1> QED
  BY <1>1 DEF HasRecord, Present

LEMMA CutRecords ==
    ASSUME NEW ids \in SUBSET Id, NEW r \in Id \ Cut(ids), NEW y \in ids,
           Present(y), sessions[y].origin = r
    PROVE  Family(r) = {}
  BY DEF Cut

LEMMA RegisterChain ==
    ASSUME PoolTypeOK, ChainInv, NEW id \in Id, Register(id)
    PROVE  ChainInv'
<1>1. PICK o : o = opening[id]
  OBVIOUS
<1>2. o \in Opening /\ o # Absent
  BY <1>1 DEF Register, PoolTypeOK
<1>3. PoolTypeOK' /\ \A x \in Id : x # id => sessions'[x] = sessions[x]
  BY RegisterKeeps
<1>4. sessions'[id] = NewSession(o)
  BY <1>1 DEF Register, PoolTypeOK
<1>5. NewSession(o).parent = o.parent /\ NewSession(o).origin = o.origin
  BY DEF NewSession
<1>6. PICK open : open = [opening EXCEPT ![id] = Absent]
  OBVIOUS
<1>7. /\ open \in [Id -> Opening \union {Absent}] /\ opening' = Crossed(open)
      /\ \A x \in Id : open[x] # Absent => open[x] = opening[x]
  BY <1>6 DEF Register, PoolTypeOK
<1>8. ASSUME NEW x \in Id, NEW r \in Id, NEW p \in Id \union {Absent}, HasRecord(x, p, r)'
      PROVE  HasRecord(x, p, r)
  <2>1. CASE opening'[x] # Absent /\ opening'[x].parent = p /\ opening'[x].origin = r
    BY <1>7, <2>1, CrossedRecords DEF HasRecord
  <2>2. CASE Present(x)' /\ sessions'[x].parent = p /\ sessions'[x].origin = r
    <3>1. CASE x = id
      BY <1>1, <1>2, <1>4, <1>5, <2>2, <3>1 DEF HasRecord
    <3>2. CASE x # id
      BY <1>3, <2>2, <3>2 DEF HasRecord, Present
    <3> QED
      BY <3>1, <3>2
  <2> QED
    BY <1>8, <2>1, <2>2 DEF HasRecord
<1>9. broken' = broken \union Cut({id}) \union Joined(sessions', opening')
  BY DEF Register
<1>10. ASSUME NEW x \in Id \ {id} PROVE Alike(x)
  BY <1>3, <1>10, SameCountAlike
<1>11. ASSUME NEW r \in Id \ broken'
       PROVE  /\ \A y \in {id} : Present(y) /\ sessions[y].origin = r => Family(r) = {}
              /\ \A p \in Id \union {Absent} : HasRecord(r, p, r)' => ~Present(p)'
  <2>1. r \in Id \ Cut({id}) /\ r \notin Joined(sessions', opening')
    BY <1>9
  <2>2. {id} \in SUBSET Id
    OBVIOUS
  <2> QED
    BY <2>1, <2>2, CutRecords, JoinedRecords
<1>12. Changes({id})
  BY <1>8, <1>9, <1>10, <1>11 DEF Changes
<1>13. {id} \in SUBSET Id
  OBVIOUS
<1> QED
  BY <1>3, <1>12, <1>13, ChangesKeep

LEMMA RestoreChain ==
    ASSUME PoolTypeOK, ChainInv, NEW ids \in SUBSET Id, NEW snaps \in [Id -> Record \union {Absent}],
           \A x \in ids : snaps[x] # Absent /\ ~Present(x), restore(ids, snaps)
    PROVE  ChainInv'
<1>1. PoolTypeOK' /\ \A x \in Id \ ids : sessions'[x] = sessions[x]
  BY RestoreKeeps
<1>2. \A x \in ids : sessions'[x].origin = x
  BY DEF restore, Restored
<1>3. ASSUME NEW x \in Id, opening'[x] # Absent
      PROVE  /\ opening[x] # Absent
             /\ opening'[x].parent = opening[x].parent /\ opening'[x].origin = opening[x].origin
  <2>1. opening' = opening \/ opening' = Crossed(opening)
    BY DEF restore
  <2> QED
    BY <1>3, <2>1, CrossedRecords DEF PoolTypeOK
<1>4. ASSUME NEW x \in Id, NEW r \in Id, NEW p \in Id \union {Absent}, HasRecord(x, p, r)', x # r
      PROVE  HasRecord(x, p, r)
  BY <1>1, <1>2, <1>3, <1>4 DEF HasRecord, Present
<1>5. broken' = broken \union Joined(sessions', opening')
  BY DEF restore
<1>6. ASSUME NEW x \in Id \ ids PROVE Alike(x)
  BY <1>1, <1>6, SameCountAlike
<1>7. ASSUME NEW r \in Id \ broken'
       PROVE  /\ \A y \in ids : Present(y) /\ sessions[y].origin = r => Family(r) = {}
              /\ \A p \in Id \union {Absent} : HasRecord(r, p, r)' => ~Present(p)'
  BY <1>5, JoinedRecords
<1>8. Changes(ids)
  BY <1>4, <1>5, <1>6, <1>7 DEF Changes
<1> QED
  BY <1>1, <1>8, ChangesKeep

LEMMA RemoveDeadChain ==
    ASSUME PoolTypeOK, ChainInv, removeDead
    PROVE  ChainInv'
<1>1. PICK G : G = Removable
  OBVIOUS
<1>2. G \in SUBSET Id
  BY <1>1 DEF Removable, Dead
<1>3. /\ \A x \in Id : sessions'[x] = IF x \in G THEN Absent ELSE sessions[x]
      /\ opening' = opening /\ broken' = broken \union Cut(G)
  BY <1>1 DEF removeDead
<1>4. PoolTypeOK'
  BY RemoveDeadKeeps
<1>5. ASSUME NEW x \in Id, NEW r \in Id, NEW p \in Id \union {Absent}, HasRecord(x, p, r)'
      PROVE  HasRecord(x, p, r)
  BY <1>3, <1>5 DEF HasRecord, Present
<1>6. ASSUME NEW x \in Id \ G PROVE Alike(x)
  BY <1>3, <1>4, <1>6, SameCountAlike
<1>7. Linked
  BY DEF ChainInv
<1>8. ASSUME NEW r \in Id \ broken'
       PROVE  /\ \A y \in G : Present(y) /\ sessions[y].origin = r => Family(r) = {}
              /\ \A p \in Id \union {Absent} : HasRecord(r, p, r)' => ~Present(p)'
  <2>1. r \in Id \ Cut(G) /\ r \in Id \ broken
    BY <1>3
  <2>2. ASSUME NEW p \in Id \union {Absent}, HasRecord(r, p, r)' PROVE ~Present(p)'
    <3>1. ~Present(p)
      BY <1>5, <1>7, <2>1, <2>2, RecordLinks
    <3> QED
      BY <1>3, <3>1 DEF Present
  <2> QED
    BY <1>2, <2>1, <2>2, CutRecords
<1>9. Changes(G)
  BY <1>3, <1>5, <1>6, <1>8 DEF Changes
<1> QED
  BY <1>2, <1>4, <1>9, ChangesKeep

\* An empty pool has no chains.
PoolEmpty == \A x \in Id : sessions[x] = Absent /\ opening[x] = Absent

LEMMA EmptyChain == PoolEmpty => ChainInv
<1> SUFFICES ASSUME PoolEmpty PROVE ChainInv
  OBVIOUS
<1>1. \A x : ~Present(x)
  BY DEF Present, PoolEmpty
<1>2. \A r \in Id : Family(r) = {}
  BY <1>1 DEF Family, PoolEmpty
<1>3. Linked /\ RootThere /\ ChainBudget
  BY <1>1, <1>2 DEF Linked, RootThere, ChainBudget, PoolEmpty
<1>4. Grounded
  BY <1>1 DEF Grounded, Below
<1> QED
  BY <1>3, <1>4 DEF ChainInv

-----------------------------------------------------------------------------
(* Chains in the pool of the bridge. *)

LEMMA InitChain == Init => ChainInv
  BY EmptyChain DEF Init, PoolInit, PoolEmpty

\* Each action is a step of the pool, or leaves it alone.
LEMMA ChainStep == ASSUME TypeOK, ChainInv, [Next]_vars PROVE ChainInv'
<1>1. PoolTypeOK
  BY DEF TypeOK
<1>2. ASSUME NEW id \in Id, NEW p \in Parents \union {Absent}, Spawn(id, p) PROVE ChainInv'
  <2>1. /\ Begin(id, p, id \notin Persistent) /\ (id \notin Persistent) \in BOOLEAN
        /\ p \in Id \union {Absent} /\ id # p /\ ~Present(id)
    BY <1>2, RecoveryAssumption DEF Spawn, Present
  <2> QED
    BY <1>1, <2>1, BeginChain
<1>3. ASSUME NEW id \in Id, Resume(id) PROVE ChainInv'
  <2>1. Begin(id, Absent, TRUE)
    BY <1>3 DEF Resume
  <2> QED
    BY <1>1, <2>1, BeginChain
<1>4. ASSUME NEW id \in Id, SpawnFails(id) \/ PromptRequest(id) PROVE ChainInv'
  <2>1. OpenFails(id) \/ Prompt(id)
    BY <1>4 DEF SpawnFails, PromptRequest
  <2> QED
    BY <1>1, <2>1, QuietChain
<1>5. ASSUME NEW id \in Id, Spawned(id) PROVE ChainInv'
  <2>1. Register(id)
    BY <1>5 DEF Spawned
  <2> QED
    BY <1>1, <2>1, RegisterChain
<1>6. ASSUME NEW id \in Id, NEW told \in BOOLEAN, PromptEnds(id, told) PROVE ChainInv'
  <2>1. RunEnds(id)
    BY <1>6 DEF PromptEnds
  <2> QED
    BY <1>1, <2>1, QuietChain
<1>7. ASSUME NEW ids \in SUBSET Id, \A x \in ids : Present(x), Kill(ids) PROVE ChainInv'
  BY <1>1, <1>7, QuietChain
<1>8. ASSUME NEW id \in Id, KillRequest(id) PROVE ChainInv'
  <2>1. {id} \in SUBSET Id /\ (\A x \in {id} : Present(x)) /\ Kill({id})
    BY <1>8 DEF KillRequest
  <2> QED
    BY <1>7, <2>1
<1>9. ASSUME Stop PROVE ChainInv'
  <2>1. Live \in SUBSET Id /\ (\A x \in Live : Present(x)) /\ Kill(Live)
    BY <1>9 DEF Stop, Live
  <2> QED
    BY <1>7, <2>1
<1>10. ASSUME StaleCheck \/ Passes PROVE ChainInv'
  <2>1. checkStale \/ Tick
    BY <1>10 DEF StaleCheck, Passes
  <2> QED
    BY <1>1, <2>1, QuietChain
<1>11. ASSUME Cleanup PROVE ChainInv'
  <2>1. removeDead
    BY <1>11 DEF Cleanup
  <2> QED
    BY <1>1, <2>1, RemoveDeadChain
<1>12. ASSUME UNCHANGED <<sessions, opening, broken>> PROVE ChainInv'
  <2>1. PoolTypeOK'
    BY <1>1, <1>12 DEF PoolTypeOK
  <2>2. \A x \in Id : Alike(x)
    BY <1>1, <1>12, <2>1, SameCountAlike
  <2> QED
    BY <1>1, <1>12, <2>1, <2>2, AlikeKeeps
<1>13. ASSUME \/ flushToDisk \/ FlushFails \/ Boot \/ UNCHANGED vars
              \/ \E id \in Id : Checkpoint(id)
       PROVE  ChainInv'
  <2>1. UNCHANGED <<sessions, opening, broken>>
    BY <1>13 DEF flushToDisk, FlushFails, Boot, Checkpoint, vars, poolVars
  <2> QED
    BY <1>12, <2>1
<1>14. ASSUME Exit \/ Crash PROVE ChainInv'
  <2>1. PoolEmpty'
    BY <1>14 DEF Exit, Crash, Gone, lose, PoolEmpty
  <2> QED
    BY <2>1, EmptyChain, PTL
<1>15. ASSUME NEW found \in SUBSET Id, Recover(found) PROVE ChainInv'
  <2>1. PICK ids : ids = {id \in Recoverable(found) : ~Present(id)}
    OBVIOUS
  <2>2. /\ ids \in SUBSET Id /\ \A x \in ids : index[x] # Absent /\ ~Present(x)
        /\ index \in [Id -> Record \union {Absent}] /\ restore(ids, index)
    BY <1>15, <2>1 DEF Recoverable, Recover, TypeOK
  <2> QED
    BY <1>1, <2>2, RestoreChain
<1> QED
  BY <1>2, <1>3, <1>4, <1>5, <1>6, <1>8, <1>9, <1>10, <1>11, <1>13, <1>14, <1>15 DEF Next

\* Every reachable state of the pool and the bridge around it is well typed: counts
\* of agents stay within the budget, queues of prompts within their bound.
THEOREM TypeCorrect == Spec => []TypeOK
<1>1. IInv => TypeOK
  BY DEF IInv
<1> QED
  BY <1>1, Invariance, PTL

\* While a chain is whole, its root's budget has counted every agent that the chain
\* has or will have: however creates begin, fail, register and are killed, and
\* whatever the bridge removes, resumes, loses and restores.
THEOREM BudgetCountsTheChain == Spec => []ChainBudget
<1>1. TypeOK /\ ChainInv /\ [Next]_vars => ChainInv'
  BY ChainStep
<1>2. ChainInv => ChainBudget
  BY DEF ChainInv
<1> QED
  BY InitChain, <1>1, <1>2, TypeCorrect, PTL DEF Spec

\* A create takes the pool beyond its capacity only if another session came in behind
\* its check.
THEOREM CapIsKept == Spec => CapUnlessCrossed
<1> DEFINE Capped ==
      \A id \in Id : opening[id] # Absent /\ ~opening[id].crossed /\ opening'[id] = Absent
          => Cardinality(Live') <= MaxSessions \/ Live' = Live
<1>1. ASSUME TypeOK, RoomIsLeft, [Next]_vars PROVE [Capped]_poolVars
  <2>1. PoolTypeOK /\ TypeOK /\ RoomIsLeft
    BY <1>1 DEF TypeOK
  <2>2. ASSUME opening' = opening PROVE Capped
    BY <2>2
  <2>3. ASSUME sessions' = sessions PROVE Capped
    <3>1. Live' = Live
      BY <2>3 DEF Live, Present
    <3> QED
      BY <3>1
  <2>4. ASSUME NEW id \in Id, NEW p \in Id \union {Absent}, NEW w \in BOOLEAN, Begin(id, p, w)
        PROVE Capped
    BY <2>1, <2>4, BeginKeeps
  <2>5. ASSUME NEW id \in Id, Register(id) PROVE Capped
    <3>1. /\ \A x \in Id : x # id => sessions'[x] = sessions[x]
          /\ \A x \in Id : x # id /\ opening[x] # Absent => opening'[x] # Absent
      BY <2>1, <2>5, RegisterKeeps
    <3> SUFFICES ASSUME opening[id] # Absent, ~opening[id].crossed
                 PROVE  Cardinality(Live') <= MaxSessions
      BY <3>1
    <3>2. Cardinality(Live) < MaxSessions
      BY <2>1 DEF RoomIsLeft, HasRoom
    <3>3. Live' \in SUBSET (Live \union {id})
      BY <3>1 DEF Live, Present
    <3>4. Cardinality(Live') <= Cardinality(Live) + 1
      BY <3>3, LiveIsSubset, OneMore
    <3>5. Cardinality(Live') \in Nat /\ Cardinality(Live) \in Nat
      BY LiveIsSubset, SmallerSet
    <3> QED
      BY <3>2, <3>4, <3>5, PoolAssumption
  <2>6. ASSUME Gone PROVE Capped
    <3>1. Live' = {}
      BY <2>6 DEF Gone, lose, Live, Present
    <3>2. Cardinality(Live') <= MaxSessions
      BY <3>1, FS_EmptySet, PoolAssumption
    <3> QED
      BY <3>2
  <2>7. ASSUME NEW found \in SUBSET Id, Recover(found) PROVE Capped
    <3>1. \A x \in Id : opening[x] # Absent => opening'[x] # Absent
      <4> DEFINE ids == {id \in Recoverable(found) : ~Present(id)}
      <4>1. opening' = IF ids = {} THEN opening ELSE Crossed(opening)
        BY <2>7 DEF Recover, restore
      <4> QED
        BY <2>1, <4>1, CrossedFacts DEF PoolTypeOK
    <3> QED
      BY <3>1
  <2>8. ASSUME NEW id \in Id, NEW p \in Parents \union {Absent}, Spawn(id, p) PROVE Capped
    <3>1. p \in Id \union {Absent} /\ (id \notin Persistent) \in BOOLEAN
      BY RecoveryAssumption
    <3> QED
      BY <2>4, <2>8, <3>1 DEF Spawn
  <2>9. ASSUME NEW id \in Id, Resume(id) PROVE Capped
    BY <2>4, <2>9 DEF Resume
  <2>10. ASSUME NEW id \in Id, SpawnFails(id) PROVE Capped
    BY <2>3, <2>10 DEF SpawnFails, OpenFails
  <2>11. ASSUME NEW id \in Id, Spawned(id) PROVE Capped
    BY <2>5, <2>11 DEF Spawned
  <2>12. ASSUME \/ \E id \in Id : PromptRequest(id) \/ \E told \in BOOLEAN : PromptEnds(id, told)
                \/ \E id \in Id : KillRequest(id) \/ Checkpoint(id)
                \/ StaleCheck \/ Cleanup \/ Passes \/ flushToDisk \/ FlushFails \/ Stop \/ Boot
         PROVE  Capped
    <3>1. opening' = opening
      BY <2>12 DEF PromptRequest, Prompt, PromptEnds, RunEnds, KillRequest, Kill, Checkpoint,
         StaleCheck, checkStale, Cleanup, removeDead, Passes, Tick, flushToDisk, FlushFails,
         Stop, Boot, poolVars
    <3> QED
      BY <2>2, <3>1
  <2>13. ASSUME UNCHANGED vars PROVE [Capped]_poolVars
    BY <2>13 DEF vars, poolVars
  <2> HIDE DEF Capped
  <2> QED
    BY <1>1, <2>6, <2>7, <2>8, <2>9, <2>10, <2>11, <2>12, <2>13 DEF Next, Exit, Crash
<1>2. IInv => TypeOK /\ RoomIsLeft
  BY DEF IInv
<1> QED
  BY <1>1, <1>2, Invariance, PTL DEF Spec, CapUnlessCrossed

=============================================================================
