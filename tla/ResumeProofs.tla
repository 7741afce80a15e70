---------------------------- MODULE ResumeProofs ----------------------------
(***************************************************************************)
(* Proofs about the resume protocol over the file-system store, for any    *)
(* number of processes, checkpoints and deaths, any lease and any clamp of *)
(* the heartbeat.                                                          *)
(***************************************************************************)
EXTENDS ResumeProtocol, SequenceTheorems, TLAPS

USE RingSizeAssumption, StoreAssumption, BeatAssumption

\* What a process that is over its turn, or dead, has left.
LEMMA Types ==
    ASSUME TypeOK, NEW p \in Process
    PROVE  /\ handle[p] \in Nat /\ handle[p] <= made /\ made \in Nat
           /\ told[p] \in Nat /\ told[p] <= Ttl
           /\ timer[p].token \in Nat /\ timer[p].wait \in Nat
           /\ timer[p] \in [token : 0 .. made, wait : Nat]
  BY DEF TypeOK, StoreTypeOK

LEMMA LeaseTypes ==
    ASSUME TypeOK, snapshot # Absent
    PROVE  /\ snapshot \in Snapshot
           /\ snapshot.latest \in Nat
           /\ Unleased \in Snapshot /\ Unleased.lease = NoLease /\ Unleased.latest = snapshot.latest
           /\ snapshot.lease # NoLease => snapshot.lease \in Lease
  BY DEF TypeOK, StoreTypeOK, Snapshot, Unleased

LEMMA Alone ==
    ASSUME LeaseInv, NEW p \in Process, NEW q \in Process,
           HoldsLease(handle[p]), HoldsLease(handle[q])
    PROVE  p = q
  BY DEF LeaseInv, HandlesMatch

\* Who holds the lease works with a token of its own.
LEMMA HolderWorks ==
    ASSUME LeaseInv, NEW p \in Process, HoldsLease(handle[p])
    PROVE  handle[p] # 0 /\ phase[p] # "idle"
  BY Types DEF LeaseInv, HandlesMatch, HoldsLease, LeaseSound

\* Nobody has been told of a lease that is not there, ran out, or is a dead one's.
LEMMA NobodyTold ==
    ASSUME LeaseInv, snapshot # Absent => (snapshot.lease # NoLease => Stale(snapshot.lease))
    PROVE  \A p \in Process : told[p] = 0
<1> SUFFICES ASSUME NEW p \in Process PROVE told[p] = 0
  OBVIOUS
<1>1. told[p] > 0 => /\ HoldsLease(handle[p]) /\ snapshot.lease.left = told[p]
                     /\ handle[p] \notin dead
  BY DEF LeaseInv, ToldIsTrue, HandlesMatch
<1>2. ~ (told[p] > 0)
  BY <1>1 DEF HoldsLease, Stale, leaseExpired
<1> QED
  BY <1>2, Types DEF LeaseInv

\* The heartbeat comes at least three times in a lease.
LEMMA IntervalBound ==
    Interval \in Nat /\ (MinBeat <= Ttl \div 3 => Interval <= Ttl \div 3 /\ Interval < Ttl)
<1>1. Ttl \div 3 \in Nat /\ 3 * (Ttl \div 3) <= Ttl
  OBVIOUS
<1> QED
  BY <1>1 DEF Interval, Clamped

-----------------------------------------------------------------------------
(* Each step keeps the invariant of the lease. *)

LEMMA InitLease == Init => IInv
<1> SUFFICES ASSUME Init PROVE IInv
  OBVIOUS
<1> USE DEF Init, StoreInit
<1>1. 0 \in 0 .. made /\ 0 \in 0 .. Ttl /\ 0 \in 0 .. MaxCrashes /\ 0 \in 0 .. MaxTokens
  OBVIOUS
<1>2. TypeOK
  BY <1>1 DEF TypeOK, StoreTypeOK, NoTimer
<1>3. LeaseSound /\ HandlesMatch /\ ToldIsTrue
  BY DEF LeaseSound, HandlesMatch, ToldIsTrue, NoTimer, HoldsLease
<1>4. BeatInTime /\ RingInOrder /\ LatestInRing
  BY DEF BeatInTime, RingInOrder, LatestInRing
<1> QED
  BY <1>2, <1>3, <1>4 DEF LeaseInv, IInv

\* A session is created: there is no lease, so nobody was told of one.
LEMMA CreatedLease ==
    ASSUME LeaseInv, snapshot = Absent, snapshot' = NewSnapshot, ring' \in Seq(Checkpoint),
           made' = made, dead' = dead, phase' = phase, handle' = handle, told' = told,
           timer' = timer, late' = late, crashes' = crashes
    PROVE  LeaseInv'
<1>1. NewSnapshot \in Snapshot /\ NewSnapshot.lease = NoLease
  BY DEF NewSnapshot, Snapshot
<1>2. \A p \in Process : told[p] = 0
  BY NobodyTold
<1> QED
  BY <1>1, <1>2 DEF LeaseInv, TypeOK, StoreTypeOK, LeaseSound, HandlesMatch, ToldIsTrue, HoldsLease

LEMMA AcquireLease ==
    ASSUME LeaseInv, NEW p \in Process, Acquire(p)
    PROVE  LeaseInv'
<1> DEFINE lease == [worker |-> p, token |-> made + 1, left |-> Ttl]
<1>1. /\ made < MaxTokens /\ snapshot # Absent /\ made' = made + 1
      /\ snapshot' = [snapshot EXCEPT !.lease = lease]
      /\ ring' = ring /\ dead' = dead
  BY DEF Acquire, acquire
<1>2. /\ phase[p] = "idle" /\ phase' = [phase EXCEPT ![p] = "setup"]
      /\ handle' = [handle EXCEPT ![p] = made + 1] /\ told' = [told EXCEPT ![p] = Ttl]
      /\ UNCHANGED <<timer, late, crashes>>
  BY DEF Acquire, Resumed
<1>3. made \in Nat /\ made + 1 \in 1 .. MaxTokens /\ made + 1 \in 0 .. made' /\ Ttl \in 0 .. Ttl
  <2>1. made \in 0 .. MaxTokens /\ MaxTokens \in Nat /\ Ttl \in Nat
    BY DEF LeaseInv, TypeOK, StoreTypeOK
  <2> QED
    BY <1>1, <2>1
<1>4. lease \in Lease /\ lease # NoLease
  BY <1>3 DEF Lease
<1>5. snapshot' \in Snapshot /\ snapshot'.lease = lease
  BY <1>1, <1>4, LeaseTypes DEF LeaseInv, Snapshot
<1>6. \A n : n \in 0 .. made => n \in 0 .. made' /\ n # made + 1
  BY <1>1, <1>3
<1>7. \A q \in Process : told[q] = 0
  BY <1>1, NobodyTold DEF Acquire, acquire
<1>8. TypeOK'
  <2>1. dead' \subseteq 1 .. made' /\ made' \in 0 .. MaxTokens
    <3>1. dead \subseteq 1 .. made /\ MaxTokens \in Nat
      BY <1>1, <1>3 DEF LeaseInv, TypeOK, StoreTypeOK
    <3>2. \A n \in 1 .. made : n \in 1 .. made'
      BY <1>1, <1>3
    <3>3. made' \in 0 .. MaxTokens
      BY <1>1, <1>3, <3>1
    <3> QED
      BY <1>1, <3>1, <3>2, <3>3
  <2>2. handle' \in [Process -> 0 .. made'] /\ told' \in [Process -> 0 .. Ttl]
    <3>1. handle \in [Process -> 0 .. made] /\ told \in [Process -> 0 .. Ttl]
      BY DEF LeaseInv, TypeOK
    <3>2. handle \in [Process -> 0 .. made']
      BY <1>6, <3>1
    <3>3. handle' \in [Process -> 0 .. made']
      BY <1>2, <1>3, <3>2
    <3>4. told' \in [Process -> 0 .. Ttl]
      BY <1>2, <1>3, <3>1
    <3> QED
      BY <3>3, <3>4
  <2>3. timer' \in [Process -> [token : 0 .. made', wait : Nat]]
    <3>1. [token : 0 .. made, wait : Nat] \subseteq [token : 0 .. made', wait : Nat]
      BY <1>6
    <3> QED
      BY <1>2, <3>1 DEF LeaseInv, TypeOK
  <2> QED
    BY <1>1, <1>2, <1>5, <2>1, <2>2, <2>3 DEF LeaseInv, TypeOK, StoreTypeOK
<1>9. LeaseSound'
  BY <1>1, <1>3, <1>5 DEF LeaseSound
<1>10. \A q \in Process : q # p => ~ HoldsLease(handle[q])'
  BY <1>2, <1>5, <1>6, Types DEF LeaseInv, TypeOK, HoldsLease
<1>11. made + 1 \notin dead'
  BY <1>1, <1>3 DEF LeaseInv, TypeOK, StoreTypeOK
<1>12. HandlesMatch'
  BY <1>2, <1>3, <1>5, <1>10, <1>11 DEF LeaseInv, HandlesMatch, TypeOK
<1>13. ToldIsTrue'
  <2>1. snapshot' # Absent
    BY <1>5
  <2>2. handle'[p] = made + 1 /\ told'[p] = Ttl /\ \A q \in Process : q # p => told'[q] = 0
    BY <1>2, <1>7 DEF LeaseInv, TypeOK
  <2> QED
    BY <1>4, <1>5, <2>1, <2>2 DEF ToldIsTrue, HoldsLease
<1> QED
  BY <1>8, <1>9, <1>12, <1>13 DEF LeaseInv

LEMMA RefetchLease ==
    ASSUME LeaseInv, NEW p \in Process, Refetch(p)
    PROVE  LeaseInv'
<1> DEFINE t == snapshot.lease.token
           left == snapshot.lease.left
<1>1. /\ snapshot # Absent /\ snapshot.lease # NoLease /\ snapshot.lease.worker = p
      /\ left # 0 /\ t \notin dead /\ UNCHANGED storeVars
  BY DEF Refetch, refetch, Stale, leaseExpired
<1>2. /\ phase[p] = "idle" /\ phase' = [phase EXCEPT ![p] = "setup"]
      /\ handle' = [handle EXCEPT ![p] = t] /\ told' = [told EXCEPT ![p] = left]
      /\ UNCHANGED <<timer, late, crashes>>
  BY DEF Refetch, Resumed
<1>3. t \in 1 .. made /\ left \in 0 .. Ttl /\ t \in 0 .. made /\ t # 0
  BY <1>1 DEF LeaseInv, LeaseSound
<1> HIDE DEF t, left
<1>4. TypeOK'
  BY <1>1, <1>2, <1>3 DEF LeaseInv, TypeOK, StoreTypeOK, storeVars
<1>5. LeaseSound'
  BY <1>1 DEF LeaseInv, LeaseSound, storeVars
<1>6. HandlesMatch'
  BY <1>1, <1>2, <1>3 DEF LeaseInv, HandlesMatch, TypeOK, HoldsLease, storeVars, t, left
<1>7. ToldIsTrue'
  BY <1>1, <1>2, <1>3 DEF LeaseInv, ToldIsTrue, TypeOK, HoldsLease, storeVars, t, left
<1> QED
  BY <1>4, <1>5, <1>6, <1>7 DEF LeaseInv

\* The lease as the file has it.
LeaseNow == IF snapshot = Absent THEN NoLease ELSE snapshot.lease

LEMMA HoldsByLease ==
    \A t : HoldsLease(t) <=> LeaseNow # NoLease /\ LeaseNow.token = t
  BY DEF HoldsLease, LeaseNow

\* p has nothing to do with the session any more.
Idles(p) ==
    /\ phase' = [phase EXCEPT ![p] = "idle"]
    /\ handle' = [handle EXCEPT ![p] = 0]
    /\ told' = [told EXCEPT ![p] = 0]
    /\ timer' = [timer EXCEPT ![p] = NoTimer] \/ (timer' = timer /\ phase[p] # "turn")

\* If the lease goes, it was p's, and only p's lease is now a dead one's.
LeaseGoesBy(p) ==
    /\ made' = made
    /\ LeaseNow' = LeaseNow \/ (LeaseNow' = NoLease /\ HoldsLease(handle[p]))
    /\ dead' = dead \/ dead' = dead \cup PidOf(p)

LEMMA GivesUp ==
    ASSUME LeaseInv, TypeOK', NEW p \in Process, Idles(p), LeaseGoesBy(p)
    PROVE  LeaseInv'
<1> USE DEF Idles, LeaseGoesBy
<1>1. LeaseSound'
  BY DEF LeaseInv, LeaseSound, LeaseNow
<1>2. \A q \in Process : HoldsLease(handle[q])' => q # p /\ HoldsLease(handle[q]) /\ LeaseNow' = LeaseNow
  <2> SUFFICES ASSUME NEW q \in Process, HoldsLease(handle[q])'
               PROVE  q # p /\ HoldsLease(handle[q]) /\ LeaseNow' = LeaseNow
    OBVIOUS
  <2>1. LeaseNow' # NoLease /\ LeaseNow'.token = handle'[q]
    BY DEF HoldsLease, LeaseNow
  <2>2. LeaseNow' = LeaseNow /\ LeaseNow.token \in 1 .. made
    BY <2>1 DEF LeaseInv, LeaseSound, LeaseNow
  <2>3. q # p /\ handle'[q] = handle[q]
    BY <2>1, <2>2 DEF LeaseInv, TypeOK
  <2> QED
    BY <2>1, <2>2, <2>3, HoldsByLease
<1>3. HandlesMatch'
  <2> SUFFICES ASSUME NEW q \in Process
               PROVE  /\ handle'[q] = 0 <=> phase'[q] = "idle"
                      /\ phase'[q] = "idle" => told'[q] = 0
                      /\ timer'[q].token # 0 => phase'[q] = "turn" /\ timer'[q].token = handle'[q]
                      /\ HoldsLease(handle[q])' =>
                           /\ snapshot'.lease.worker = q /\ snapshot'.lease.left = told'[q]
                           /\ handle'[q] \notin dead'
    BY DEF HandlesMatch, HoldsLease
  <2>1. ASSUME HoldsLease(handle[q])'
        PROVE  /\ snapshot'.lease.worker = q /\ snapshot'.lease.left = told'[q]
               /\ handle'[q] \notin dead'
    <3>1. q # p /\ HoldsLease(handle[q]) /\ LeaseNow' = LeaseNow
      BY <1>2, <2>1
    <3>2. /\ snapshot.lease.worker = q /\ snapshot.lease.left = told[q] /\ handle[q] \notin dead
      BY <3>1 DEF LeaseInv, HandlesMatch
    <3>3. told'[q] = told[q] /\ handle'[q] = handle[q]
      BY <3>1 DEF LeaseInv, TypeOK
    <3>4. snapshot'.lease = snapshot.lease
      BY <2>1, <3>1 DEF HoldsLease, LeaseNow
    <3> QED
      BY <3>1, <3>2, <3>3, <3>4 DEF PidOf
  <2>2. CASE q = p
    BY <2>1, <2>2 DEF LeaseInv, HandlesMatch, TypeOK, NoTimer
  <2>3. CASE q # p
    BY <2>1, <2>3 DEF LeaseInv, HandlesMatch, TypeOK
  <2> QED
    BY <2>2, <2>3
<1>4. ToldIsTrue'
  <2> SUFFICES ASSUME NEW q \in Process, told'[q] > 0 PROVE HoldsLease(handle[q])'
    BY DEF ToldIsTrue, HoldsLease
  <2>1. q # p /\ told'[q] = told[q] /\ handle'[q] = handle[q]
    BY DEF LeaseInv, TypeOK
  <2>2. HoldsLease(handle[q]) /\ snapshot.lease.left = told[q] /\ snapshot.lease.worker = q
    BY <2>1 DEF LeaseInv, ToldIsTrue, HandlesMatch
  <2>3. ~ HoldsLease(handle[p])
    BY <2>1, <2>2, Alone
  <2>4. LeaseNow' = LeaseNow
    BY <2>3
  <2> QED
    BY <2>1, <2>2, <2>4 DEF HoldsLease, LeaseNow
<1> QED
  BY <1>1, <1>3, <1>4 DEF LeaseInv

\* Nothing happens to the lease, unless it had run out and is cleared.
LEMMA LeaseStays ==
    ASSUME LeaseInv, TypeOK', made' = made, dead' = dead,
           handle' = handle, told' = told,
           \A q \in Process : /\ phase'[q] = "idle" <=> phase[q] = "idle"
                              /\ timer'[q].token # 0 =>
                                     phase'[q] = "turn" /\ timer'[q].token = handle[q],
           LeaseNow' = LeaseNow \/ (LeaseNow' = NoLease /\ leaseExpired(LeaseNow))
    PROVE  LeaseInv'
<1>1. LeaseSound'
  BY DEF LeaseInv, LeaseSound, LeaseNow
<1>2. \A q \in Process : HoldsLease(handle[q])' => HoldsLease(handle[q]) /\ LeaseNow' = LeaseNow
  BY DEF HoldsLease, LeaseNow
<1>3. HandlesMatch'
  BY <1>2 DEF LeaseInv, HandlesMatch, HoldsLease, LeaseNow
<1>4. ToldIsTrue'
  <2> SUFFICES ASSUME NEW q \in Process, told[q] > 0 PROVE HoldsLease(handle[q])'
    BY DEF ToldIsTrue, HoldsLease
  <2>1. HoldsLease(handle[q]) /\ snapshot.lease.left = told[q]
    BY DEF LeaseInv, ToldIsTrue, HandlesMatch
  <2>2. LeaseNow' = LeaseNow
    BY <2>1 DEF leaseExpired, LeaseNow, HoldsLease
  <2> QED
    BY <2>1, <2>2 DEF HoldsLease, LeaseNow
<1> QED
  BY <1>1, <1>3, <1>4 DEF LeaseInv

LEMMA SetupFailsLease ==
    ASSUME LeaseInv, NEW p \in Process, SetupFails(p)
    PROVE  LeaseInv'
<1>1. 0 \in 0 .. made /\ 0 \in 0 .. Ttl
  BY DEF LeaseInv, TypeOK, StoreTypeOK
<1>2. TypeOK'
  BY <1>1 DEF SetupFails, LeaseInv, TypeOK, StoreTypeOK
<1> QED
  BY <1>2, GivesUp DEF SetupFails, LeaseNow, Idles, LeaseGoesBy

LEMMA SetupDoneLease ==
    ASSUME LeaseInv, NEW p \in Process, SetupDone(p)
    PROVE  LeaseInv'
<1>1. TimerFor(handle[p]) \in [token : 0 .. made, wait : Nat] /\ TimerFor(handle[p]).token = handle[p]
  BY IntervalBound DEF TimerFor, LeaseInv, TypeOK
<1>2. TypeOK'
  BY <1>1 DEF SetupDone, LeaseInv, TypeOK, StoreTypeOK
<1>3. \A q \in Process : /\ phase'[q] = "idle" <=> phase[q] = "idle"
                         /\ timer'[q].token # 0 =>
                                phase'[q] = "turn" /\ timer'[q].token = handle[q]
  BY <1>1 DEF SetupDone, LeaseInv, TypeOK, HandlesMatch
<1> QED
  BY <1>2, <1>3, LeaseStays DEF SetupDone, LeaseNow

LEMMA BeatLease ==
    ASSUME LeaseInv, NEW p \in Process, Beat(p)
    PROVE  LeaseInv'
<1> DEFINE t == timer[p].token
<1>1. /\ t # 0 /\ t = handle[p] /\ phase[p] = "turn"
      /\ Renewed(t, Ttl) /\ UNCHANGED <<ring, made, dead, phase, handle, late, crashes>>
      /\ timer' = [timer EXCEPT ![p] = TimerFor(@.token)]
  BY DEF Beat, renewLease, LeaseInv, HandlesMatch
<1>2. TimerFor(t) \in [token : 0 .. made, wait : Nat] /\ TimerFor(t).token = t
  BY <1>1, IntervalBound DEF TimerFor, LeaseInv, TypeOK
<1>3. /\ timer' \in [Process -> [token : 0 .. made, wait : Nat]]
      /\ \A q \in Process : timer'[q].token = timer[q].token
  <2>1. timer' = [timer EXCEPT ![p] = TimerFor(t)]
    BY <1>1
  <2> QED
    BY <2>1, <1>2 DEF LeaseInv, TypeOK
<1>4. CASE HoldsLease(t) /\ ~ leaseExpired(snapshot.lease)
  <2>1. /\ snapshot # Absent /\ snapshot.lease # NoLease /\ snapshot.lease.token = t
        /\ snapshot.lease.left # 0 /\ snapshot.lease.worker = p
    BY <1>1, <1>4 DEF HoldsLease, leaseExpired, LeaseInv, HandlesMatch
  <2>2. told' = [told EXCEPT ![p] = Ttl] /\ snapshot' = [snapshot EXCEPT !.lease.left = Ttl]
    BY <1>1, <1>4 DEF Beat, Renewed
  <2>3. PICK l : l = [snapshot.lease EXCEPT !.left = Ttl]
    OBVIOUS
  <2>4. l \in Lease /\ l # NoLease /\ l.token = t /\ l.left = Ttl /\ l.worker = p
    BY <2>1, <2>3, LeaseTypes DEF LeaseInv, Lease
  <2>5. snapshot' \in Snapshot /\ snapshot'.lease = l /\ snapshot'.latest = snapshot.latest
    <3>1. snapshot' = [snapshot EXCEPT !.lease = l]
      BY <2>2, <2>3
    <3> QED
      BY <2>1, <2>4, <3>1, LeaseTypes DEF LeaseInv, Snapshot
  <2>6. Ttl \in 0 .. Ttl
    OBVIOUS
  <2>7. TypeOK'
    BY <1>1, <1>3, <2>2, <2>5, <2>6 DEF LeaseInv, TypeOK, StoreTypeOK
  <2>8. LeaseSound'
    BY <1>1, <2>1, <2>4, <2>5, <2>6 DEF LeaseInv, LeaseSound
  <2>9. \A q \in Process : HoldsLease(handle[q])' => q = p
    BY <1>1, <2>1, <2>4, <2>5, Alone DEF HoldsLease
  <2>10. t \notin dead
    BY <1>1, <1>4 DEF LeaseInv, HandlesMatch
  <2>11. HandlesMatch'
    <3> SUFFICES ASSUME NEW q \in Process
                 PROVE  /\ handle[q] = 0 <=> phase[q] = "idle"
                        /\ phase[q] = "idle" => told'[q] = 0
                        /\ timer'[q].token # 0 => phase[q] = "turn" /\ timer'[q].token = handle[q]
                        /\ HoldsLease(handle[q])' =>
                             /\ snapshot'.lease.worker = q /\ snapshot'.lease.left = told'[q]
                             /\ handle[q] \notin dead
      BY <1>1 DEF HandlesMatch, HoldsLease
    <3>1. told'[p] = Ttl /\ (q # p => told'[q] = told[q])
      BY <2>2 DEF LeaseInv, TypeOK
    <3>2. HoldsLease(handle[q])' =>
             /\ snapshot'.lease.worker = q /\ snapshot'.lease.left = told'[q]
             /\ handle[q] \notin dead
      BY <1>1, <2>4, <2>5, <2>9, <2>10, <3>1
    <3> QED
      BY <1>1, <1>3, <3>1, <3>2 DEF LeaseInv, HandlesMatch
  <2>12. ToldIsTrue'
    <3> SUFFICES ASSUME NEW q \in Process, told'[q] > 0 PROVE HoldsLease(handle[q])'
      BY DEF ToldIsTrue, HoldsLease
    <3>1. q = p
      <4>1. q # p => told[q] > 0 /\ HoldsLease(handle[q])
        BY <2>2 DEF LeaseInv, ToldIsTrue, TypeOK
      <4> QED
        BY <1>1, <1>4, <4>1, Alone
    <3> QED
      BY <1>1, <2>4, <2>5, <3>1 DEF HoldsLease
  <2> QED
    BY <2>7, <2>8, <2>11, <2>12 DEF LeaseInv
<1>5. CASE ~ (HoldsLease(t) /\ ~ leaseExpired(snapshot.lease))
  <2>1. told' = told
    BY <1>5 DEF Beat
  <2>2. snapshot' = snapshot \/ (snapshot' = Unleased /\ snapshot # Absent
                                  /\ snapshot.lease # NoLease /\ leaseExpired(snapshot.lease))
    BY <1>1, <1>5 DEF Renewed, HoldsLease
  <2>3. TypeOK'
    BY <1>1, <1>3, <2>1, <2>2, LeaseTypes DEF LeaseInv, TypeOK, StoreTypeOK
  <2>4. LeaseNow' = LeaseNow \/ (LeaseNow' = NoLease /\ leaseExpired(LeaseNow))
    BY <2>2, LeaseTypes DEF LeaseInv, LeaseNow
  <2> QED
    BY <1>1, <1>3, <2>1, <2>3, <2>4, LeaseStays DEF LeaseInv, HandlesMatch
<1> QED
  BY <1>4, <1>5

\* A ring that a checkpoint of a well-typed turn goes to.
LEMMA TrimmedRing ==
    ASSUME NEW checkpoints \in Seq(Checkpoint)
    PROVE  Trimmed(checkpoints) \in Seq(Checkpoint)
<1>1. CASE Len(checkpoints) > RingSize
  <2>1. /\ Len(checkpoints) \in Nat
        /\ Len(checkpoints) - RingSize + 1 \in 1 .. Len(checkpoints) + 1
        /\ Len(checkpoints) \in Len(checkpoints) - RingSize .. Len(checkpoints)
    BY <1>1, LenProperties
  <2> QED
    BY <1>1, <2>1, SubSeqProperties DEF Trimmed
<1> QED
  BY <1>1 DEF Trimmed

LEMMA WritesRingTypes ==
    ASSUME TypeOK, NEW t \in Nat, WritesRing(t)
    PROVE  /\ NextSequence \in Nat \ {0} /\ ring' \in Seq(Checkpoint)
           /\ NextSequence = snapshot.latest + 1
           /\ HoldsLease(t) /\ ~ leaseExpired(snapshot.lease)
           /\ snapshot # Absent
<1>1. snapshot # Absent /\ NextSequence = snapshot.latest + 1 /\ HoldsLease(t)
      /\ ~ leaseExpired(snapshot.lease)
  BY DEF WritesRing, Accepts, HoldsLease
<1>2. NextSequence \in Nat \ {0}
  BY <1>1, LeaseTypes
<1> DEFINE c == [sequence |-> NextSequence, by |-> t]
<1>3. c \in Checkpoint /\ ring \in Seq(Checkpoint)
  BY <1>2 DEF Checkpoint, TypeOK, StoreTypeOK
<1> HIDE DEF c
<1>4. Append(ring, c) \in Seq(Checkpoint)
  BY <1>3, AppendProperties
<1>5. ring' = Trimmed(Append(ring, c))
  BY DEF WritesRing, c
<1> QED
  BY <1>1, <1>2, <1>4, <1>5, TrimmedRing

LEMMA AppendLease ==
    ASSUME LeaseInv, NEW p \in Process, AddCheckpoint(p)
    PROVE  LeaseInv'
<1>1. handle[p] \in Nat /\ UNCHANGED workerVars
  BY Types DEF AddCheckpoint, LeaseInv
<1>2. CASE appendCheckpoint(handle[p])
  <2>1. /\ WritesRing(handle[p]) /\ made' = made /\ dead' = dead
        /\ snapshot' = [snapshot EXCEPT !.latest = NextSequence]
    BY <1>2 DEF appendCheckpoint
  <2>2. ring' \in Seq(Checkpoint) /\ NextSequence \in Nat /\ snapshot # Absent
    BY <1>1, <2>1, WritesRingTypes DEF LeaseInv
  <2>3. snapshot' \in Snapshot /\ snapshot'.lease = snapshot.lease
    BY <2>1, <2>2, LeaseTypes DEF LeaseInv, Snapshot
  <2>4. TypeOK'
    BY <1>1, <2>1, <2>2, <2>3 DEF LeaseInv, TypeOK, StoreTypeOK, workerVars
  <2>5. LeaseNow' = LeaseNow
    BY <2>2, <2>3 DEF LeaseNow
  <2> QED
    BY <1>1, <2>1, <2>4, <2>5, LeaseStays DEF workerVars, LeaseInv, HandlesMatch
<1>3. CASE appendRefused(handle[p])
  <2>1. snapshot' = snapshot \/ (snapshot' = Unleased /\ snapshot # Absent
                                  /\ snapshot.lease # NoLease /\ leaseExpired(snapshot.lease))
    BY <1>3 DEF appendRefused, HoldsLease
  <2>2. TypeOK'
    BY <1>1, <1>3, <2>1, LeaseTypes DEF appendRefused, LeaseInv, TypeOK, StoreTypeOK, workerVars
  <2>3. LeaseNow' = LeaseNow \/ (LeaseNow' = NoLease /\ leaseExpired(LeaseNow))
    BY <2>1, LeaseTypes DEF LeaseInv, LeaseNow
  <2> QED
    BY <1>1, <1>3, <2>2, <2>3, LeaseStays DEF workerVars, LeaseInv, HandlesMatch, appendRefused
<1> QED
  BY <1>2, <1>3 DEF AddCheckpoint

\* Stopped and Dies, with what a store call makes of the files.
LEMMA IdleTypes ==
    ASSUME TypeOK, NEW p \in Process, StoreTypeOK', made' = made,
           phase' = [phase EXCEPT ![p] = "idle"], handle' = [handle EXCEPT ![p] = 0],
           told' = [told EXCEPT ![p] = 0], timer' = [timer EXCEPT ![p] = NoTimer],
           late' = [late EXCEPT ![p] = FALSE],
           crashes' \in 0 .. MaxCrashes
    PROVE  TypeOK'
<1>1. 0 \in 0 .. made /\ 0 \in 0 .. Ttl
  BY DEF TypeOK, StoreTypeOK
<1>2. NoTimer \in [token : 0 .. made, wait : Nat]
  BY <1>1 DEF NoTimer
<1> QED
  BY <1>1, <1>2 DEF TypeOK

LEMMA StopsLease ==
    ASSUME LeaseInv, NEW p \in Process, FencedEnd, Release(p) \/ Finalize(p) \/ Destroy(p)
    PROVE  LeaseInv'
<1>1. Stopped(p) /\ UNCHANGED crashes
  BY DEF Release, Finalize, Destroy
<1>2. /\ made' = made /\ dead' = dead /\ StoreTypeOK'
      /\ LeaseNow' = LeaseNow \/ (LeaseNow' = NoLease /\ HoldsLease(handle[p]))
  <2>1. CASE Release(p)
    <3>1. /\ UNCHANGED <<ring, made, dead>>
          /\ snapshot' = snapshot \/ (HoldsLease(handle[p]) /\ snapshot' = Unleased)
      BY <2>1 DEF Release, releaseLease
    <3> QED
      BY <3>1, LeaseTypes DEF LeaseInv, TypeOK, StoreTypeOK, LeaseNow, HoldsLease
  <2>2. CASE Finalize(p)
    <3>1. /\ UNCHANGED <<ring, made, dead>> /\ HoldsLease(handle[p]) /\ snapshot # Absent
          /\ snapshot' = [Unleased EXCEPT !.status = "completed"]
      BY <2>2 DEF Finalize, finalize, MayEnd
    <3>2. snapshot' \in Snapshot /\ snapshot'.lease = NoLease
      BY <3>1, LeaseTypes DEF LeaseInv, Snapshot
    <3> QED
      BY <3>1, <3>2 DEF LeaseInv, TypeOK, StoreTypeOK, LeaseNow
  <2>3. CASE Destroy(p)
    <3>1. /\ UNCHANGED <<made, dead>> /\ HoldsLease(handle[p])
          /\ snapshot' \in {Absent, snapshot} /\ ring' \in {<<>>, ring}
      BY <2>3 DEF Destroy, destroy, MayEnd
    <3>2. <<>> \in Seq(Checkpoint)
      OBVIOUS
    <3>3. StoreTypeOK'
      BY <3>1, <3>2 DEF LeaseInv, TypeOK, StoreTypeOK
    <3> QED
      BY <3>1, <3>3 DEF LeaseNow
  <2> QED
    BY <2>1, <2>2, <2>3
<1>3. TypeOK'
  BY <1>1, <1>2, IdleTypes DEF Stopped, LeaseInv, TypeOK
<1>4. Idles(p)
  BY <1>1 DEF Stopped, Idles
<1>5. LeaseGoesBy(p)
  BY <1>2 DEF LeaseGoesBy
<1> QED
  BY <1>3, <1>4, <1>5, GivesUp

LEMMA DiesLease ==
    ASSUME LeaseInv, NEW p \in Process, FencedEnd,
           Crash(p) \/ \E what \in {"create", "append", "destroy"} : CutShort(p, what)
    PROVE  LeaseInv'
<1>1. /\ Dies(p) /\ dead' = dead \cup PidOf(p)
  BY DEF Crash, CutShort, LeaseInv, TypeOK
<1>2. PidOf(p) \subseteq 1 .. made
  BY DEF PidOf, LeaseInv, LeaseSound
<1>3. crashes' \in 0 .. MaxCrashes
  BY <1>1 DEF Dies, LeaseInv, TypeOK
<1>4. /\ made' = made /\ snapshot' \in Snapshot \cup {Absent} /\ ring' \in Seq(Checkpoint)
      /\ LeaseNow' = LeaseNow \/ (LeaseNow' = NoLease /\ HoldsLease(handle[p]))
  <2>1. CASE Crash(p)
    BY <2>1 DEF Crash, LeaseInv, TypeOK, StoreTypeOK, LeaseNow
  <2>2. ASSUME CutShort(p, "append") PROVE <1>4
    <3>1. WritesRing(handle[p]) /\ UNCHANGED <<snapshot, made>>
      BY <2>2 DEF CutShort, DiesAppending
    <3> QED
      BY <3>1, Types, WritesRingTypes DEF LeaseInv, TypeOK, StoreTypeOK, LeaseNow
  <2>3. ASSUME CutShort(p, "destroy") PROVE <1>4
    BY <2>3 DEF CutShort, DiesDestroying, MayEnd, LeaseInv, TypeOK, StoreTypeOK, LeaseNow
  <2>4. ASSUME CutShort(p, "create") PROVE <1>4
    <3>1. NewSnapshot \in Snapshot /\ NewSnapshot.lease = NoLease
      BY DEF NewSnapshot, Snapshot
    <3> QED
      BY <2>4, <3>1 DEF CutShort, DiesCreating, LeaseInv, TypeOK, StoreTypeOK, LeaseNow
  <2> QED
    BY <2>1, <2>2, <2>3, <2>4
<1>5. StoreTypeOK'
  BY <1>1, <1>2, <1>4 DEF StoreTypeOK, LeaseInv, TypeOK
<1>6. TypeOK'
  BY <1>1, <1>3, <1>4, <1>5, IdleTypes DEF Dies, LeaseInv
<1>7. Idles(p)
  BY <1>1 DEF Dies, Idles
<1>8. LeaseGoesBy(p)
  BY <1>1, <1>4 DEF LeaseGoesBy
<1> QED
  BY <1>6, <1>7, <1>8, GivesUp

LEMMA TickLease ==
    ASSUME LeaseInv, Tick
    PROVE  LeaseInv'
<1>1. UNCHANGED <<ring, made, dead, phase, handle, late, crashes>>
  BY DEF Tick
<1>2. \A n \in Nat : Less(n) \in Nat /\ Less(n) <= n
  BY DEF Less
<1>3. /\ told' \in [Process -> 0 .. Ttl] /\ \A p \in Process : told'[p] = Less(told[p])
  <2>1. \A p \in Process : told'[p] = Less(told[p]) /\ Less(told[p]) \in 0 .. Ttl
    BY <1>2, Types DEF Tick, LeaseInv
  <2> QED
    BY <2>1 DEF Tick
<1>4. /\ timer' \in [Process -> [token : 0 .. made, wait : Nat]]
      /\ \A p \in Process : timer'[p].token = timer[p].token
  <2>1. \A p \in Process : /\ timer'[p] \in [token : 0 .. made, wait : Nat]
                           /\ timer'[p].token = timer[p].token
    <3> TAKE p \in Process
    <3>1. timer'[p] = [timer[p] EXCEPT !.wait = Less(@)]
      BY DEF Tick
    <3>2. Less(timer[p].wait) \in Nat
      BY <1>2, Types DEF LeaseInv
    <3> QED
      BY <3>1, <3>2, Types DEF LeaseInv
  <2> QED
    BY <2>1 DEF Tick
<1>5. CASE snapshot # Absent /\ snapshot.lease # NoLease
  <2>1. PICK l : l = [snapshot.lease EXCEPT !.left = Less(@)]
    OBVIOUS
  <2>2. snapshot.lease \in Lease /\ snapshot.lease.left \in 0 .. Ttl
    BY <1>5, LeaseTypes DEF LeaseInv, LeaseSound
  <2>3. l = [snapshot.lease EXCEPT !.left = Less(snapshot.lease.left)]
    BY <2>1, <2>2 DEF Lease
  <2>4. /\ l \in Lease /\ l # NoLease /\ l.left = Less(snapshot.lease.left) /\ l.left \in 0 .. Ttl
        /\ l.token = snapshot.lease.token /\ l.worker = snapshot.lease.worker
    <3>1. Less(snapshot.lease.left) \in 0 .. Ttl /\ Less(snapshot.lease.left) \in Nat
      BY <1>2, <2>2
    <3> QED
      BY <2>2, <2>3, <3>1 DEF Lease
  <2>5. snapshot' = [snapshot EXCEPT !.lease = l]
    BY <1>5, <2>1 DEF Tick
  <2>6. snapshot' \in Snapshot /\ snapshot'.lease = l
    BY <1>5, <2>4, <2>5, LeaseTypes DEF LeaseInv, Snapshot
  <2>7. TypeOK'
    BY <1>1, <1>3, <1>4, <2>6 DEF LeaseInv, TypeOK, StoreTypeOK
  <2>8. LeaseSound'
    BY <1>1, <1>5, <2>4, <2>6 DEF LeaseInv, LeaseSound
  <2>9. \A p \in Process : HoldsLease(handle[p])' <=> HoldsLease(handle[p])
    BY <1>1, <1>5, <2>4, <2>6 DEF HoldsLease
  <2>10. \A p \in Process : told[p] = 0 => told'[p] = 0
    BY <1>3 DEF Less
  <2>11. HandlesMatch'
    <3> SUFFICES ASSUME NEW p \in Process
                 PROVE  /\ handle[p] = 0 <=> phase[p] = "idle"
                        /\ phase[p] = "idle" => told'[p] = 0
                        /\ timer'[p].token # 0 => phase[p] = "turn" /\ timer'[p].token = handle[p]
                        /\ HoldsLease(handle[p])' =>
                             /\ snapshot'.lease.worker = p /\ snapshot'.lease.left = told'[p]
                             /\ handle[p] \notin dead
      BY <1>1 DEF HandlesMatch, HoldsLease
    <3> QED
      BY <1>3, <1>4, <2>4, <2>6, <2>9, <2>10 DEF LeaseInv, HandlesMatch
  <2>12. ToldIsTrue'
    <3> SUFFICES ASSUME NEW p \in Process, told'[p] > 0 PROVE HoldsLease(handle[p])'
      BY DEF ToldIsTrue, HoldsLease
    <3>1. told[p] > 0
      BY <1>3, Types DEF Less, LeaseInv
    <3> QED
      BY <2>9, <3>1 DEF LeaseInv, ToldIsTrue
  <2> QED
    BY <2>7, <2>8, <2>11, <2>12 DEF LeaseInv
<1>6. CASE ~ (snapshot # Absent /\ snapshot.lease # NoLease)
  <2>1. snapshot' = snapshot
    BY <1>6 DEF Tick
  <2>2. \A p \in Process : told[p] = 0
    BY <1>6, NobodyTold
  <2>3. told' = told
    BY <1>3, <2>2 DEF Less, LeaseInv, TypeOK
  <2>4. TypeOK'
    BY <1>1, <1>3, <1>4, <2>1 DEF LeaseInv, TypeOK, StoreTypeOK
  <2> QED
    BY <1>1, <1>4, <2>1, <2>3, <2>4, LeaseStays DEF LeaseNow, LeaseInv, HandlesMatch
<1> QED
  BY <1>5, <1>6

\* Tokens stay with those who have them: who was told of a lease keeps it, or is told
\* otherwise.
LEMMA LeaseStep ==
    ASSUME FencedEnd, LeaseInv, [Next]_vars
    PROVE  LeaseInv'
<1>1. ASSUME NEW p \in Process, Create(p) PROVE LeaseInv'
  <2>1. <<>> \in Seq(Checkpoint)
    OBVIOUS
  <2> QED
    BY <1>1, <2>1, CreatedLease DEF Create, create, workerVars
<1>2. ASSUME UNCHANGED vars PROVE LeaseInv'
  BY <1>2 DEF vars, LeaseInv, TypeOK, StoreTypeOK, LeaseSound, HandlesMatch, ToldIsTrue, HoldsLease
<1> QED
  BY <1>1, <1>2, AcquireLease, RefetchLease, SetupFailsLease, SetupDoneLease, BeatLease,
     AppendLease, StopsLease, DiesLease, TickLease DEF Next

-----------------------------------------------------------------------------
(* The heartbeat comes in time. *)

LEMMA BeatStep ==
    ASSUME MinBeat <= Ttl \div 3, LeaseInv, BeatInTime, [Next]_vars
    PROVE  BeatInTime'
<1> DEFINE Timely(p) == (phase'[p] = "turn" /\ ~ late'[p]) =>
                            timer'[p].token = handle'[p] /\ told'[p] > timer'[p].wait
<1>1. Interval \in Nat /\ Interval <= Ttl \div 3 /\ Interval < Ttl
  BY IntervalBound
<1>2. ASSUME NEW p \in Process, phase'[p] = phase[p], late'[p] = late[p], timer'[p] = timer[p],
             handle'[p] = handle[p], told'[p] = told[p]
      PROVE  Timely(p)
  BY <1>2 DEF BeatInTime
<1>3. ASSUME NEW p \in Process, phase' = [phase EXCEPT ![p] = "setup"] \/ phase' = [phase EXCEPT ![p] = "idle"],
             \A q \in Process \ {p} : /\ late'[q] = late[q] /\ timer'[q] = timer[q]
                                      /\ handle'[q] = handle[q] /\ told'[q] = told[q]
      PROVE  \A q \in Process : Timely(q)
  BY <1>3 DEF BeatInTime, LeaseInv, TypeOK
<1>4. ASSUME NEW p \in Process, Acquire(p) \/ Refetch(p) PROVE \A q \in Process : Timely(q)
  <2>1. PICK t, left : Resumed(p, t, left)
    BY <1>4 DEF Acquire, Refetch
  <2> QED
    BY <2>1, <1>3 DEF Resumed, LeaseInv, TypeOK
<1>5. ASSUME NEW p \in Process, SetupFails(p) PROVE \A q \in Process : Timely(q)
  BY <1>5, <1>3 DEF SetupFails, LeaseInv, TypeOK
<1>6. ASSUME NEW p \in Process, Stopped(p) \/ Dies(p) PROVE \A q \in Process : Timely(q)
  BY <1>6, <1>3 DEF Stopped, Dies, LeaseInv, TypeOK
<1>7. ASSUME UNCHANGED workerVars PROVE \A q \in Process : Timely(q)
  BY <1>7, <1>2 DEF workerVars
<1>8. ASSUME NEW p \in Process, SetupDone(p) PROVE \A q \in Process : Timely(q)
  <2>1. ASSUME NEW q \in Process, q # p PROVE Timely(q)
    BY <1>8, <2>1, <1>2 DEF SetupDone, LeaseInv, TypeOK
  <2>2. /\ timer'[p] = TimerFor(handle[p]) /\ told'[p] = told[p] /\ handle'[p] = handle[p]
        /\ late'[p] = (3 * told[p] <= Ttl)
    BY <1>8 DEF SetupDone, LeaseInv, TypeOK
  <2>3. ~ (3 * told[p] <= Ttl) => told[p] > Interval
    <3>1. 3 * (Ttl \div 3) <= Ttl /\ Ttl \div 3 \in Nat /\ told[p] \in Nat
      BY Types DEF LeaseInv
    <3> QED
      BY <1>1, <3>1
  <2>4. ~ late'[p] => ~ (3 * told[p] <= Ttl)
    BY <2>2
  <2>5. timer'[p].token = handle[p] /\ timer'[p].wait = Interval
    BY <2>2 DEF TimerFor
  <2>6. Timely(p)
    BY <2>2, <2>3, <2>4, <2>5
  <2> QED
    BY <2>1, <2>6
<1>9. ASSUME NEW p \in Process, Beat(p) PROVE \A q \in Process : Timely(q)
  <2>1. ASSUME NEW q \in Process, q # p PROVE Timely(q)
    BY <1>9, <2>1, <1>2 DEF Beat, LeaseInv, TypeOK
  <2>2. /\ timer'[p] = TimerFor(timer[p].token) /\ phase[p] = "turn" /\ timer[p].token = handle[p]
        /\ UNCHANGED <<phase, handle, late>> /\ timer[p].wait = 0
    BY <1>9 DEF Beat, LeaseInv, TypeOK, HandlesMatch
  <2>3. ASSUME ~ late[p] PROVE told'[p] = Ttl
    <3>1. told[p] > 0
      BY <2>2, <2>3 DEF BeatInTime
    <3>2. HoldsLease(timer[p].token) /\ snapshot.lease.left = told[p]
      BY <2>2, <3>1 DEF LeaseInv, ToldIsTrue, HandlesMatch
    <3> QED
      BY <1>9, <3>1, <3>2 DEF Beat, leaseExpired, LeaseInv, TypeOK
  <2>4. timer'[p].token = handle[p] /\ timer'[p].wait = Interval
    BY <2>2 DEF TimerFor
  <2>5. Ttl > Interval
    BY <1>1
  <2>6. Timely(p)
    BY <2>2, <2>3, <2>4, <2>5
  <2> QED
    BY <2>1, <2>6
<1>10. ASSUME Tick PROVE \A q \in Process : Timely(q)
  <2> SUFFICES ASSUME NEW q \in Process, phase'[q] = "turn", ~ late'[q]
               PROVE  timer'[q].token = handle'[q] /\ told'[q] > timer'[q].wait
    OBVIOUS
  <2>1. /\ phase[q] = "turn" /\ ~ late[q] /\ handle'[q] = handle[q]
        /\ timer[q].token = handle[q] /\ told[q] > timer[q].wait
    BY <1>10 DEF Tick, BeatInTime
  <2>2. handle[q] # 0
    BY <2>1 DEF LeaseInv, HandlesMatch
  <2>3. timer[q].wait > 0
    BY <1>10, <2>1, <2>2 DEF Tick
  <2>4. told'[q] = Less(told[q]) /\ timer'[q] = [timer[q] EXCEPT !.wait = Less(@)]
    BY <1>10 DEF Tick
  <2>5. timer'[q].token = timer[q].token /\ timer'[q].wait = timer[q].wait - 1
    BY <2>3, <2>4, Types DEF Less, LeaseInv
  <2>6. told'[q] = told[q] - 1
    BY <2>1, <2>3, <2>4, Types DEF Less, LeaseInv
  <2> QED
    BY <2>1, <2>5, <2>6, Types DEF LeaseInv
<1>11. ASSUME NEW p \in Process, Create(p) \/ AddCheckpoint(p) PROVE UNCHANGED workerVars
  BY <1>11 DEF Create, AddCheckpoint
<1>12. ASSUME NEW p \in Process,
              \/ Release(p) \/ Finalize(p) \/ Destroy(p) \/ Crash(p)
              \/ \E what \in {"create", "append", "destroy"} : CutShort(p, what)
       PROVE  Stopped(p) \/ Dies(p)
  BY <1>12 DEF Release, Finalize, Destroy, Crash, CutShort
<1>13. UNCHANGED vars => UNCHANGED workerVars
  BY DEF vars, workerVars
<1> HIDE DEF Timely
<1>14. \A q \in Process : Timely(q)
  BY <1>4, <1>5, <1>6, <1>7, <1>8, <1>9, <1>10, <1>11, <1>12, <1>13 DEF Next
<1> QED
  BY <1>14 DEF BeatInTime, Timely

-----------------------------------------------------------------------------
(* What an append makes of the checkpoints in the file. *)

LEMMA RingAfter ==
    ASSUME TypeOK, NEW t \in Nat, WritesRing(t)
    PROVE  /\ Len(ring') \in Nat \ {0} /\ Len(ring) \in Nat
           /\ ring'[Len(ring')] = [sequence |-> NextSequence, by |-> t]
           /\ RingSize >= 2 /\ ring # <<>> => Len(ring') >= 2
           /\ \E k \in 0 .. Len(ring) :
                /\ Len(ring') = Len(ring) + 1 - k
                /\ \A i \in 1 .. Len(ring') - 1 : ring'[i] = ring[k + i]
<1>1. PICK c : c = [sequence |-> NextSequence, by |-> t]
  OBVIOUS
<1>2. c \in Checkpoint /\ ring \in Seq(Checkpoint)
  BY <1>1, WritesRingTypes DEF Checkpoint, TypeOK, StoreTypeOK
<1>3. PICK new : new = Append(ring, c)
  OBVIOUS
<1>4. PICK n : n = Len(ring)
  OBVIOUS
<1>5. n \in Nat /\ (n = 0 <=> ring = <<>>)
  BY <1>2, <1>4, LenProperties, EmptySeq
<1>6. /\ new \in Seq(Checkpoint) /\ Len(new) = n + 1 /\ new[n + 1] = c
      /\ \A i \in 1 .. n : new[i] = ring[i]
  BY <1>2, <1>3, <1>4, AppendProperties
<1>7. ring' = Trimmed(new)
  BY <1>1, <1>3 DEF WritesRing
<1>8. CASE n + 1 > RingSize
  <2>1. PICK k : k = n + 1 - RingSize
    OBVIOUS
  <2>2. k \in 1 .. n /\ k \in Nat /\ RingSize = n + 1 - k /\ RingSize \in 1 .. n
    BY <1>5, <1>8, <2>1
  <2>3. ring' = SubSeq(new, k + 1, n + 1)
    <3>1. Len(new) > RingSize /\ Len(new) - RingSize + 1 = k + 1
      BY <1>5, <1>6, <1>8, <2>1
    <3> QED
      BY <1>6, <1>7, <3>1 DEF Trimmed
  <2>4. k + 1 \in 1 .. n + 2 /\ n + 1 \in k .. n + 1 /\ n + 1 \in 0 .. n + 1
    BY <1>5, <2>2
  <2>5. /\ Len(ring') = RingSize
        /\ \A i \in 1 .. RingSize : ring'[i] = new[k + i]
    BY <1>5, <1>6, <2>2, <2>3, <2>4, SubSeqProperties
  <2>6. ring'[RingSize] = c
    BY <1>5, <1>6, <2>2, <2>5
  <2>7. \A i \in 1 .. RingSize - 1 : ring'[i] = ring[k + i]
    BY <1>5, <1>6, <2>2, <2>5
  <2> QED
    <3>1. k \in 0 .. n /\ Len(ring') = n + 1 - k /\ RingSize \in Nat \ {0}
      BY <1>5, <2>2, <2>5
    <3>2. \A i \in 1 .. Len(ring') - 1 : ring'[i] = ring[k + i]
      BY <2>5, <2>7
    <3>3. RingSize >= 2 => Len(ring') >= 2
      BY <2>5
    <3> QED
      BY <1>1, <1>4, <1>5, <2>5, <2>6, <3>1, <3>2, <3>3
<1>9. CASE ~ (n + 1 > RingSize)
  <2>1. ring' = new
    BY <1>6, <1>7, <1>9 DEF Trimmed
  <2>2. \A i \in 1 .. Len(ring') - 1 : ring'[i] = ring[0 + i]
    BY <1>5, <1>6, <2>1
  <2>3. 0 \in 0 .. n
    BY <1>5
  <2> QED
    BY <1>1, <1>4, <1>5, <1>6, <2>1, <2>2, <2>3
<1> QED
  BY <1>8, <1>9

LEMMA RingStaysInOrder ==
    ASSUME TypeOK, RingInOrder, NEW t \in Nat, WritesRing(t)
    PROVE  RingInOrder'
<1>1. PICK k \in 0 .. Len(ring) :
        /\ Len(ring') = Len(ring) + 1 - k
        /\ \A i \in 1 .. Len(ring') - 1 : ring'[i] = ring[k + i]
  BY RingAfter
<1>2. /\ Len(ring') \in Nat \ {0} /\ Len(ring) \in Nat
      /\ ring'[Len(ring')].sequence = NextSequence
  <2>1. /\ Len(ring') \in Nat \ {0} /\ Len(ring) \in Nat
        /\ ring'[Len(ring')] = [sequence |-> NextSequence, by |-> t]
    BY RingAfter
  <2> QED
    BY <2>1
<1>3. \A i \in 1 .. Len(ring) : ring[i].sequence \in Nat
  <2>1. \A i \in 1 .. Len(ring) : ring[i] \in Checkpoint
    BY DEF TypeOK, StoreTypeOK
  <2> QED
    BY <2>1 DEF Checkpoint
<1>4. \A i \in 1 .. Len(ring) : ring[i].sequence < NextSequence
  <2> TAKE i \in 1 .. Len(ring)
  <2>1. ring # <<>> /\ Len(ring) \in 1 .. Len(ring) /\ (i = Len(ring) \/ i < Len(ring))
    BY <1>2
  <2>2. NextSequence = ring[Len(ring)].sequence + 1
    BY <2>1 DEF NextSequence
  <2>3. i < Len(ring) => ring[i].sequence < ring[Len(ring)].sequence
    BY <2>1 DEF RingInOrder
  <2> QED
    BY <1>3, <2>1, <2>2, <2>3
<1>5. ASSUME NEW i \in 1 .. Len(ring'), NEW j \in 1 .. Len(ring'), i < j
      PROVE  ring'[i].sequence < ring'[j].sequence
  <2>1. i \in 1 .. Len(ring') - 1 /\ k + i \in 1 .. Len(ring) /\ ring'[i] = ring[k + i]
    BY <1>1, <1>2, <1>5
  <2>2. CASE j = Len(ring')
    BY <1>2, <1>4, <2>1, <2>2
  <2>3. CASE j # Len(ring')
    <3>1. j \in 1 .. Len(ring') - 1 /\ k + j \in 1 .. Len(ring) /\ ring'[j] = ring[k + j]
          /\ k + i < k + j
      BY <1>1, <1>2, <1>5, <2>3
    <3> QED
      BY <2>1, <3>1 DEF RingInOrder
  <2> QED
    BY <2>2, <2>3
<1> QED
  BY <1>5 DEF RingInOrder

\* The next sequence after an append.
LEMMA NextAfter ==
    ASSUME TypeOK, NEW t \in Nat, WritesRing(t)
    PROVE  NextSequence' = NextSequence + 1
<1>1. Len(ring') # 0 /\ ring'[Len(ring')].sequence = NextSequence
  <2>1. Len(ring') \in Nat \ {0} /\ ring'[Len(ring')] = [sequence |-> NextSequence, by |-> t]
    BY RingAfter
  <2> QED
    BY <2>1
<1>2. ring' # <<>>
  BY <1>1
<1> QED
  BY <1>1, <1>2 DEF NextSequence

-----------------------------------------------------------------------------
(* The files after each step. *)

\* The session lost one of its files, half-way through a create or a destroy.
HalfWay == HalfCreated \/ HalfDestroyed

\* A step keeps the order of the checkpoints and the acknowledged one among the last
\* two, and makes the files stray only half-way.
RingKept ==
    /\ RingInOrder'
    /\ RingSize >= 2 /\ LatestInRing => LatestInRing'
    /\ Strays' => (Strays \/ HalfWay)

\* A step that leaves the checkpoints alone.
LEMMA RingStays ==
    ASSUME RingInOrder, ring' = ring,
           snapshot' # Absent => snapshot # Absent /\ snapshot'.latest = snapshot.latest
    PROVE  RingKept
<1>1. RingInOrder'
  BY DEF RingInOrder
<1>2. NextSequence' = NextSequence
  BY DEF NextSequence
<1>3. Strays' => Strays
  BY <1>2 DEF Strays
<1>4. LatestInRing => LatestInRing'
  BY DEF LatestInRing
<1> QED
  BY <1>1, <1>3, <1>4 DEF RingKept

\* A step that leaves no checkpoint, of a session with none or of one that is removed.
LEMMA RingEmptied ==
    ASSUME ring' = <<>>,
           \/ snapshot' = Absent
           \/ snapshot' # Absent /\ snapshot'.latest = 0
           \/ snapshot' = snapshot
    PROVE  RingKept
<1>1. RingInOrder' /\ LatestInRing'
  BY DEF RingInOrder, LatestInRing
<1>2. NextSequence' = 1
  BY DEF NextSequence
<1>3. Strays' => snapshot' # Absent /\ snapshot'.latest # 0
  BY <1>2 DEF Strays
<1>4. snapshot' = snapshot /\ ring # <<>> => HalfWay
  BY DEF HalfWay, HalfDestroyed
<1>5. snapshot' = snapshot /\ ring = <<>> => (Strays' => Strays)
  BY <1>2 DEF Strays, NextSequence
<1> QED
  BY <1>1, <1>3, <1>4, <1>5 DEF RingKept

\* A checkpoint that is accepted comes right after the acknowledged one, which stays the
\* last but one.
LEMMA LastButOne ==
    ASSUME TypeOK, NEW t \in Nat, WritesRing(t), RingSize >= 2, snapshot.latest # 0
    PROVE  /\ Len(ring) \in 1 .. Len(ring) /\ ring[Len(ring)].sequence = snapshot.latest
           /\ \E i \in 1 .. Len(ring') : ring'[i] = ring[Len(ring)] /\ i + 1 >= Len(ring')
<1>1. PICK k \in 0 .. Len(ring) :
        /\ Len(ring') = Len(ring) + 1 - k
        /\ \A i \in 1 .. Len(ring') - 1 : ring'[i] = ring[k + i]
  BY RingAfter
<1>2. /\ Len(ring') \in Nat \ {0} /\ Len(ring) \in Nat
      /\ RingSize >= 2 /\ ring # <<>> => Len(ring') >= 2
  BY RingAfter
<1>3. NextSequence = snapshot.latest + 1 /\ snapshot.latest \in Nat
  BY WritesRingTypes, LeaseTypes
<1>4. ring # <<>>
  BY <1>3 DEF NextSequence
<1>5. Len(ring) \in 1 .. Len(ring)
  BY <1>2, <1>4, EmptySeq DEF TypeOK, StoreTypeOK
<1>6. ring[Len(ring)].sequence = snapshot.latest
  <2>1. ring[Len(ring)] \in Checkpoint
    BY <1>5 DEF TypeOK, StoreTypeOK
  <2>2. ring[Len(ring)].sequence \in Nat
    BY <2>1 DEF Checkpoint
  <2> QED
    BY <1>3, <1>4, <2>2 DEF NextSequence
<1>7. PICK i : i = Len(ring') - 1
  OBVIOUS
<1>8. i \in 1 .. Len(ring') - 1 /\ i \in 1 .. Len(ring') /\ k + i = Len(ring) /\ i + 1 >= Len(ring')
  BY <1>1, <1>2, <1>4, <1>7
<1>9. ring'[i] = ring[Len(ring)]
  BY <1>1, <1>8
<1> QED
  BY <1>5, <1>6, <1>8, <1>9

\* With an append the acknowledged checkpoint is the last of the ring; if the snapshot
\* is not written any more it is the last but one.
LEMMA LatestAfter ==
    ASSUME TypeOK, NEW t \in Nat, WritesRing(t)
    PROVE  /\ snapshot'.latest = NextSequence => LatestInRing'
           /\ RingSize >= 2 /\ snapshot'.latest = snapshot.latest => LatestInRing'
<1>1. /\ Len(ring') \in Nat \ {0}
      /\ ring'[Len(ring')] = [sequence |-> NextSequence, by |-> t]
  BY RingAfter
<1>2. ASSUME snapshot'.latest = NextSequence PROVE LatestInRing'
  <2>1. Len(ring') \in 1 .. Len(ring') /\ Len(ring') + 1 >= Len(ring')
    BY <1>1
  <2>2. ring'[Len(ring')].sequence = snapshot'.latest
    BY <1>1, <1>2
  <2> QED
    BY <2>1, <2>2 DEF LatestInRing
<1>3. ASSUME RingSize >= 2, snapshot'.latest = snapshot.latest PROVE LatestInRing'
  BY <1>3, LastButOne DEF LatestInRing
<1> QED
  BY <1>2, <1>3

LEMMA NewIsFresh == NewSnapshot # Absent /\ NewSnapshot.latest = 0
  BY DEF NewSnapshot, Snapshot

\* What a step does to the checkpoints in the file and the snapshot's latest.
LEMMA RingStep ==
    ASSUME TypeOK, RingInOrder, [Next]_vars
    PROVE  RingKept
<1>1. ASSUME ring' = ring,
             snapshot' # Absent => snapshot # Absent /\ snapshot'.latest = snapshot.latest
      PROVE  RingKept
  BY <1>1, RingStays
<1>2. ASSUME NEW p \in Process, Create(p) PROVE RingKept
  <2>1. ring' = <<>> /\ snapshot' = NewSnapshot
    BY <1>2 DEF Create, create
  <2> QED
    BY <2>1, NewIsFresh, RingEmptied
<1>3. ASSUME NEW p \in Process, Acquire(p) PROVE RingKept
  <2>1. /\ ring' = ring /\ snapshot # Absent
        /\ snapshot' = [snapshot EXCEPT !.lease = [worker |-> p, token |-> made + 1, left |-> Ttl]]
    BY <1>3 DEF Acquire, acquire, Resumed
  <2>2. snapshot'.latest = snapshot.latest
    BY <2>1, LeaseTypes DEF Snapshot
  <2> QED
    BY <1>1, <2>1, <2>2
<1>4. ASSUME NEW p \in Process, Refetch(p) \/ SetupFails(p) \/ SetupDone(p) PROVE RingKept
  <2>1. ring' = ring /\ snapshot' = snapshot
    BY <1>4 DEF Refetch, refetch, storeVars, Resumed, SetupFails, SetupDone
  <2> QED
    BY <1>1, <2>1
<1>5. ASSUME NEW p \in Process, Beat(p) PROVE RingKept
  <2>1. ring' = ring /\ Renewed(timer[p].token, Ttl)
    BY <1>5 DEF Beat, renewLease
  <2>2. PICK live : live = [snapshot EXCEPT !.lease.left = Ttl]
    OBVIOUS
  <2>3. snapshot' \in {snapshot, Unleased, live} /\ (snapshot' # snapshot => snapshot # Absent)
    BY <2>1, <2>2 DEF Renewed, HoldsLease
  <2>4. snapshot # Absent => live.latest = snapshot.latest /\ Unleased.latest = snapshot.latest
    BY <2>2, LeaseTypes DEF Snapshot
  <2>5. snapshot' # Absent => snapshot # Absent /\ snapshot'.latest = snapshot.latest
    BY <2>3, <2>4
  <2> QED
    BY <1>1, <2>1, <2>5
<1>6. ASSUME NEW p \in Process, AddCheckpoint(p) PROVE RingKept
  <2>1. handle[p] \in Nat
    BY <1>6, Types DEF AddCheckpoint, workerVars
  <2>2. CASE appendCheckpoint(handle[p])
    <3>1. WritesRing(handle[p]) /\ snapshot' = [snapshot EXCEPT !.latest = NextSequence]
      BY <2>2 DEF appendCheckpoint
    <3>2. snapshot # Absent /\ NextSequence \in Nat \ {0}
      BY <2>1, <3>1, WritesRingTypes
    <3>3. snapshot' # Absent /\ snapshot'.latest = NextSequence
      <4>1. snapshot' \in Snapshot /\ snapshot'.latest = NextSequence
        BY <3>1, <3>2, LeaseTypes DEF Snapshot
      <4> QED
        BY <4>1
    <3>4. NextSequence' = NextSequence + 1
      BY <2>1, <3>1, NextAfter
    <3>5. ~ Strays'
      BY <3>2, <3>3, <3>4 DEF Strays
    <3> QED
      BY <2>1, <3>1, <3>3, <3>5, LatestAfter, RingStaysInOrder DEF RingKept
  <2>3. CASE appendRefused(handle[p])
    <3>1. ring' = ring /\ (snapshot' = snapshot \/ (snapshot # Absent /\ snapshot' = Unleased))
      BY <2>3 DEF appendRefused, HoldsLease
    <3> QED
      BY <1>1, <2>1, <3>1, LeaseTypes
  <2> QED
    BY <1>6, <2>2, <2>3 DEF AddCheckpoint
<1>7. ASSUME NEW p \in Process, Release(p) \/ Finalize(p) PROVE RingKept
  <2>1. PICK done : done = [Unleased EXCEPT !.status = "completed"]
    OBVIOUS
  <2>2. /\ ring' = ring
        /\ snapshot' \in {snapshot, Unleased, done} /\ (snapshot' # snapshot => snapshot # Absent)
    BY <1>7, <2>1 DEF Release, releaseLease, Finalize, finalize, HoldsLease
  <2>3. snapshot # Absent => done.latest = snapshot.latest /\ Unleased.latest = snapshot.latest
    BY <2>1, LeaseTypes DEF Snapshot
  <2>4. snapshot' # Absent => snapshot # Absent /\ snapshot'.latest = snapshot.latest
    BY <2>2, <2>3
  <2> QED
    BY <1>1, <2>2, <2>4
<1>8. ASSUME NEW p \in Process, Destroy(p) PROVE RingKept
  <2>1. ring' \in {<<>>, ring} /\ snapshot' \in {Absent, snapshot}
    BY <1>8 DEF Destroy, destroy
  <2>2. CASE ring' = <<>>
    BY <2>1, <2>2, RingEmptied
  <2>3. CASE ring' = ring
    BY <1>1, <2>1, <2>3
  <2> QED
    BY <2>1, <2>2, <2>3
<1>9. ASSUME NEW p \in Process, Crash(p) PROVE RingKept
  BY <1>1, <1>9 DEF Crash
<1>10. ASSUME NEW p \in Process, CutShort(p, "append") PROVE RingKept
  <2>1. WritesRing(handle[p]) /\ snapshot' = snapshot /\ handle[p] \in Nat
    BY <1>10, Types DEF CutShort, DiesAppending
  <2>2. NextSequence = snapshot.latest + 1 /\ snapshot # Absent /\ snapshot.latest \in Nat
    BY <2>1, WritesRingTypes, LeaseTypes
  <2>3. NextSequence' = NextSequence + 1
    BY <2>1, NextAfter
  <2>4. ~ Strays'
    BY <2>1, <2>2, <2>3 DEF Strays
  <2>5. RingInOrder'
    BY <2>1, RingStaysInOrder
  <2>6. RingSize >= 2 => LatestInRing'
    BY <2>1, <2>2, LatestAfter
  <2> QED
    BY <2>4, <2>5, <2>6 DEF RingKept
<1>11. ASSUME NEW p \in Process, CutShort(p, "destroy") PROVE RingKept
  BY <1>11, RingStays DEF CutShort, DiesDestroying
<1>12. ASSUME NEW p \in Process, CutShort(p, "create") PROVE RingKept
  <2>1. ring' = ring /\ snapshot = Absent /\ snapshot' = NewSnapshot
    BY <1>12 DEF CutShort, DiesCreating
  <2>2. CASE ring = <<>>
    BY <2>1, <2>2, NewIsFresh, RingEmptied
  <2>3. CASE ring # <<>>
    <3>1. RingInOrder'
      BY <2>1 DEF RingInOrder
    <3>2. LatestInRing'
      BY <2>1, NewIsFresh DEF LatestInRing
    <3>3. HalfWay
      BY <2>1, <2>3, NewIsFresh DEF HalfWay, HalfCreated
    <3> QED
      BY <3>1, <3>2, <3>3 DEF RingKept
  <2> QED
    BY <2>2, <2>3
<1>13. ASSUME Tick PROVE RingKept
  <2>1. ring' = ring
        /\ (snapshot' = snapshot \/
             (snapshot # Absent /\ snapshot' = [snapshot EXCEPT !.lease.left = Less(snapshot.lease.left)]))
    BY <1>13 DEF Tick
  <2>2. snapshot # Absent => [snapshot EXCEPT !.lease.left = Less(snapshot.lease.left)].latest = snapshot.latest
    BY LeaseTypes DEF Snapshot
  <2> QED
    BY <1>1, <2>1, <2>2
<1>14. ASSUME UNCHANGED vars PROVE RingKept
  BY <1>1, <1>14 DEF vars
<1> QED
  BY <1>2, <1>3, <1>4, <1>5, <1>6, <1>7, <1>8, <1>9, <1>10, <1>11, <1>12, <1>13, <1>14 DEF Next

-----------------------------------------------------------------------------
(* The theorems. *)

LEMMA LeaseInvariance == FencedEnd => (Spec => []LeaseInv)
<1> SUFFICES ASSUME FencedEnd PROVE Spec => []LeaseInv
  OBVIOUS
<1>1. Init => LeaseInv
  BY InitLease DEF IInv
<1>2. LeaseInv /\ [Next]_vars => LeaseInv'
  BY LeaseStep
<1> QED
  BY <1>1, <1>2, PTL DEF Spec

\* Every reachable state is well typed, when only the holder ends a session.
THEOREM TypeCorrect == FencedEnd => (Spec => []TypeOK)
<1>1. LeaseInv => TypeOK
  BY DEF LeaseInv
<1> QED
  BY <1>1, LeaseInvariance, PTL

\* A turn that began in time owns its session to the end, however many processes
\* resume, fail, die and come back: the heartbeat of a third of the lease is enough.
THEOREM TurnsKeepTheirLease ==
    FencedEnd /\ MinBeat <= Ttl \div 3 => (Spec => []TurnKeepsLease)
<1> SUFFICES ASSUME FencedEnd, MinBeat <= Ttl \div 3 PROVE Spec => []TurnKeepsLease
  OBVIOUS
<1>1. Init => BeatInTime
  BY InitLease DEF IInv
<1>2. LeaseInv /\ BeatInTime /\ [Next]_vars => BeatInTime'
  BY BeatStep
<1>3. LeaseInv /\ BeatInTime => TurnKeepsLease
  <2> SUFFICES ASSUME LeaseInv, BeatInTime, NEW p \in Process, phase[p] = "turn", ~ late[p]
               PROVE  HoldsLease(handle[p]) /\ ~ leaseExpired(snapshot.lease)
    BY DEF TurnKeepsLease
  <2>1. told[p] > 0
    BY Types DEF BeatInTime, LeaseInv
  <2> QED
    BY <2>1 DEF LeaseInv, ToldIsTrue, HandlesMatch, leaseExpired
<1> QED
  BY <1>1, <1>2, <1>3, LeaseInvariance, PTL DEF Spec

\* What a resume hands out never falls behind the last acknowledged checkpoint, however
\* full the ring and whoever took the session over, unless a create or a destroy got
\* half-way through the session's two files.
THEOREM ResumeIsNeverOlder == FencedEnd => (Spec => NeverOlder)
<1> SUFFICES ASSUME FencedEnd PROVE Spec => NeverOlder
  OBVIOUS
<1>1. Init => RingInOrder
  BY InitLease DEF IInv
<1>2. LeaseInv /\ RingInOrder /\ [Next]_vars => RingKept
  BY RingStep DEF LeaseInv
<1>3. RingKept => RingInOrder' /\ (Strays' => (Strays \/ HalfCreated \/ HalfDestroyed))
  BY DEF RingKept, HalfWay
<1> QED
  BY <1>1, <1>2, <1>3, LeaseInvariance, PTL DEF Spec, NeverOlder

-----------------------------------------------------------------------------
(* The contract: what the steps do to the session as SessionLease sees it. *)

RefInv == LeaseInv /\ RingInOrder /\ LatestInRing

LEMMA AsStutter ==
    ASSUME Owner' = Owner, made' = made, Trusting' = Trusting, Newest' = Newest
    PROVE  UNCHANGED Contract!leaseVars
  BY DEF Contract!leaseVars

LEMMA AsConfirm ==
    ASSUME Owner # 0, Owner' = Owner, made' = made, Newest' = Newest,
           Trusting' = Trusting \cup {Owner}
    PROVE  Contract!LeaseNext
<1>1. Contract!Confirm("session")
  BY DEF Contract!Confirm
<1> QED
  BY <1>1 DEF Contract!LeaseNext

LEMMA AsLapse ==
    ASSUME Owner' = Owner, made' = made, Newest' = Newest, Trusting' \subseteq Trusting
    PROVE  Contract!LeaseNext
<1>1. Contract!Lapse
  BY DEF Contract!Lapse
<1> QED
  BY <1>1 DEF Contract!LeaseNext

LEMMA AsDisown ==
    ASSUME Owner' = 0, made' = made, Newest' = Newest, Trusting' = {}
    PROVE  Contract!LeaseNext
<1>1. Contract!Disown("session")
  BY DEF Contract!Disown
<1> QED
  BY <1>1 DEF Contract!LeaseNext

LEMMA AsForget ==
    ASSUME Owner' = 0, made' = made, Newest' = [sequence |-> 0, by |-> 0], Trusting' = {}
    PROVE  Contract!LeaseNext
<1>1. Contract!Forget("session")
  BY DEF Contract!Forget, Contract!NoCheckpoint
<1> QED
  BY <1>1 DEF Contract!LeaseNext

LEMMA AsLose ==
    ASSUME Owner' = Owner, made' = made, Newest' = [sequence |-> 0, by |-> 0], Trusting' = {}
    PROVE  Contract!LeaseNext
<1>1. Contract!Lose("session")
  BY DEF Contract!Lose, Contract!NoCheckpoint
<1> QED
  BY <1>1 DEF Contract!LeaseNext

LEMMA AsWrite ==
    ASSUME Owner # 0, Owner' = Owner, made' = made, Trusting' = Trusting,
           Newest' = [sequence |-> Newest.sequence + 1, by |-> Owner]
    PROVE  Contract!LeaseNext
<1>1. Contract!Write("session")
  BY DEF Contract!Write
<1> QED
  BY <1>1 DEF Contract!LeaseNext

LEMMA AsGrant ==
    ASSUME NEW t \in 1 .. MaxTokens, t > made, Owner' = t, made' = t, Newest' = Newest,
           Trusting = {}, Trusting' = {t}
    PROVE  Contract!LeaseNext
<1>1. Contract!Grant("session", t)
  BY DEF Contract!Grant
<1> QED
  BY <1>1 DEF Contract!LeaseNext

\* Whoever trusts is the owner.
LEMMA OnlyOwnerTrusts ==
    ASSUME LeaseInv
    PROVE  /\ Trusting \subseteq {Owner}
           /\ Trusting # {} => Owner # 0
           /\ \A p \in Process : HoldsLease(handle[p]) => Owner = handle[p] /\ Owner # 0
<1>1. \A p \in Process : HoldsLease(handle[p]) => Owner = handle[p] /\ Owner # 0
  BY HolderWorks DEF HoldsLease, Owner
<1> QED
  BY <1>1 DEF LeaseInv, ToldIsTrue, Trusting

LEMMA NobodyTrusts ==
    ASSUME LeaseInv, snapshot # Absent => (snapshot.lease # NoLease => Stale(snapshot.lease))
    PROVE  Trusting = {}
  BY NobodyTold DEF Trusting

LEMMA IdleTrusts ==
    ASSUME LeaseInv, NEW p \in Process, Idles(p)
    PROVE  Trusting' \subseteq Trusting /\ (HoldsLease(handle[p]) => Trusting' = {})
<1>1. \A q \in Process : told'[q] > 0 => q # p /\ told[q] > 0 /\ handle'[q] = handle[q]
  BY DEF Idles, LeaseInv, TypeOK
<1>2. Trusting' = {handle'[q] : q \in {q \in Process : told'[q] > 0}}
  BY DEF Trusting
<1>3. ASSUME HoldsLease(handle[p]) PROVE \A q \in Process : ~ (told'[q] > 0)
  BY <1>1, <1>3, Alone DEF LeaseInv, ToldIsTrue
<1> QED
  BY <1>1, <1>2, <1>3 DEF Trusting

\* The sequences in the file differ, so the acknowledged one is found.
LEMMA ChosenIs ==
    ASSUME NEW r \in Seq(Checkpoint),
           \A i, j \in 1 .. Len(r) : i < j => r[i].sequence < r[j].sequence,
           NEW i \in 1 .. Len(r)
    PROVE  r[CHOOSE j \in 1 .. Len(r) : r[j].sequence = r[i].sequence] = r[i]
<1>1. \A j \in 1 .. Len(r) : r[j].sequence \in Nat
  <2>1. \A j \in 1 .. Len(r) : r[j] \in Checkpoint
    OBVIOUS
  <2> QED
    BY <2>1 DEF Checkpoint
<1>2. PICK j \in 1 .. Len(r) : j = CHOOSE m \in 1 .. Len(r) : r[m].sequence = r[i].sequence
  OBVIOUS
<1>3. r[j].sequence = r[i].sequence
  BY <1>2
<1>4. ~ (i < j) /\ ~ (j < i)
  BY <1>1, <1>3
<1>5. i = j
  BY <1>4
<1> QED
  BY <1>2, <1>5

LEMMA NewestStays ==
    ASSUME ring' = ring, snapshot' # Absent /\ snapshot # Absent, snapshot'.latest = snapshot.latest
    PROVE  Newest' = Newest
  BY DEF Newest

\* A lease that ran out is cleared, or nothing happens to the lease, and nobody is told.
LEMMA ClearsOrNot ==
    ASSUME LeaseInv, ring' = ring, made' = made, handle' = handle, told' = told,
           snapshot' = snapshot \/ (snapshot' = Unleased /\ snapshot # Absent
                                     /\ snapshot.lease # NoLease /\ leaseExpired(snapshot.lease))
    PROVE  [Contract!LeaseNext]_Contract!leaseVars
<1>1. Trusting' = Trusting
  BY DEF Trusting
<1>2. CASE snapshot' = snapshot
  <2>1. Owner' = Owner /\ Newest' = Newest
    BY <1>2 DEF Owner, Newest
  <2> QED
    BY <1>1, <2>1, AsStutter
<1>3. CASE snapshot' = Unleased /\ snapshot # Absent /\ snapshot.lease # NoLease
           /\ leaseExpired(snapshot.lease)
  <2>1. Trusting = {}
    BY <1>3, NobodyTrusts DEF Stale
  <2>2. snapshot' # Absent /\ snapshot'.lease = NoLease /\ snapshot'.latest = snapshot.latest
    BY <1>3, LeaseTypes DEF LeaseInv
  <2>3. Owner' = 0 /\ Newest' = Newest
    BY <1>3, <2>2, NewestStays DEF Owner
  <2> QED
    BY <1>1, <2>1, <2>3, AsDisown
<1> QED
  BY <1>2, <1>3

LEMMA CreateRefines ==
    ASSUME LeaseInv, snapshot = Absent, snapshot' = NewSnapshot, made' = made,
           told' = told \/ \A p \in Process : told'[p] = 0
    PROVE  [Contract!LeaseNext]_Contract!leaseVars
<1>1. NewSnapshot # Absent /\ NewSnapshot.lease = NoLease /\ NewSnapshot.latest = 0
  BY DEF NewSnapshot, Snapshot
<1>2. Owner' = Owner /\ Newest' = Newest
  BY <1>1 DEF Owner, Newest
<1>3. \A p \in Process : told[p] = 0
  BY NobodyTold
<1>4. Trusting' = {} /\ Trusting = {}
  BY <1>3 DEF Trusting
<1> QED
  BY <1>2, <1>4, AsStutter

LEMMA AcquireRefines ==
    ASSUME LeaseInv, LeaseInv', NEW p \in Process, Acquire(p)
    PROVE  Contract!LeaseNext
<1>1. /\ snapshot # Absent /\ made' = made + 1 /\ made < MaxTokens /\ ring' = ring
      /\ snapshot' = [snapshot EXCEPT !.lease = [worker |-> p, token |-> made + 1, left |-> Ttl]]
      /\ snapshot.lease # NoLease => Stale(snapshot.lease)
  BY DEF Acquire, acquire
<1>2. /\ handle' = [handle EXCEPT ![p] = made + 1] /\ told' = [told EXCEPT ![p] = Ttl]
  BY DEF Acquire, Resumed
<1>3. made \in Nat /\ made + 1 \in 1 .. MaxTokens /\ made + 1 > made
  <2>1. made \in Nat
    BY DEF LeaseInv, TypeOK, StoreTypeOK
  <2> QED
    BY <1>1, <2>1
<1>4. \A q \in Process : told[q] = 0
  BY <1>1, NobodyTold
<1>5. Trusting = {}
  BY <1>4 DEF Trusting
<1>6. handle'[p] = made + 1 /\ told'[p] = Ttl /\ \A q \in Process : q # p => told'[q] = 0
  BY <1>2, <1>4 DEF LeaseInv, TypeOK
<1>7. \A q \in Process : told'[q] > 0 <=> q = p
  BY <1>6
<1>8. Trusting' = {made + 1}
  BY <1>6, <1>7 DEF Trusting
<1>9. HoldsLease(handle[p])'
  BY <1>7 DEF LeaseInv, ToldIsTrue, HoldsLease
<1>10. Owner' = made + 1
  BY <1>6, <1>9 DEF HoldsLease, Owner
<1>11. snapshot'.latest = snapshot.latest /\ snapshot' # Absent
  BY <1>1, <1>9, LeaseTypes DEF Snapshot, HoldsLease, LeaseInv
<1>12. Newest' = Newest
  BY <1>1, <1>11, NewestStays
<1> QED
  BY <1>1, <1>3, <1>5, <1>8, <1>10, <1>12, AsGrant

LEMMA RefetchRefines ==
    ASSUME LeaseInv, NEW p \in Process, Refetch(p)
    PROVE  Contract!LeaseNext
<1>1. /\ snapshot # Absent /\ snapshot.lease # NoLease /\ snapshot.lease.left # 0
      /\ UNCHANGED <<snapshot, ring, made, dead>>
  BY DEF Refetch, refetch, Stale, leaseExpired, storeVars
<1>2. /\ phase[p] = "idle" /\ handle' = [handle EXCEPT ![p] = snapshot.lease.token]
      /\ told' = [told EXCEPT ![p] = snapshot.lease.left]
  BY DEF Refetch, Resumed
<1>3. Owner = snapshot.lease.token /\ Owner # 0 /\ snapshot.lease.left > 0
  BY <1>1 DEF LeaseInv, LeaseSound, Owner
<1>4. told[p] = 0
  BY <1>2 DEF LeaseInv, HandlesMatch
<1>5. /\ handle'[p] = Owner /\ told'[p] > 0
      /\ \A q \in Process : q # p => handle'[q] = handle[q] /\ told'[q] = told[q]
  BY <1>2, <1>3 DEF LeaseInv, TypeOK
<1>6. Trusting' = Trusting \cup {Owner}
  BY <1>4, <1>5 DEF Trusting
<1>7. Owner' = Owner /\ Newest' = Newest /\ made' = made
  BY <1>1 DEF Owner, Newest
<1> QED
  BY <1>3, <1>6, <1>7, AsConfirm

LEMMA BeatRefines ==
    ASSUME LeaseInv, NEW p \in Process, Beat(p)
    PROVE  [Contract!LeaseNext]_Contract!leaseVars
<1> DEFINE t == timer[p].token
<1>1. /\ t # 0 /\ t = handle[p] /\ Renewed(t, Ttl) /\ UNCHANGED <<ring, made, handle>>
  BY DEF Beat, renewLease, LeaseInv, HandlesMatch
<1>2. CASE HoldsLease(t) /\ ~ leaseExpired(snapshot.lease)
  <2>1. PICK live : live = [snapshot EXCEPT !.lease.left = Ttl]
    OBVIOUS
  <2>2. told' = [told EXCEPT ![p] = Ttl] /\ snapshot' = live
    BY <1>1, <1>2, <2>1 DEF Beat, Renewed
  <2>3. snapshot \in Snapshot /\ snapshot.lease \in Lease /\ snapshot # Absent /\ snapshot.lease # NoLease
    BY <1>2, LeaseTypes DEF HoldsLease, LeaseInv
  <2>4. PICK l : l = [snapshot.lease EXCEPT !.left = Ttl]
    OBVIOUS
  <2>5. l \in Lease /\ l # NoLease /\ l.token = snapshot.lease.token
    BY <2>3, <2>4 DEF Lease
  <2>6. live = [snapshot EXCEPT !.lease = l]
    BY <2>1, <2>4
  <2>7. snapshot' \in Snapshot /\ snapshot' # Absent /\ snapshot'.lease = l
        /\ snapshot'.latest = snapshot.latest
    BY <2>2, <2>3, <2>5, <2>6 DEF Snapshot
  <2>8. Owner' = Owner /\ Owner = t /\ Owner # 0
    BY <1>1, <1>2, <2>3, <2>5, <2>7 DEF Owner, HoldsLease
  <2>9. Newest' = Newest
    BY <1>1, <2>3, <2>7, NewestStays
  <2>10. told'[p] = Ttl /\ \A q \in Process : q # p => told'[q] = told[q]
    BY <2>2 DEF LeaseInv, TypeOK
  <2>11. Trusting' = Trusting \cup {Owner}
    BY <1>1, <2>8, <2>10 DEF Trusting
  <2> QED
    BY <1>1, <2>8, <2>9, <2>11, AsConfirm
<1>3. CASE ~ (HoldsLease(t) /\ ~ leaseExpired(snapshot.lease))
  <2>1. told' = told
    BY <1>3 DEF Beat
  <2>2. snapshot' = snapshot \/ (snapshot' = Unleased /\ snapshot # Absent
                                  /\ snapshot.lease # NoLease /\ leaseExpired(snapshot.lease))
    BY <1>1, <1>3 DEF Renewed, HoldsLease
  <2> QED
    BY <1>1, <2>1, <2>2, ClearsOrNot
<1> QED
  BY <1>2, <1>3

LEMMA AppendRefines ==
    ASSUME RefInv, RefInv', NEW p \in Process, AddCheckpoint(p)
    PROVE  [Contract!LeaseNext]_Contract!leaseVars
<1>1. handle[p] \in Nat /\ UNCHANGED workerVars /\ LeaseInv
  BY Types DEF AddCheckpoint, RefInv, LeaseInv
<1>2. CASE appendCheckpoint(handle[p])
  <2>1. /\ WritesRing(handle[p]) /\ made' = made
        /\ snapshot' = [snapshot EXCEPT !.latest = NextSequence]
    BY <1>2 DEF appendCheckpoint
  <2>2. /\ NextSequence \in Nat \ {0} /\ snapshot # Absent /\ HoldsLease(handle[p])
        /\ NextSequence = snapshot.latest + 1
    BY <1>1, <2>1, WritesRingTypes DEF LeaseInv
  <2>3. /\ snapshot' \in Snapshot /\ snapshot' # Absent
        /\ snapshot'.lease = snapshot.lease /\ snapshot'.latest = NextSequence
    <3>1. snapshot' \in Snapshot /\ snapshot'.lease = snapshot.lease /\ snapshot'.latest = NextSequence
      BY <1>1, <2>1, <2>2, LeaseTypes DEF LeaseInv, Snapshot
    <3> QED
      BY <3>1
  <2>4. Owner' = Owner /\ Owner = handle[p] /\ Owner # 0
    BY <1>1, <2>2, <2>3, OnlyOwnerTrusts DEF Owner
  <2>5. Trusting' = Trusting
    BY <1>1 DEF Trusting, workerVars
  <2>6. Newest.sequence = snapshot.latest
    <3>1. CASE snapshot.latest = 0
      BY <2>2, <3>1 DEF Newest
    <3>2. CASE snapshot.latest # 0
      <4>0. ring # <<>>
        BY <1>1, <2>2, <3>2, LeaseTypes DEF NextSequence, LeaseInv
      <4>1. PICK i \in 1 .. Len(ring) : ring[i].sequence = snapshot.latest
        BY <2>2, <3>2, <4>0 DEF RefInv, LatestInRing
      <4>2. ring[CHOOSE j \in 1 .. Len(ring) : ring[j].sequence = ring[i].sequence] = ring[i]
        BY ChosenIs DEF RefInv, LeaseInv, TypeOK, StoreTypeOK, RingInOrder
      <4> QED
        BY <2>2, <3>2, <4>0, <4>1, <4>2 DEF Newest
    <3> QED
      BY <3>1, <3>2
  <2>7. Newest' = [sequence |-> NextSequence, by |-> handle[p]]
    <3>1. PICK n : n = Len(ring')
      OBVIOUS
    <3>2. /\ n \in 1 .. Len(ring') /\ ring'[n] = [sequence |-> NextSequence, by |-> handle[p]]
      <4>1. TypeOK
        BY <1>1 DEF LeaseInv
      <4>2. /\ Len(ring') \in Nat \ {0}
            /\ ring'[Len(ring')] = [sequence |-> NextSequence, by |-> handle[p]]
        BY <1>1, <2>1, <4>1, RingAfter
      <4> QED
        BY <3>1, <4>2
    <3>3. ring'[CHOOSE j \in 1 .. Len(ring') : ring'[j].sequence = ring'[n].sequence] = ring'[n]
      <4>1. ring' \in Seq(Checkpoint)
        BY DEF RefInv, LeaseInv, TypeOK, StoreTypeOK
      <4>2. \A i, j \in 1 .. Len(ring') : i < j => ring'[i].sequence < ring'[j].sequence
        BY DEF RefInv, RingInOrder
      <4> QED
        BY <3>2, <4>1, <4>2, ChosenIs
    <3>4. ring'[n].sequence = snapshot'.latest /\ snapshot'.latest # 0
      BY <2>2, <2>3, <3>2
    <3>5. ring' # <<>>
      BY <3>1, <3>2
    <3> QED
      BY <2>3, <3>2, <3>3, <3>4, <3>5 DEF Newest
  <2> QED
    BY <2>1, <2>2, <2>4, <2>5, <2>6, <2>7, AsWrite
<1>3. CASE appendRefused(handle[p])
  <2>1. /\ UNCHANGED <<ring, made, handle, told>>
        /\ snapshot' = snapshot \/ (snapshot' = Unleased /\ snapshot # Absent
                                     /\ snapshot.lease # NoLease /\ leaseExpired(snapshot.lease))
    BY <1>1, <1>3 DEF appendRefused, HoldsLease, workerVars
  <2> QED
    BY <1>1, <2>1, ClearsOrNot
<1> QED
  BY <1>2, <1>3 DEF AddCheckpoint

LEMMA StopRefines ==
    ASSUME FencedEnd, LeaseInv, NEW p \in Process, Release(p) \/ Finalize(p) \/ Destroy(p)
    PROVE  [Contract!LeaseNext]_Contract!leaseVars
<1>1. Idles(p)
  BY DEF Release, Finalize, Destroy, Stopped, Idles
<1>2. CASE Destroy(p)
  <2>1. /\ snapshot' \in {Absent, snapshot} /\ ring' \in {<<>>, ring}
        /\ made' = made /\ HoldsLease(handle[p])
    BY <1>2 DEF Destroy, destroy, MayEnd
  <2>2. Trusting' = {} /\ Trusting' \subseteq Trusting
    BY <1>1, <2>1, IdleTrusts
  <2>3. CASE snapshot' = Absent
    <3>1. Owner' = 0 /\ Newest' = [sequence |-> 0, by |-> 0]
      BY <2>3 DEF Owner, Newest
    <3> QED
      BY <2>1, <2>2, <3>1, AsForget
  <2>4. CASE snapshot' = snapshot /\ ring' = <<>>
    <3>1. Owner' = Owner /\ Newest' = [sequence |-> 0, by |-> 0]
      BY <2>4 DEF Owner, Newest
    <3> QED
      BY <2>1, <2>2, <3>1, AsLose
  <2>5. CASE snapshot' = snapshot /\ ring' = ring
    <3>1. Owner' = Owner /\ Newest' = Newest
      BY <2>5 DEF Owner, Newest
    <3> QED
      BY <2>1, <2>2, <3>1, AsLapse
  <2> QED
    BY <2>1, <2>3, <2>4, <2>5
<1>3. CASE Release(p) \/ Finalize(p)
  <2>1. PICK done : done = [Unleased EXCEPT !.status = "completed"]
    OBVIOUS
  <2>2. /\ UNCHANGED <<ring, made>>
        /\ snapshot' = snapshot \/ (HoldsLease(handle[p]) /\ snapshot' \in {Unleased, done})
    BY <1>3, <2>1 DEF Release, releaseLease, Finalize, finalize, MayEnd
  <2>3. CASE snapshot' = snapshot
    <3>1. Owner' = Owner /\ Newest' = Newest
      BY <2>2, <2>3 DEF Owner, Newest
    <3> QED
      BY <1>1, <2>2, <3>1, IdleTrusts, AsLapse
  <2>4. CASE HoldsLease(handle[p]) /\ snapshot' \in {Unleased, done}
    <3>1. snapshot # Absent
      BY <2>4 DEF HoldsLease
    <3>2. /\ Unleased \in Snapshot /\ Unleased.lease = NoLease /\ Unleased.latest = snapshot.latest
      BY <3>1, LeaseTypes DEF LeaseInv
    <3>3. /\ done \in Snapshot /\ done.lease = NoLease /\ done.latest = snapshot.latest
      BY <2>1, <3>2 DEF Snapshot
    <3>4. snapshot' # Absent /\ snapshot'.lease = NoLease /\ snapshot'.latest = snapshot.latest
      BY <2>4, <3>2, <3>3
    <3>5. Owner' = 0 /\ Newest' = Newest
      BY <2>2, <3>1, <3>4, NewestStays DEF Owner
    <3> QED
      BY <1>1, <2>2, <2>4, <3>5, IdleTrusts, AsDisown
  <2> QED
    BY <2>2, <2>3, <2>4
<1> QED
  BY <1>2, <1>3

LEMMA DeathRefines ==
    ASSUME FencedEnd, RingSize >= 2, RefInv, RefInv', NEW p \in Process,
           Crash(p) \/ \E what \in {"create", "append", "destroy"} : CutShort(p, what)
    PROVE  [Contract!LeaseNext]_Contract!leaseVars
<1>1. LeaseInv /\ Idles(p)
  BY DEF Crash, CutShort, Dies, Idles, RefInv
<1>2. CASE Crash(p)
  <2>1. UNCHANGED <<snapshot, ring, made>>
    BY <1>2 DEF Crash
  <2>2. Owner' = Owner /\ Newest' = Newest
    BY <2>1 DEF Owner, Newest
  <2> QED
    BY <1>1, <2>1, <2>2, IdleTrusts, AsLapse
<1>3. ASSUME CutShort(p, "destroy") PROVE Contract!LeaseNext
  <2>1. snapshot' = Absent /\ made' = made /\ HoldsLease(handle[p])
    BY <1>3 DEF CutShort, DiesDestroying, MayEnd
  <2>2. Owner' = 0 /\ Newest' = [sequence |-> 0, by |-> 0]
    BY <2>1 DEF Owner, Newest
  <2> QED
    BY <1>1, <2>1, <2>2, IdleTrusts, AsForget
<1>4. ASSUME CutShort(p, "create") PROVE [Contract!LeaseNext]_Contract!leaseVars
  <2>1. snapshot = Absent /\ snapshot' = NewSnapshot /\ made' = made
    BY <1>4 DEF CutShort, DiesCreating
  <2>2. \A q \in Process : told'[q] = 0
    BY <1>1, <2>1, NobodyTold DEF Idles, LeaseInv, TypeOK
  <2> QED
    BY <1>1, <2>1, <2>2, CreateRefines
<1>5. ASSUME CutShort(p, "append") PROVE Contract!LeaseNext
  <2>1. WritesRing(handle[p]) /\ snapshot' = snapshot /\ made' = made /\ handle[p] \in Nat
    BY <1>1, <1>5, Types DEF CutShort, DiesAppending, LeaseInv
  <2>2. Owner' = Owner
    BY <2>1 DEF Owner
  <2>3. Newest' = Newest
    <3>1. CASE snapshot = Absent \/ snapshot.latest = 0
      BY <2>1, <3>1 DEF Newest
    <3>2. CASE snapshot # Absent /\ snapshot.latest # 0
      <4>0. ring # <<>> /\ ring' # <<>>
        <5>1. ring # <<>>
          BY <1>1, <2>1, <3>2, WritesRingTypes, LeaseTypes DEF NextSequence, LeaseInv
        <5>2. Len(ring') \in Nat \ {0}
          BY <1>1, <2>1, RingAfter DEF LeaseInv
        <5> QED
          BY <5>1, <5>2
      <4>1. PICK n : n = Len(ring)
        OBVIOUS
      <4>2. /\ n \in 1 .. Len(ring) /\ ring[n].sequence = snapshot.latest
            /\ \E i \in 1 .. Len(ring') : ring'[i] = ring[n]
        BY <1>1, <2>1, <3>2, <4>1, LastButOne DEF LeaseInv
      <4>3. PICK i \in 1 .. Len(ring') : ring'[i] = ring[n]
        BY <4>2
      <4>4. ring[CHOOSE j \in 1 .. Len(ring) : ring[j].sequence = ring[n].sequence] = ring[n]
        BY <4>2, ChosenIs DEF RefInv, LeaseInv, TypeOK, StoreTypeOK, RingInOrder
      <4>5. ring'[CHOOSE j \in 1 .. Len(ring') : ring'[j].sequence = ring'[i].sequence] = ring'[i]
        BY <4>3, ChosenIs DEF RefInv, LeaseInv, TypeOK, StoreTypeOK, RingInOrder
      <4>6. Newest = ring[n]
        BY <3>2, <4>0, <4>2, <4>4 DEF Newest
      <4>7. Newest' = ring'[i]
        BY <2>1, <3>2, <4>0, <4>2, <4>3, <4>5 DEF Newest
      <4> QED
        BY <4>3, <4>6, <4>7
    <3> QED
      BY <3>1, <3>2
  <2> QED
    BY <1>1, <2>1, <2>2, <2>3, IdleTrusts, AsLapse
<1> QED
  BY <1>2, <1>3, <1>4, <1>5

LEMMA TickRefines ==
    ASSUME LeaseInv, Tick
    PROVE  Contract!LeaseNext
<1>1. UNCHANGED <<ring, made, handle>>
  BY DEF Tick
<1>2. Trusting' \subseteq Trusting
  <2>1. \A p \in Process : told'[p] > 0 => told[p] > 0
    BY Types DEF Tick, Less, LeaseInv
  <2> QED
    BY <1>1, <2>1 DEF Trusting
<1>3. Owner' = Owner /\ Newest' = Newest
  <2>1. CASE snapshot # Absent /\ snapshot.lease # NoLease
    <3>1. snapshot \in Snapshot /\ snapshot.lease \in Lease
      BY <2>1, LeaseTypes DEF LeaseInv
    <3>2. PICK l : l = [snapshot.lease EXCEPT !.left = Less(snapshot.lease.left)]
      OBVIOUS
    <3>3. Less(snapshot.lease.left) \in Nat
      BY <3>1 DEF Lease, Less
    <3>4. l \in Lease /\ l # NoLease /\ l.token = snapshot.lease.token
      BY <3>1, <3>2, <3>3 DEF Lease
    <3>5. snapshot' = [snapshot EXCEPT !.lease = l]
      BY <2>1, <3>2 DEF Tick
    <3>6. snapshot' \in Snapshot /\ snapshot' # Absent /\ snapshot'.lease = l
          /\ snapshot'.latest = snapshot.latest
      BY <3>1, <3>4, <3>5 DEF Snapshot
    <3> QED
      BY <1>1, <2>1, <3>4, <3>6, NewestStays DEF Owner
  <2>2. CASE ~ (snapshot # Absent /\ snapshot.lease # NoLease)
    <3>1. snapshot' = snapshot
      BY <2>2 DEF Tick
    <3> QED
      BY <1>1, <3>1 DEF Owner, Newest
  <2> QED
    BY <2>1, <2>2
<1> QED
  BY <1>1, <1>2, <1>3, AsLapse

LEMMA StepRefines ==
    ASSUME FencedEnd, RingSize >= 2, RefInv, RefInv', [Next]_vars
    PROVE  [Contract!LeaseNext]_Contract!leaseVars
<1>1. LeaseInv /\ LeaseInv'
  BY DEF RefInv
<1>2. ASSUME NEW p \in Process, Create(p) PROVE [Contract!LeaseNext]_Contract!leaseVars
  <2>1. snapshot = Absent /\ snapshot' = NewSnapshot /\ made' = made /\ told' = told
    BY <1>2 DEF Create, create, workerVars
  <2> QED
    BY <1>1, <2>1, CreateRefines
<1>3. ASSUME NEW p \in Process, SetupFails(p) PROVE [Contract!LeaseNext]_Contract!leaseVars
  <2>1. Idles(p) /\ UNCHANGED <<snapshot, ring, made>>
    BY <1>3 DEF SetupFails, Idles
  <2>2. Owner' = Owner /\ Newest' = Newest
    BY <2>1 DEF Owner, Newest
  <2> QED
    BY <1>1, <2>1, <2>2, IdleTrusts, AsLapse
<1>4. ASSUME UNCHANGED <<snapshot, ring, made, handle, told>>
      PROVE  [Contract!LeaseNext]_Contract!leaseVars
  <2>1. Owner' = Owner /\ Newest' = Newest /\ Trusting' = Trusting
    BY <1>4 DEF Owner, Newest, Trusting
  <2> QED
    BY <1>4, <2>1, AsStutter
<1>5. ASSUME NEW p \in Process, SetupDone(p) PROVE [Contract!LeaseNext]_Contract!leaseVars
  BY <1>4, <1>5 DEF SetupDone
<1>6. UNCHANGED vars => UNCHANGED <<snapshot, ring, made, handle, told>>
  BY DEF vars
<1> QED
  BY <1>1, <1>2, <1>3, <1>4, <1>5, <1>6, AcquireRefines, RefetchRefines, BeatRefines,
     AppendRefines, StopRefines, DeathRefines, TickRefines DEF Next

\* The file-system store under the resume protocol implements the contract of the port:
\* with deaths at any moment, between the two files of a call as well, there is one owner
\* at a time, whoever trusts in its lease is that owner, and only the owner adds to the
\* checkpoints.  The ring needs two places for a checkpoint that was cut short.
THEOREM ContractImplemented == FencedEnd /\ RingSize >= 2 => (Spec => ImplementsContract)
<1> SUFFICES ASSUME FencedEnd, RingSize >= 2 PROVE Spec => ImplementsContract
  OBVIOUS
<1>1. Init => RingInOrder /\ LatestInRing
  BY InitLease DEF IInv
<1>2. LeaseInv /\ RingInOrder /\ LatestInRing /\ [Next]_vars
        => (RingInOrder /\ LatestInRing)'
  BY RingStep DEF LeaseInv, RingKept
<1>3. LeaseInv /\ RingInOrder /\ LatestInRing => RefInv
  BY DEF RefInv
<1>4. RefInv /\ RefInv' /\ [Next]_vars => [Contract!LeaseNext]_Contract!leaseVars
  BY StepRefines
<1>5. Init => Contract!LeaseInit
  <2> SUFFICES ASSUME Init PROVE Contract!LeaseInit
    OBVIOUS
  <2>1. Owner = 0 /\ made = 0 /\ Newest = [sequence |-> 0, by |-> 0] /\ Trusting = {}
    BY DEF Init, StoreInit, Owner, Newest, Trusting
  <2> QED
    BY <2>1 DEF Contract!LeaseInit, Contract!NoCheckpoint
<1> QED
  BY <1>1, <1>2, <1>3, <1>4, <1>5, LeaseInvariance, PTL DEF Spec, ImplementsContract, Contract!LeaseSpec

=============================================================================
