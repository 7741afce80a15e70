---------------------------- MODULE CortexProofs ----------------------------
(***************************************************************************)
(* What holds of CortexSessionStore for every value of its constants, as   *)
(* long as one call ends, or its process dies in the middle of it, before  *)
(* the next call begins (Serial).                                          *)
(*                                                                         *)
(* A call reads the envelope, decides, and then does its writes one by one *)
(* with nobody else in between.  So the put that ends it finds the very    *)
(* envelope the call has read: PutSound says what that put will do, and    *)
(* SavesFirst and EvictsOlder what the writes before it do.                *)
(***************************************************************************)
EXTENDS CortexSessionStore, SequenceTheorems, TLAPS

Sound(put) == Creates(put) \/ Clears(put) \/ Leases(put) \/ Adds(put)

SnapshotEnds(writes) ==
    \A i \in 1 .. Len(writes) : writes[i].kind = "snapshot" <=> i = Len(writes)

-----------------------------------------------------------------------------
(* Types. *)

LEMMA WriteTypes ==
    ASSUME NEW w \in Write
    PROVE  /\ w.kind \in {"snapshot", "checkpoint", "evict", "drop"}
           /\ w.kind = "snapshot" => w.value \in Envelope \cup {Absent} /\ w.tell \in Nat
           /\ w.kind = "checkpoint" => w.value \in Checkpoint
           /\ w.kind \in {"evict", "drop"} => w.value \in Nat
<1>1. CASE w \in [kind : {"snapshot"}, value : Envelope \cup {Absent}, tell : Nat]
  BY <1>1
<1>2. CASE w \in [kind : {"checkpoint"}, value : Checkpoint]
  BY <1>2
<1>3. CASE w \in [kind : {"evict", "drop"}, value : Nat]
  BY <1>3
<1> QED
  BY <1>1, <1>2, <1>3 DEF Write

LEMMA MakesWrites ==
    /\ \A v \in Envelope \cup {Absent}, n \in Nat :
         /\ Put(v, n) \in Write /\ Put(v, n).kind = "snapshot"
         /\ Put(v, n).value = v /\ Put(v, n).tell = n
    /\ \A k \in Checkpoint :
         /\ Save(k) \in Write /\ Save(k).kind = "checkpoint" /\ Save(k).value = k
         /\ Evict(k) \in Write /\ Evict(k).kind = "evict" /\ Evict(k).value = k.sequence
         /\ Drop(k) \in Write /\ Drop(k).kind = "drop"
         /\ k.sequence \in Nat /\ k.by \in Nat
<1>1. \A v \in Envelope \cup {Absent}, n \in Nat : Put(v, n) \in Write
  BY DEF Put, Write
<1>2. \A k \in Checkpoint : Save(k) \in Write
  BY DEF Save, Write
<1>3. \A k \in Checkpoint : k.sequence \in Nat /\ k.by \in Nat
  BY DEF Checkpoint
<1>4. \A k \in Checkpoint : Evict(k) \in Write /\ Drop(k) \in Write
  BY <1>3 DEF Evict, Drop, Write
<1> QED
  BY <1>1, <1>2, <1>3, <1>4 DEF Put, Save, Evict, Drop

LEMMA EnvelopeTypes ==
    ASSUME NEW v \in Envelope
    PROVE  /\ v # Absent
           /\ v.status \in Status /\ v.latest \in Nat /\ v.checkpoints \in Seq(Checkpoint)
           /\ Len(v.checkpoints) \in Nat
           /\ \A i \in 1 .. Len(v.checkpoints) :
                v.checkpoints[i] \in Checkpoint /\ v.checkpoints[i].sequence \in Nat
           /\ v.lease # NoLease => /\ v.lease \in Lease
                                   /\ v.lease.worker \in {Worker(c) : c \in Caller}
                                   /\ v.lease.token \in Nat /\ v.lease.expiresAt \in Nat
<1>1. /\ v.status \in Status /\ v.latest \in Nat /\ v.checkpoints \in Seq(Checkpoint)
      /\ v.lease \in Lease \cup {NoLease}
  BY DEF Envelope
<1>2. \A i \in 1 .. Len(v.checkpoints) : v.checkpoints[i] \in Checkpoint
  BY <1>1
<1>3. v # Absent
  BY AbsenceAssumption
<1>4. Len(v.checkpoints) \in Nat
  BY <1>1
<1> QED
  BY <1>1, <1>2, <1>3, <1>4 DEF Lease, Checkpoint

\* What the operations put in the envelope's place.
LEMMA EnvelopesMade ==
    ASSUME envelope \in Envelope
    PROVE  /\ Unleased \in Envelope /\ SameRing(Unleased) /\ Unleased.lease = NoLease
           /\ \A s \in Status : /\ [Unleased EXCEPT !.status = s] \in Envelope
                                /\ SameRing([Unleased EXCEPT !.status = s])
                                /\ [Unleased EXCEPT !.status = s].lease = NoLease
           /\ \A l \in Lease : /\ [envelope EXCEPT !.lease = l] \in Envelope
                               /\ SameRing([envelope EXCEPT !.lease = l])
                               /\ [envelope EXCEPT !.lease = l].lease = l
<1>1. \A l \in Lease \cup {NoLease} : [envelope EXCEPT !.lease = l] \in Envelope
  BY DEF Envelope
<1>2. \A s \in Status : [Unleased EXCEPT !.status = s] \in Envelope
  BY DEF Envelope, Unleased
<1>3. \A v \in Envelope : v # Absent
  BY AbsenceAssumption
<1>4. /\ Unleased.lease = NoLease /\ Unleased.latest = envelope.latest
      /\ Unleased.checkpoints = envelope.checkpoints
  BY DEF Envelope, Unleased
<1>5. \A s \in Status : /\ [Unleased EXCEPT !.status = s].lease = NoLease
                        /\ [Unleased EXCEPT !.status = s].latest = envelope.latest
                        /\ [Unleased EXCEPT !.status = s].checkpoints = envelope.checkpoints
  BY DEF Envelope, Unleased
<1>6. \A l : /\ [envelope EXCEPT !.lease = l].lease = l
             /\ [envelope EXCEPT !.lease = l].latest = envelope.latest
             /\ [envelope EXCEPT !.lease = l].checkpoints = envelope.checkpoints
  BY DEF Envelope
<1>7. Unleased \in Envelope
  BY <1>1 DEF Unleased
<1> QED
  BY <1>1, <1>2, <1>3, <1>4, <1>5, <1>6, <1>7 DEF SameRing

LEMMA NewEnvelopeType ==
    /\ NewEnvelope \in Envelope /\ NewEnvelope.latest = 0 /\ NewEnvelope.checkpoints = <<>>
    /\ NewEnvelope.lease = NoLease
  BY DEF NewEnvelope, Envelope, Status

\* The ring after an append: the oldest goes if it was full.
LEMMA KeptFacts ==
    ASSUME NEW ring \in Seq(Checkpoint), NEW k \in Checkpoint
    PROVE  \E n \in {0, 1} : LET new == Kept(Append(ring, k)) IN
             /\ new \in Seq(Checkpoint)
             /\ Len(ring) \in Nat /\ n <= Len(ring)
             /\ Len(new) = Len(ring) + 1 - n
             /\ new[Len(new)] = k
             /\ \A i \in 1 .. Len(new) - 1 : i + n \in 1 .. Len(ring) /\ new[i] = ring[i + n]
             /\ Evictions(Append(ring, k)) = IF n = 0 THEN <<>> ELSE <<Evict(ring[1])>>
             /\ n = 1 => Len(ring) >= Ring
<1>1. PICK long : long = Append(ring, k)
  OBVIOUS
<1>2. PICK len \in Nat : len = Len(ring)
  OBVIOUS
<1>3. /\ long \in Seq(Checkpoint) /\ Len(long) = len + 1 /\ long[len + 1] = k
      /\ \A i \in 1 .. len : long[i] = ring[i]
  BY <1>1, <1>2
<1>4. CASE Len(long) > Ring
  <2>1. len >= 1 /\ len >= Ring
    BY <1>3, <1>4, CortexAssumption
  <2>2. PICK new : new = Tail(long)
    OBVIOUS
  <2>3. new \in Seq(Checkpoint) /\ Len(new) = len /\ \A i \in 1 .. len : new[i] = long[i + 1]
    BY <1>3, <2>2
  <2>4. Head(long) = ring[1]
    BY <1>3, <2>1
  <2>5. Kept(Append(ring, k)) = new /\ Evictions(Append(ring, k)) = <<Evict(ring[1])>>
    BY <1>1, <1>4, <2>2, <2>4 DEF Kept, Evictions
  <2>6. new[len] = k /\ \A i \in 1 .. len - 1 : i + 1 \in 1 .. len /\ new[i] = ring[i + 1]
    BY <1>3, <2>1, <2>3
  <2> QED
    BY <1>2, <2>1, <2>3, <2>5, <2>6
<1>5. CASE ~ (Len(long) > Ring)
  <2>1. Kept(Append(ring, k)) = long /\ Evictions(Append(ring, k)) = <<>>
    BY <1>1, <1>5 DEF Kept, Evictions
  <2>2. \A i \in 1 .. len + 1 - 1 : i + 0 \in 1 .. len /\ long[i] = ring[i + 0]
    BY <1>3
  <2> QED
    BY <1>2, <1>3, <2>1, <2>2
<1> QED
  BY <1>4, <1>5

-----------------------------------------------------------------------------
(* Leases. *)

LEMMA GrantTypes ==
    ASSUME TypeOK, NEW t \in Token
    PROVE  /\ t \in Nat /\ t # 0 /\ Len(grants) \in Nat /\ grants[t] \in Grant
           /\ grants[t].worker \in {Worker(c) : c \in Caller}
           /\ grants[t].until \in Nat /\ grants[t].over \in BOOLEAN
<1>1. grants \in Seq(Grant) /\ Len(grants) \in Nat
  BY DEF TypeOK
<1>2. grants[t] \in Grant /\ t \in Nat /\ t # 0
  BY <1>1 DEF Token
<1> QED
  BY <1>1, <1>2 DEF Grant

\* The owner's token, when there is one.
LEMMA OwnerFacts ==
    ASSUME TypeOK, LeaseTold, envelope # Absent, envelope.lease # NoLease
    PROVE  /\ envelope \in Envelope /\ envelope.lease \in Lease
           /\ envelope.lease.token \in Token /\ Owner = envelope.lease.token /\ Owner # 0
           /\ envelope.lease.expiresAt \in Nat
           /\ grants[envelope.lease.token].worker = envelope.lease.worker
           /\ grants[envelope.lease.token].until = envelope.lease.expiresAt
           /\ envelope.lease.expiresAt > 0
<1>1. envelope \in Envelope
  BY DEF TypeOK
<1>2. envelope.lease.token \in Told
  BY DEF LeaseTold
<1>3. envelope.lease.token \in Token /\ grants[envelope.lease.token].until > 0
  BY <1>2 DEF Told
<1>4. envelope.lease.token # 0
  BY <1>3, GrantTypes
<1> QED
  BY <1>1, <1>3, <1>4, EnvelopeTypes DEF LeaseTold, Owner

\* Who believes in a lease is the owner, and its lease has not run out.
LEMMA BelieverFacts ==
    ASSUME TypeOK, LeaseTold, OwnerTrusted
    PROVE  /\ Trusting \subseteq {Owner}
           /\ Trusting # {} => /\ envelope # Absent /\ envelope.lease # NoLease
                               /\ ~ leaseExpired(envelope.lease)
                               /\ ~ grants[envelope.lease.token].over
<1>1. ASSUME NEW t \in Token, Believes(t)
      PROVE  /\ envelope # Absent /\ envelope.lease # NoLease /\ t = Owner
             /\ t = envelope.lease.token
             /\ ~ leaseExpired(envelope.lease) /\ ~ grants[t].over
  <2>1. envelope # Absent /\ envelope.lease # NoLease /\ envelope.lease.token = t
    BY <1>1 DEF OwnerTrusted, HoldsLease
  <2>2. Owner = t /\ grants[t].until = envelope.lease.expiresAt /\ envelope.lease.expiresAt \in Nat
    BY <2>1, OwnerFacts
  <2>3. now < grants[t].until /\ ~ grants[t].over /\ now \in Nat
    BY <1>1 DEF Believes, TypeOK
  <2>4. ~ (envelope.lease.expiresAt <= now)
    BY <2>2, <2>3
  <2> QED
    BY <2>1, <2>2, <2>3, <2>4 DEF leaseExpired
<1> QED
  BY <1>1 DEF Trusting

\* What the callers know stays the same but for who gave up, who was told again,
\* and a token that nobody was told of yet.
SameGrants ==
    /\ grants' \in Seq(Grant) /\ Len(grants) <= Len(grants')
    /\ \A t \in Token : /\ grants'[t].worker = grants[t].worker
                        /\ grants'[t].until = grants[t].until
    /\ \A t \in 1 .. Len(grants') : t \notin Token => grants'[t].until = 0

LEMMA SameLeases ==
    ASSUME TypeOK, LeaseTold, OwnerTrusted, TokensInOrder,
           SameGrants, envelope' = envelope, now' \in Nat, now <= now',
           \A t \in Token : Believes(t)' => Believes(t) \/ HoldsLease(t)
    PROVE  /\ Told' = Told /\ Issued' = Issued /\ Owner' = Owner /\ Newest' = Newest
           /\ LeaseTold' /\ OwnerTrusted' /\ TokensInOrder'
           /\ Token \subseteq Token'
           /\ Trusting' = {t \in Token : Believes(t)'}
<1>1. Len(grants) \in Nat /\ Len(grants') \in Nat /\ Len(grants) <= Len(grants')
  BY DEF TypeOK, SameGrants
<1>2. Token \subseteq Token' /\ Token' = 1 .. Len(grants')
  BY <1>1 DEF Token
<1>3. \A t \in Token' : t \notin Token => ~ (grants'[t].until > 0) /\ ~ (now' < grants'[t].until)
  BY <1>2 DEF SameGrants
<1>4. Told' = Told
  <2>1. \A t : t \in Told' <=> t \in Token /\ grants'[t].until > 0
    BY <1>2, <1>3 DEF Told
  <2> QED
    BY <2>1 DEF Told, SameGrants
<1>5. Issued' = Issued
  BY <1>4 DEF Issued
<1>6. LeaseTold'
  <2> SUFFICES ASSUME envelope # Absent, envelope.lease # NoLease
               PROVE  LET t == envelope.lease.token IN
                      /\ t \in Told' /\ grants'[t].worker = envelope.lease.worker
                      /\ grants'[t].until = envelope.lease.expiresAt
    BY DEF LeaseTold
  <2>1. envelope.lease.token \in Token /\ envelope.lease.token \in Told
    BY OwnerFacts DEF LeaseTold
  <2> QED
    BY <1>4, <2>1 DEF LeaseTold, SameGrants
<1>7. \A t \in Token' : Believes(t)' => t \in Token
  BY <1>3 DEF Believes
<1>8. OwnerTrusted'
  <2> SUFFICES ASSUME NEW t \in Token', Believes(t)' PROVE HoldsLease(t)'
    BY DEF OwnerTrusted
  <2>1. HoldsLease(t)
    BY <1>7 DEF OwnerTrusted
  <2> QED
    BY <2>1 DEF HoldsLease
<1>9. TokensInOrder'
  BY <1>4 DEF TokensInOrder
<1>10. Trusting' = {t \in Token : Believes(t)'}
  BY <1>2, <1>7 DEF Trusting
<1>11. Owner' = Owner /\ Newest' = Newest
  BY DEF Owner, Newest
<1> QED
  BY <1>2, <1>4, <1>5, <1>6, <1>8, <1>9, <1>10, <1>11

\* Nothing changes for the callers.
LEMMA NoGrantChanges ==
    ASSUME TypeOK, grants' = grants
    PROVE  SameGrants
<1>1. Len(grants) \in Nat
  BY DEF TypeOK
<1> QED
  BY <1>1 DEF TypeOK, SameGrants, Token

\* A holder gives up: nobody else believes more than before.
LEMMA GivingUp ==
    ASSUME TypeOK, NEW t \in Token, GiveUp(t)
    PROVE  /\ SameGrants /\ Token' = Token
           /\ grants'[t].over /\ \A u \in Token : u # t => grants'[u] = grants[u]
<1>1. PICK g : g = [worker |-> grants[t].worker, until |-> grants[t].until, over |-> TRUE]
  OBVIOUS
<1>2. g \in Grant /\ g.worker = grants[t].worker /\ g.until = grants[t].until /\ g.over
  BY <1>1, GrantTypes DEF Grant
<1>3. grants' = [grants EXCEPT ![t] = g] /\ grants \in Seq(Grant)
  BY <1>1 DEF GiveUp, TypeOK
<1>4. Len(grants') = Len(grants) /\ grants' \in Seq(Grant) /\ Len(grants) \in Nat
  BY <1>2, <1>3, ExceptSeq, LenProperties DEF Token
<1>5. \A u \in Token : grants'[u] = IF u = t THEN g ELSE grants[u]
  BY <1>3 DEF Token
<1> QED
  BY <1>2, <1>4, <1>5 DEF SameGrants, Token

\* The put of a call that has begun stays what it is.
LEMMA SoundStays ==
    ASSUME NEW put, Sound(put), envelope' = envelope, grants' = grants, Trusting' \subseteq Trusting
    PROVE  Sound(put)'
<1>1. Token' = Token
  BY DEF Token
<1>2. Creates(put) => Creates(put)'
  BY DEF Creates
<1>3. Clears(put) => Clears(put)'
  BY DEF Clears, SameRing
<1>4. Leases(put) => Leases(put)'
  BY <1>1 DEF Leases, SameRing
<1>5. Adds(put) => Adds(put)'
  BY DEF Adds, Extended, Appended
<1> QED
  BY <1>2, <1>3, <1>4, <1>5 DEF Sound

-----------------------------------------------------------------------------
(* Calls begin. *)

\* Nothing changes for the session, and nobody believes more than before.
Quiet == Owner' = Owner /\ Issued' = Issued /\ Newest' = Newest /\ Trusting' \subseteq Trusting

LEMMA StartFacts ==
    ASSUME Serial, TypeOK, NEW c \in Caller, NEW w \in Seq(Write), Start(c, w)
    PROVE  /\ call' \in [Caller -> Seq(Write)]
           /\ \A d \in Caller : call'[d] = IF d = c THEN w ELSE <<>>
           /\ OneCall'
           /\ envelope' = envelope /\ stored' = stored /\ now' = now
<1>1. /\ \A d \in Caller : call[d] = <<>>
      /\ call' = [call EXCEPT ![c] = w]
      /\ envelope' = envelope /\ stored' = stored /\ now' = now
  BY DEF Start
<1>2. /\ call' \in [Caller -> Seq(Write)]
      /\ \A d \in Caller : call'[d] = IF d = c THEN w ELSE <<>>
  BY <1>1 DEF TypeOK
<1>3. OneCall'
  BY <1>2 DEF OneCall
<1> QED
  BY <1>1, <1>2, <1>3

LEMMA StartKeeps ==
    ASSUME Serial, LeaseInv, NEW c \in Caller, NEW w \in Seq(Write), Start(c, w), SameGrants,
           \A t \in Token : Believes(t)' => Believes(t),
           w # <<>> => SnapshotEnds(w) /\ Sound(w[Len(w)])'
    PROVE  LeaseInv' /\ Quiet
<1>1. TypeOK /\ LeaseTold /\ OwnerTrusted /\ TokensInOrder /\ RingInOrder
  BY DEF LeaseInv
<1>2. /\ call' \in [Caller -> Seq(Write)]
      /\ \A d \in Caller : call'[d] = IF d = c THEN w ELSE <<>>
      /\ OneCall'
      /\ envelope' = envelope /\ stored' = stored /\ now' = now
  BY <1>1, StartFacts
<1>3. now \in Nat /\ now <= now'
  BY <1>1, <1>2 DEF TypeOK
<1>4. /\ Issued' = Issued /\ Owner' = Owner /\ Newest' = Newest
      /\ LeaseTold' /\ OwnerTrusted' /\ TokensInOrder'
      /\ Trusting' = {t \in Token : Believes(t)'}
  BY <1>1, <1>2, <1>3, SameLeases
<1>5. Quiet
  BY <1>4 DEF Quiet, Trusting
<1>6. TypeOK'
  BY <1>1, <1>2 DEF TypeOK, SameGrants
<1>7. RingInOrder'
  BY <1>1, <1>2 DEF RingInOrder
<1>8. SnapshotLast'
  <2>1. \A d \in Caller : call'[d] = <<>> \/ SnapshotEnds(call'[d])
    BY <1>2
  <2> QED
    BY <2>1 DEF SnapshotLast, SnapshotEnds
<1>9. PutSound'
  <2> SUFFICES ASSUME NEW d \in Caller, call'[d] # <<>>
               PROVE  (LET put == call[d][Len(call[d])] IN
                       Creates(put) \/ Clears(put) \/ Leases(put) \/ Adds(put))'
    BY DEF PutSound
  <2>1. call'[d] = w /\ w # <<>>
    BY <1>2
  <2>2. PICK put : put = w[Len(w)]
    OBVIOUS
  <2>3. Sound(put)'
    BY <2>1, <2>2
  <2> QED
    BY <2>1, <2>2, <2>3 DEF Sound
<1> QED
  BY <1>2, <1>4, <1>5, <1>6, <1>7, <1>8, <1>9 DEF LeaseInv

\* A call that only puts the envelope.
LEMMA OnePut ==
    ASSUME NEW v \in Envelope \cup {Absent}, NEW n \in Nat
    PROVE  LET w == <<Put(v, n)>> IN
           /\ w \in Seq(Write) /\ Len(w) = 1 /\ SnapshotEnds(w)
           /\ w[Len(w)] = Put(v, n) /\ w[1] = Put(v, n)
<1>1. Put(v, n) \in Write /\ Put(v, n).kind = "snapshot"
  BY MakesWrites
<1> QED
  BY <1>1 DEF SnapshotEnds

LEMMA CreateStarts ==
    ASSUME Serial, LeaseInv, NEW c \in Caller, create(c)
    PROVE  LeaseInv' /\ Quiet
<1>1. TypeOK
  BY DEF LeaseInv
<1> PICK put : put = Put(NewEnvelope, 0)
  OBVIOUS
<1>2. envelope = Absent /\ Start(c, <<put>>) /\ grants' = grants
  BY DEF create
<1>3. <<put>> \in Seq(Write) /\ SnapshotEnds(<<put>>) /\ <<put>>[Len(<<put>>)] = put
  <2>1. NewEnvelope \in Envelope \cup {Absent} /\ 0 \in Nat
    BY NewEnvelopeType
  <2> QED
    BY <2>1, OnePut
<1>4. SameGrants /\ now' = now /\ envelope' = envelope
  BY <1>1, <1>2, NoGrantChanges DEF Start
<1>5. Sound(put)'
  BY <1>2, <1>4 DEF Sound, Creates, Put, NewEnvelope
<1>6. \A t \in Token : Believes(t)' => Believes(t)
  BY <1>2, <1>4 DEF Believes
<1> QED
  BY <1>2, <1>3, <1>4, <1>5, <1>6, StartKeeps

LEMMA AcquireStarts ==
    ASSUME Serial, LeaseInv, NEW c \in Caller, NEW ttl \in Ttl, resumeAcquire(c, ttl)
    PROVE  LeaseInv' /\ Quiet
<1>1. TypeOK /\ LeaseTold /\ OwnerTrusted
  BY DEF LeaseInv
<1>2. PICK n \in Nat : n = Len(grants)
  BY <1>1 DEF TypeOK
<1>3. PICK l : l = LeaseFor(Worker(c), n + 1, now + ttl)
  OBVIOUS
<1>4. PICK v : v = [envelope EXCEPT !.lease = l]
  OBVIOUS
<1>5. /\ envelope # Absent /\ Start(c, <<Put(v, n + 1)>>) /\ n < MaxGrants
      /\ envelope.lease # NoLease => leaseExpired(envelope.lease)
      /\ grants' = Append(grants, [worker |-> Worker(c), until |-> 0, over |-> FALSE])
  BY <1>2, <1>3, <1>4 DEF resumeAcquire
<1>6. envelope' = envelope /\ now' = now /\ now \in Nat /\ ttl \in Nat \ {0}
  BY <1>1, <1>5, CortexAssumption DEF Start, TypeOK
<1>7. /\ l \in Lease /\ l.worker = Worker(c) /\ l.token = n + 1 /\ l.expiresAt > 0 /\ l # NoLease
  <2>1. now + ttl \in Nat /\ now + ttl > 0
    BY <1>6
  <2>2. l \in Lease /\ l.worker = Worker(c) /\ l.token = n + 1 /\ l.expiresAt > 0
    BY <1>3, <2>1 DEF LeaseFor, Lease
  <2> QED
    BY <2>2, AbsenceAssumption
<1>8. v \in Envelope /\ v # Absent /\ v.lease = l /\ SameRing(v)
  <2>1. envelope \in Envelope
    BY <1>1, <1>5 DEF TypeOK
  <2> QED
    BY <1>4, <1>7, <2>1, EnvelopesMade DEF SameRing
<1>9. PICK g : g = [worker |-> Worker(c), until |-> 0, over |-> FALSE]
  OBVIOUS
<1>10. g \in Grant /\ g.worker = Worker(c) /\ g.until = 0
  BY <1>9 DEF Grant
<1>11. /\ grants' \in Seq(Grant) /\ Len(grants') = n + 1 /\ grants'[n + 1] = g
       /\ \A t \in 1 .. n : grants'[t] = grants[t]
  BY <1>1, <1>2, <1>5, <1>9, <1>10, AppendProperties DEF TypeOK
<1>12. SameGrants
  BY <1>2, <1>10, <1>11 DEF SameGrants, Token
<1>13. \A t \in Token : Believes(t)' <=> Believes(t)
  BY <1>2, <1>6, <1>11 DEF Believes, Token
<1>14. Trusting = {}
  BY <1>1, <1>5, BelieverFacts
<1>15. Trusting' = {}
  <2>1. \A t \in Token' : ~ Believes(t)'
    <3>1. \A t \in 1 .. n : ~ Believes(t)'
      BY <1>2, <1>13, <1>14 DEF Trusting, Token
    <3>2. ~ Believes(n + 1)'
      BY <1>6, <1>10, <1>11 DEF Believes
    <3> QED
      BY <1>11, <3>1, <3>2 DEF Token
  <2> QED
    BY <2>1 DEF Trusting
<1>16. PICK put : put = Put(v, n + 1)
  OBVIOUS
<1>17. /\ put.value = v /\ put.tell = n + 1
       /\ <<put>> \in Seq(Write) /\ SnapshotEnds(<<put>>) /\ <<put>>[Len(<<put>>)] = put
  BY <1>8, <1>16, OnePut, MakesWrites
<1>18. Leases(put)'
  <2>1. SameRing(v)'
    BY <1>6, <1>8 DEF SameRing
  <2>2. n + 1 \in Token' /\ n + 1 = Len(grants') /\ n + 1 <= MaxGrants
    BY <1>5, <1>11, CortexAssumption DEF Token
  <2> QED
    BY <1>7, <1>8, <1>10, <1>11, <1>15, <1>17, <2>1, <2>2 DEF Leases
<1> QED
  BY <1>5, <1>12, <1>13, <1>16, <1>17, <1>18, StartKeeps DEF Sound

LEMMA ReleaseStarts ==
    ASSUME Serial, LeaseInv, NEW c \in Caller, NEW t \in Token, releaseLease(c, t)
    PROVE  LeaseInv' /\ Quiet
<1>1. TypeOK /\ LeaseTold /\ OwnerTrusted
  BY DEF LeaseInv
<1>2. GiveUp(t) /\ Start(c, IF HoldsLease(t) THEN <<Put(Unleased, 0)>> ELSE <<>>)
  BY DEF releaseLease
<1>3. /\ SameGrants /\ Token' = Token
      /\ grants'[t].over /\ \A u \in Token : u # t => grants'[u] = grants[u]
  BY <1>1, <1>2, GivingUp
<1>4. envelope' = envelope /\ now' = now
  BY <1>2 DEF Start
<1>5. \A u \in Token : Believes(u)' => Believes(u) /\ u # t
  BY <1>3, <1>4 DEF Believes
<1>6. CASE ~ HoldsLease(t)
  <2>1. <<>> \in Seq(Write) /\ Start(c, <<>>)
    BY <1>2, <1>6
  <2> QED
    BY <1>3, <1>5, <2>1, StartKeeps
<1>7. CASE HoldsLease(t)
  <2>1. PICK put : put = Put(Unleased, 0)
    OBVIOUS
  <2>2. envelope \in Envelope /\ Owner = t
    BY <1>1, <1>7, OwnerFacts DEF HoldsLease
  <2>3. Unleased \in Envelope /\ SameRing(Unleased) /\ Unleased.lease = NoLease
    BY <2>2, EnvelopesMade
  <2>4. /\ put.value = Unleased /\ put.tell = 0
        /\ <<put>> \in Seq(Write) /\ SnapshotEnds(<<put>>) /\ <<put>>[Len(<<put>>)] = put
    BY <2>1, <2>3, OnePut, MakesWrites
  <2>5. Trusting' = {}
    BY <1>1, <1>3, <1>5, <2>2, BelieverFacts DEF Trusting
  <2>6. SameRing(put.value)'
    BY <1>4, <2>3, <2>4 DEF SameRing, Unleased
  <2>7. Clears(put)'
    BY <1>4, <2>3, <2>4, <2>5, <2>6 DEF Clears, Unleased
  <2> QED
    BY <1>2, <1>3, <1>5, <1>7, <2>1, <2>4, <2>7, StartKeeps DEF Sound
<1> QED
  BY <1>6, <1>7

LEMMA RenewStarts ==
    ASSUME Serial, LeaseInv, NEW c \in Caller, NEW t \in Token, NEW ttl \in Ttl,
           renewLease(c, t, ttl)
    PROVE  LeaseInv' /\ Quiet
<1>1. TypeOK /\ LeaseTold /\ OwnerTrusted
  BY DEF LeaseInv
<1>2. /\ envelope # Absent /\ envelope.lease # NoLease /\ envelope.lease.token = t
      /\ grants' = grants
  BY DEF renewLease, HoldsLease
<1>3. /\ envelope \in Envelope /\ Owner = t /\ envelope.lease \in Lease
      /\ grants[t].worker = envelope.lease.worker
  BY <1>1, <1>2, OwnerFacts
<1>4. PICK l : l = LeaseFor(envelope.lease.worker, t, now + ttl)
  OBVIOUS
<1>5. PICK v : v = IF leaseExpired(envelope.lease) THEN Unleased ELSE [envelope EXCEPT !.lease = l]
  OBVIOUS
<1>6. PICK n : n = IF leaseExpired(envelope.lease) THEN 0 ELSE t
  OBVIOUS
<1>7. PICK put : put = Put(v, n)
  OBVIOUS
<1>8. Start(c, <<put>>)
  <2>1. [envelope EXCEPT !.lease = LeaseFor(@.worker, t, now + ttl)] = [envelope EXCEPT !.lease = l]
    BY <1>3, <1>4 DEF Envelope
  <2>2. Start(c, IF leaseExpired(envelope.lease) THEN <<Put(Unleased, 0)>>
                 ELSE <<Put([envelope EXCEPT !.lease = l], t)>>)
    BY <2>1 DEF renewLease
  <2> QED
    BY <1>5, <1>6, <1>7, <2>2
<1>9. envelope' = envelope /\ now' = now /\ now \in Nat /\ ttl \in Nat \ {0} /\ t \in Nat
  BY <1>1, <1>8, GrantTypes, CortexAssumption DEF Start, TypeOK
<1>10. l \in Lease /\ l.worker = envelope.lease.worker /\ l.token = t /\ l.expiresAt > 0 /\ l # NoLease
  <2>1. now + ttl \in Nat /\ now + ttl > 0
    BY <1>9
  <2>2. envelope.lease.worker \in {Worker(d) : d \in Caller}
    BY <1>3 DEF Lease
  <2>3. l \in Lease /\ l.worker = envelope.lease.worker /\ l.token = t /\ l.expiresAt > 0
    BY <1>4, <1>9, <2>1, <2>2 DEF LeaseFor, Lease
  <2> QED
    BY <2>3, AbsenceAssumption
<1>11. /\ v \in Envelope /\ SameRing(v)
       /\ v.lease = IF leaseExpired(envelope.lease) THEN NoLease ELSE l
  BY <1>3, <1>5, <1>10, EnvelopesMade
<1>12. /\ put.value = v /\ put.tell = n
       /\ <<put>> \in Seq(Write) /\ SnapshotEnds(<<put>>) /\ <<put>>[Len(<<put>>)] = put
  <2>1. n \in Nat
    BY <1>6, <1>9
  <2> QED
    BY <1>7, <1>11, <2>1, OnePut, MakesWrites
<1>13. SameGrants /\ (\A u \in Token : Believes(u)' => Believes(u)) /\ Trusting' = Trusting
  BY <1>1, <1>2, <1>9, NoGrantChanges DEF Believes, Trusting, Token
<1>14. SameRing(v)' /\ Token' = Token
  BY <1>2, <1>9, <1>11 DEF SameRing, Token
<1>15. CASE leaseExpired(envelope.lease)
  <2>1. Trusting' = {}
    BY <1>1, <1>13, <1>15, BelieverFacts
  <2>2. Clears(put)'
    BY <1>6, <1>11, <1>12, <1>14, <1>15, <2>1 DEF Clears
  <2> QED
    BY <1>8, <1>12, <1>13, <2>2, StartKeeps DEF Sound
<1>16. CASE ~ leaseExpired(envelope.lease)
  <2>1. Leases(put)'
    BY <1>2, <1>3, <1>6, <1>9, <1>10, <1>11, <1>12, <1>14, <1>16 DEF Leases
  <2> QED
    BY <1>8, <1>12, <1>13, <2>1, StartKeeps DEF Sound
<1> QED
  BY <1>15, <1>16

LEMMA Joined ==
    ASSUME NEW s \in Seq(Write), NEW b \in Write
    PROVE  s \o <<b>> = Append(s, b)
<1>1. <<b>> \in Seq(Write) /\ Len(<<b>>) = 1 /\ <<b>>[1] = b
  OBVIOUS
<1>2. Len(s) \in Nat
  OBVIOUS
<1>3. /\ s \o <<b>> \in Seq(Write) /\ Len(s \o <<b>>) = Len(s) + 1
      /\ \A i \in 1 .. Len(s) + 1 : (s \o <<b>>)[i] = IF i <= Len(s) THEN s[i] ELSE <<b>>[i - Len(s)]
  BY <1>1, ConcatProperties
<1>4. /\ Append(s, b) \in Seq(Write) /\ Len(Append(s, b)) = Len(s) + 1
      /\ \A i \in 1 .. Len(s) : Append(s, b)[i] = s[i]
      /\ Append(s, b)[Len(s) + 1] = b
  BY AppendProperties
<1>5. \A i \in 1 .. Len(s) + 1 : (s \o <<b>>)[i] = Append(s, b)[i]
  BY <1>1, <1>2, <1>3, <1>4
<1> QED
  BY <1>3, <1>4, <1>5, SeqEqual

LEMMA InARow ==
    ASSUME NEW a \in Write, NEW b \in Write, NEW e \in Write
    PROVE  /\ LET s == <<a>> \o <<>> \o <<b>> IN
              s \in Seq(Write) /\ Len(s) = 2 /\ s[1] = a /\ s[2] = b
           /\ LET s == <<a>> \o <<e>> \o <<b>> IN
              s \in Seq(Write) /\ Len(s) = 3 /\ s[1] = a /\ s[2] = e /\ s[3] = b
<1>1. <<a>> \in Seq(Write) /\ Len(<<a>>) = 1 /\ <<a>>[1] = a /\ <<e>> \in Seq(Write)
  OBVIOUS
<1>2. <<a>> \o <<>> = <<a>>
  BY <1>1, ConcatEmptySeq
<1>3. <<a>> \o <<e>> = Append(<<a>>, e) /\ <<a>> \o <<b>> = Append(<<a>>, b)
  BY <1>1, Joined
<1>4. PICK s \in Seq(Write) : s = Append(<<a>>, e)
  BY <1>1, AppendProperties
<1>5. Len(s) = 2 /\ s[1] = a /\ s[2] = e
  BY <1>1, <1>4, AppendProperties
<1>6. s \o <<b>> = Append(s, b)
  BY Joined
<1>7. Append(s, b) \in Seq(Write) /\ Len(Append(s, b)) = 3 /\ Append(s, b)[1] = a
      /\ Append(s, b)[2] = e /\ Append(s, b)[3] = b
  BY <1>5, AppendProperties
<1>8. Append(<<a>>, b) \in Seq(Write) /\ Len(Append(<<a>>, b)) = 2 /\ Append(<<a>>, b)[1] = a
      /\ Append(<<a>>, b)[2] = b
  BY <1>1, AppendProperties
<1> QED
  BY <1>2, <1>3, <1>4, <1>6, <1>7, <1>8

\* The writes of an append: two, or three when the ring is full.
LEMMA AppendWritesAre ==
    ASSUME envelope \in Envelope, NEW t \in Nat
    PROVE  \E k \in Checkpoint : \E put \in Write : \E w \in Seq(Write) :
             /\ k = [sequence |-> envelope.latest + 1, by |-> t]
             /\ w = AppendWrites(Appended(t), k)
             /\ put.kind = "snapshot" /\ put.tell = 0 /\ put.value = Extended(Appended(t), k)
             /\ put.value \in Envelope
             /\ w[1] = Save(k)
             /\ Len(w) = 2 \/ (/\ Len(w) = 3 /\ Len(envelope.checkpoints) > 0
                               /\ Len(envelope.checkpoints) >= Ring
                               /\ envelope.checkpoints[1] \in Checkpoint
                               /\ w[2] = Evict(envelope.checkpoints[1]))
             /\ SnapshotEnds(w) /\ Len(w) > 0 /\ w[Len(w)] = put
<1>1. /\ envelope.checkpoints \in Seq(Checkpoint) /\ envelope.latest \in Nat
      /\ Len(envelope.checkpoints) \in Nat
      /\ \A i \in 1 .. Len(envelope.checkpoints) : envelope.checkpoints[i] \in Checkpoint
  BY EnvelopeTypes
<1>2. PICK k \in Checkpoint : k = [sequence |-> envelope.latest + 1, by |-> t]
  <2>1. envelope.latest + 1 \in Nat
    BY <1>1
  <2>2. [sequence |-> envelope.latest + 1, by |-> t] \in Checkpoint
    BY <2>1 DEF Checkpoint
  <2> QED
    BY <2>2
<1>3. PICK ring : ring = Append(envelope.checkpoints, k)
  OBVIOUS
<1>4. Appended(t) = ring
  BY <1>2, <1>3 DEF Appended
<1>5. PICK n \in {0, 1} :
        /\ Kept(ring) \in Seq(Checkpoint) /\ n <= Len(envelope.checkpoints)
        /\ Evictions(ring) = IF n = 0 THEN <<>> ELSE <<Evict(envelope.checkpoints[1])>>
        /\ n = 1 => Len(envelope.checkpoints) >= Ring
  BY <1>1, <1>3, KeptFacts
<1>6. PICK v : v = Extended(ring, k)
  OBVIOUS
<1>7. v \in Envelope
  <2>1. k.sequence \in Nat
    BY DEF Checkpoint
  <2> QED
    BY <1>5, <1>6, <2>1 DEF Extended, Envelope
<1>8. PICK put \in Write : put = Put(v, 0) /\ put.kind = "snapshot" /\ put.tell = 0 /\ put.value = v
  BY <1>7, MakesWrites
<1>9. PICK w : w = AppendWrites(ring, k)
  OBVIOUS
<1>10. w = <<Save(k)>> \o Evictions(ring) \o <<put>>
  BY <1>6, <1>8, <1>9 DEF AppendWrites
<1>11. put.value = Extended(Appended(t), k) /\ w = AppendWrites(Appended(t), k)
  BY <1>4, <1>6, <1>8, <1>9
<1>12. Save(k) \in Write /\ Save(k).kind = "checkpoint"
  BY MakesWrites
<1>13. CASE n = 0
  <2>1. w \in Seq(Write) /\ Len(w) = 2 /\ w[1] = Save(k) /\ w[2] = put
    BY <1>5, <1>10, <1>12, <1>13, InARow
  <2>2. SnapshotEnds(w)
    BY <1>8, <1>12, <2>1 DEF SnapshotEnds
  <2> QED
    BY <1>2, <1>7, <1>8, <1>11, <2>1, <2>2
<1>14. CASE n = 1
  <2>1. /\ envelope.checkpoints[1] \in Checkpoint /\ Len(envelope.checkpoints) > 0
        /\ Len(envelope.checkpoints) >= Ring
    BY <1>1, <1>5, <1>14
  <2>2. PICK e \in Write : e = Evict(envelope.checkpoints[1]) /\ e.kind = "evict"
    BY <2>1, MakesWrites
  <2>3. w = <<Save(k)>> \o <<e>> \o <<put>>
    BY <1>5, <1>10, <1>14, <2>2
  <2>4. w \in Seq(Write) /\ Len(w) = 3 /\ w[1] = Save(k) /\ w[2] = e /\ w[3] = put
    BY <1>12, <2>3, InARow
  <2>5. SnapshotEnds(w)
    BY <1>8, <1>12, <2>2, <2>4 DEF SnapshotEnds
  <2> QED
    BY <1>2, <1>7, <1>8, <1>11, <2>1, <2>2, <2>4, <2>5
<1> QED
  BY <1>5, <1>13, <1>14

LEMMA AppendStarts ==
    ASSUME Serial, LeaseInv, NEW c \in Caller, NEW t \in Token, appendCheckpoint(c, t)
    PROVE  LeaseInv' /\ Quiet
<1>1. TypeOK /\ LeaseTold
  BY DEF LeaseInv
<1>2. /\ envelope # Absent /\ envelope.lease # NoLease /\ envelope.lease.token = t
      /\ grants' = grants
      /\ Start(c, AppendWrites(Appended(t), [sequence |-> envelope.latest + 1, by |-> t]))
  BY DEF appendCheckpoint, HoldsLease
<1>3. envelope \in Envelope /\ t \in Nat
  BY <1>1, <1>2, GrantTypes DEF TypeOK
<1>4. PICK k \in Checkpoint, put \in Write, w \in Seq(Write) :
        /\ k = [sequence |-> envelope.latest + 1, by |-> t]
        /\ w = AppendWrites(Appended(t), k)
        /\ put.tell = 0 /\ put.value = Extended(Appended(t), k)
        /\ SnapshotEnds(w) /\ Len(w) > 0 /\ w[Len(w)] = put
  BY <1>3, AppendWritesAre
<1>5. Start(c, w)
  BY <1>2, <1>4
<1>6. envelope' = envelope /\ now' = now
  BY <1>5 DEF Start
<1>7. Adds(put)
  BY <1>2, <1>4 DEF Adds
<1>8. Trusting' = Trusting
  BY <1>2, <1>6 DEF Trusting, Believes, Token
<1>9. Sound(put)'
  BY <1>2, <1>6, <1>7, <1>8, SoundStays DEF Sound
<1>10. SameGrants /\ \A u \in Token : Believes(u)' => Believes(u)
  BY <1>1, <1>2, <1>6, NoGrantChanges DEF Believes
<1> QED
  BY <1>4, <1>5, <1>9, <1>10, StartKeeps

\* finalize and destroy take the session from its holder, who knows.
LEMMA RevokeFacts ==
    ASSUME TypeOK, LeaseTold, OwnerTrusted, envelope # Absent, Revoke,
           envelope' = envelope, now' = now
    PROVE  /\ SameGrants /\ Trusting' = {}
           /\ \A u \in Token : Believes(u)' => Believes(u)
<1>1. CASE envelope.lease = NoLease
  <2>1. grants' = grants
    BY <1>1 DEF Revoke
  <2>2. Trusting = {}
    BY <1>1, BelieverFacts
  <2> QED
    BY <2>1, <2>2, NoGrantChanges DEF Believes, Trusting, Token
<1>2. CASE envelope.lease # NoLease
  <2>1. PICK t \in Token : t = envelope.lease.token /\ t = Owner
    BY <1>2, OwnerFacts
  <2>2. GiveUp(t)
    BY <1>2, <2>1 DEF Revoke
  <2>3. /\ SameGrants /\ Token' = Token
        /\ grants'[t].over /\ \A u \in Token : u # t => grants'[u] = grants[u]
    BY <2>2, GivingUp
  <2>4. \A u \in Token : Believes(u)' => Believes(u) /\ u # t
    BY <2>3 DEF Believes
  <2>5. Trusting' = {}
    BY <2>1, <2>3, <2>4, BelieverFacts DEF Trusting
  <2> QED
    BY <2>3, <2>4, <2>5
<1> QED
  BY <1>1, <1>2

LEMMA FinalizeStarts ==
    ASSUME Serial, LeaseInv, NEW c \in Caller, NEW s \in Status, finalize(c, s)
    PROVE  LeaseInv' /\ Quiet
<1>1. TypeOK /\ LeaseTold /\ OwnerTrusted
  BY DEF LeaseInv
<1> PICK v : v = [Unleased EXCEPT !.status = s]
  OBVIOUS
<1> PICK put : put = Put(v, 0)
  OBVIOUS
<1>2. envelope # Absent /\ Start(c, <<put>>) /\ Revoke
  BY DEF finalize
<1>3. envelope' = envelope /\ now' = now /\ envelope \in Envelope
  BY <1>1, <1>2 DEF Start, TypeOK
<1>4. v \in Envelope /\ SameRing(v) /\ v.lease = NoLease
  BY <1>3, EnvelopesMade
<1>5. /\ put.value = v /\ put.tell = 0
      /\ <<put>> \in Seq(Write) /\ SnapshotEnds(<<put>>) /\ <<put>>[Len(<<put>>)] = put
  BY <1>4, OnePut, MakesWrites
<1>6. SameGrants /\ Trusting' = {} /\ \A u \in Token : Believes(u)' => Believes(u)
  BY <1>1, <1>2, <1>3, RevokeFacts
<1>7. SameRing(v)'
  BY <1>3, <1>4 DEF SameRing
<1>8. Clears(put)'
  BY <1>4, <1>5, <1>6, <1>7 DEF Clears
<1> QED
  BY <1>2, <1>5, <1>6, <1>8, StartKeeps DEF Sound

\* The writes of a destroy: the ring's checkpoints in their order, and the envelope.
LEMMA DestroyWritesAre ==
    ASSUME envelope \in Envelope
    PROVE  \E w \in Seq(Write) : LET ring == envelope.checkpoints IN
             /\ w = [i \in 1 .. Len(ring) |-> Drop(ring[i])] \o <<Put(Absent, 0)>>
             /\ Len(w) = Len(ring) + 1 /\ Len(ring) \in Nat
             /\ \A i \in 1 .. Len(ring) : w[i] = Drop(ring[i])
             /\ w[Len(w)] = Put(Absent, 0)
             /\ SnapshotEnds(w)
<1>1. PICK ring \in Seq(Checkpoint) : ring = envelope.checkpoints
  BY EnvelopeTypes
<1>2. Len(ring) \in Nat /\ \A i \in 1 .. Len(ring) : ring[i] \in Checkpoint
  OBVIOUS
<1>3. PICK drops : drops = [i \in 1 .. Len(ring) |-> Drop(ring[i])]
  OBVIOUS
<1>4. \A i \in 1 .. Len(ring) : drops[i] = Drop(ring[i]) /\ drops[i] \in Write /\ drops[i].kind = "drop"
  BY <1>2, <1>3, MakesWrites
<1>5. drops \in Seq(Write) /\ Len(drops) = Len(ring)
  BY <1>2, <1>3, <1>4
<1>6. PICK put \in Write : put = Put(Absent, 0) /\ put.kind = "snapshot"
  <2>1. Put(Absent, 0) \in Write /\ Put(Absent, 0).kind = "snapshot"
    BY DEF Put, Write
  <2> QED
    BY <2>1
<1>7. <<put>> \in Seq(Write) /\ Len(<<put>>) = 1 /\ <<put>>[1] = put
  OBVIOUS
<1>8. PICK w : w = drops \o <<put>>
  OBVIOUS
<1>9. /\ w \in Seq(Write) /\ Len(w) = Len(ring) + 1
      /\ \A i \in 1 .. Len(ring) + 1 : w[i] = IF i <= Len(ring) THEN drops[i] ELSE <<put>>[i - Len(ring)]
  BY <1>5, <1>7, <1>8, ConcatProperties
<1>10. w[Len(ring) + 1] = put /\ \A i \in 1 .. Len(ring) : w[i] = drops[i]
  BY <1>2, <1>7, <1>9
<1>11. SnapshotEnds(w)
  BY <1>2, <1>4, <1>6, <1>9, <1>10 DEF SnapshotEnds
<1> QED
  BY <1>1, <1>2, <1>3, <1>4, <1>6, <1>8, <1>9, <1>10, <1>11

LEMMA DestroyStarts ==
    ASSUME Serial, LeaseInv, NEW c \in Caller, destroy(c)
    PROVE  LeaseInv' /\ Quiet
<1>1. TypeOK /\ LeaseTold /\ OwnerTrusted
  BY DEF LeaseInv
<1>2. envelope # Absent /\ Revoke /\ envelope \in Envelope
  BY <1>1 DEF destroy, TypeOK
<1>3. PICK w \in Seq(Write) :
        /\ w = [i \in 1 .. Len(envelope.checkpoints) |-> Drop(envelope.checkpoints[i])]
                 \o <<Put(Absent, 0)>>
        /\ w[Len(w)] = Put(Absent, 0) /\ SnapshotEnds(w)
  BY <1>2, DestroyWritesAre
<1>4. Start(c, w)
  BY <1>3 DEF destroy
<1>5. envelope' = envelope /\ now' = now
  BY <1>4 DEF Start
<1>6. SameGrants /\ Trusting' = {} /\ \A u \in Token : Believes(u)' => Believes(u)
  BY <1>1, <1>2, <1>5, RevokeFacts
<1>7. PICK put : put = Put(Absent, 0)
  OBVIOUS
<1>8. Clears(put)'
  BY <1>6, <1>7 DEF Clears, Put
<1> QED
  BY <1>3, <1>4, <1>6, <1>7, <1>8, StartKeeps DEF Sound

-----------------------------------------------------------------------------
(* Calls go on. *)

\* A resume that finds its worker's lease alive tells the holder once more.
LEMMA RefetchTells ==
    ASSUME Serial, LeaseInv, NEW c \in Caller, resumeRefetch(c)
    PROVE  /\ LeaseInv'
           /\ Owner # 0 /\ Owner' = Owner /\ Issued' = Issued /\ Newest' = Newest
           /\ Trusting' = Trusting \cup {Owner}
<1>1. TypeOK /\ OneCall /\ LeaseTold /\ OwnerTrusted /\ TokensInOrder /\ RingInOrder
  BY DEF LeaseInv
<1>2. /\ envelope # Absent /\ envelope.lease # NoLease
      /\ ~ leaseExpired(envelope.lease) /\ envelope.lease.worker = Worker(c)
      /\ envelope' = envelope /\ stored' = stored /\ now' = now /\ call' = call
      /\ \A d \in Caller : call[d] = <<>>
  BY DEF resumeRefetch
<1>3. PICK t \in Token : t = envelope.lease.token
  BY <1>1, <1>2, OwnerFacts
<1>4. /\ Owner = t /\ Owner # 0 /\ envelope.lease.expiresAt \in Nat
      /\ grants[t].worker = Worker(c) /\ grants[t].until = envelope.lease.expiresAt
  BY <1>1, <1>2, <1>3, OwnerFacts
<1>5. PICK g : g = [worker |-> Worker(c), until |-> envelope.lease.expiresAt, over |-> FALSE]
  OBVIOUS
<1>6. g \in Grant /\ g.worker = grants[t].worker /\ g.until = grants[t].until /\ ~ g.over
  BY <1>4, <1>5 DEF Grant
<1>7. grants' = [grants EXCEPT ![t] = g] /\ grants \in Seq(Grant)
  BY <1>1, <1>3, <1>5 DEF resumeRefetch, TypeOK
<1>8. /\ grants' \in Seq(Grant) /\ Len(grants') = Len(grants) /\ Len(grants) \in Nat
      /\ \A u \in Token : grants'[u] = IF u = t THEN g ELSE grants[u]
  BY <1>6, <1>7, ExceptSeq, LenProperties DEF Token
<1>9. SameGrants /\ Token' = Token
  BY <1>6, <1>8 DEF SameGrants, Token
<1>10. \A u \in Token : u # t => (Believes(u)' <=> Believes(u))
  BY <1>2, <1>8 DEF Believes
<1>11. Believes(t)' /\ HoldsLease(t)
  <2>1. now < grants'[t].until /\ ~ grants'[t].over
    BY <1>1, <1>2, <1>4, <1>6, <1>8 DEF leaseExpired, TypeOK
  <2> QED
    BY <1>2, <1>3, <2>1 DEF Believes, HoldsLease
<1>12. now' \in Nat /\ now <= now'
  BY <1>1, <1>2 DEF TypeOK
<1>13. /\ Issued' = Issued /\ Owner' = Owner /\ Newest' = Newest
       /\ LeaseTold' /\ OwnerTrusted' /\ TokensInOrder'
       /\ Trusting' = {u \in Token : Believes(u)'}
  BY <1>1, <1>2, <1>9, <1>10, <1>11, <1>12, SameLeases
<1>14. Trusting' = Trusting \cup {Owner}
  BY <1>4, <1>10, <1>11, <1>13 DEF Trusting
<1>15. TypeOK' /\ RingInOrder'
  BY <1>1, <1>2, <1>8 DEF TypeOK, RingInOrder
<1>16. OneCall' /\ SnapshotLast' /\ PutSound'
  BY <1>2 DEF OneCall, SnapshotLast, PutSound
<1> QED
  BY <1>4, <1>13, <1>14, <1>15, <1>16 DEF LeaseInv

\* The first write of the only call under way.
LEMMA PerformFacts ==
    ASSUME LeaseInv, NEW c \in Caller, call[c] # <<>>
    PROVE  \E w \in Seq(Write) :
             /\ w = call[c] /\ Len(w) \in Nat \ {0} /\ Head(w) = w[1] /\ w[1] \in Write
             /\ w[Len(w)] \in Write
             /\ \A d \in Caller : d # c => call[d] = <<>>
             /\ SnapshotEnds(w) /\ (w[1].kind = "snapshot" <=> Len(w) = 1)
             /\ Sound(w[Len(w)])
             /\ Tail(w) \in Seq(Write) /\ Len(Tail(w)) = Len(w) - 1
             /\ \A i \in 1 .. Len(w) - 1 : Tail(w)[i] = w[i + 1]
<1>1. PICK w \in Seq(Write) : w = call[c] /\ w # <<>>
  BY DEF LeaseInv, TypeOK
<1>2. Len(w) \in Nat \ {0} /\ Head(w) = w[1] /\ w[1] \in Write /\ w[Len(w)] \in Write
  BY <1>1
<1>3. /\ Tail(w) \in Seq(Write) /\ Len(Tail(w)) = Len(w) - 1
      /\ \A i \in 1 .. Len(w) - 1 : Tail(w)[i] = w[i + 1]
  BY <1>1, HeadTailProperties
<1>4. SnapshotEnds(w)
  BY <1>1 DEF LeaseInv, SnapshotLast, SnapshotEnds
<1>5. w[1].kind = "snapshot" <=> Len(w) = 1
  <2>1. 1 \in 1 .. Len(w)
    BY <1>2
  <2>2. w[1].kind = "snapshot" <=> 1 = Len(w)
    BY <1>4, <2>1 DEF SnapshotEnds
  <2> QED
    BY <2>2
<1>6. Sound(w[Len(w)])
  BY <1>1 DEF LeaseInv, PutSound, Sound
<1>7. \A d \in Caller : d # c => call[d] = <<>>
  BY <1>1 DEF LeaseInv, OneCall
<1> QED
  BY <1>1, <1>2, <1>3, <1>4, <1>5, <1>6, <1>7

\* The contract's variables do not change.
Stays == Owner' = Owner /\ Issued' = Issued /\ Newest' = Newest /\ Trusting' = Trusting

LEMMA SameState ==
    ASSUME envelope' = envelope, grants' = grants, now' = now
    PROVE  Stays /\ Token' = Token
<1>1. Token' = Token
  BY DEF Token
<1>2. Told' = Told
  BY <1>1 DEF Told
<1>3. Trusting' = Trusting
  BY <1>1 DEF Trusting, Believes
<1> QED
  BY <1>1, <1>2, <1>3 DEF Stays, Owner, Issued, Newest

\* Whatever happens to the storage of checkpoints, a call that goes on is as sound
\* as it was.
LEMMA GoesOn ==
    ASSUME LeaseInv, NEW c \in Caller, call[c] # <<>>,
           envelope' = envelope, grants' = grants, now' = now,
           call' = [call EXCEPT ![c] = Tail(@)] \/ call' = [call EXCEPT ![c] = <<>>],
           DOMAIN stored' \subseteq Nat, stored' \in [DOMAIN stored' -> Checkpoint]
    PROVE  LeaseInv' /\ Stays
<1>1. PICK w \in Seq(Write) :
        /\ w = call[c] /\ Len(w) \in Nat \ {0}
        /\ \A d \in Caller : d # c => call[d] = <<>>
        /\ SnapshotEnds(w) /\ Sound(w[Len(w)])
        /\ Tail(w) \in Seq(Write) /\ Len(Tail(w)) = Len(w) - 1
        /\ \A i \in 1 .. Len(w) - 1 : Tail(w)[i] = w[i + 1]
  BY PerformFacts
<1>2. PICK rest : rest = IF call' = [call EXCEPT ![c] = Tail(@)] THEN Tail(w) ELSE <<>>
  OBVIOUS
<1>3. rest \in Seq(Write) /\ call \in [Caller -> Seq(Write)]
  BY <1>1, <1>2 DEF LeaseInv, TypeOK
<1>4. call' = [call EXCEPT ![c] = rest]
  BY <1>1, <1>2
<1>5. /\ call' \in [Caller -> Seq(Write)]
      /\ \A d \in Caller : call'[d] = IF d = c THEN rest ELSE <<>>
  BY <1>1, <1>3, <1>4
<1>6. rest # <<>> => /\ Len(rest) = Len(w) - 1 /\ Len(rest) \in Nat \ {0}
                     /\ \A i \in 1 .. Len(rest) : rest[i] = w[i + 1]
                     /\ rest[Len(rest)] = w[Len(w)]
  <2> SUFFICES ASSUME rest # <<>>
               PROVE  /\ Len(rest) = Len(w) - 1 /\ Len(rest) \in Nat \ {0}
                      /\ \A i \in 1 .. Len(rest) : rest[i] = w[i + 1]
                      /\ rest[Len(rest)] = w[Len(w)]
    OBVIOUS
  <2>1. rest = Tail(w)
    BY <1>2
  <2>2. Len(rest) \in Nat \ {0}
    BY <1>3
  <2>3. Len(rest) = Len(w) - 1 /\ \A i \in 1 .. Len(rest) : rest[i] = w[i + 1]
    BY <1>1, <2>1
  <2>4. Len(rest) \in 1 .. Len(rest) /\ Len(rest) + 1 = Len(w)
    BY <1>1, <2>2, <2>3
  <2> QED
    BY <2>2, <2>3, <2>4
<1>7. Stays /\ Token' = Token
  BY SameState
<1>8. TypeOK'
  BY <1>5 DEF LeaseInv, TypeOK
<1>9. OneCall'
  BY <1>5 DEF OneCall
<1>10. rest # <<>> => SnapshotEnds(rest)
  <2> SUFFICES ASSUME rest # <<>>, NEW i \in 1 .. Len(rest)
               PROVE  rest[i].kind = "snapshot" <=> i = Len(rest)
    BY DEF SnapshotEnds
  <2>1. /\ rest[i] = w[i + 1] /\ i + 1 \in 1 .. Len(w) /\ i \in Nat
        /\ Len(w) = Len(rest) + 1 /\ Len(rest) \in Nat
    BY <1>1, <1>6
  <2>2. w[i + 1].kind = "snapshot" <=> i + 1 = Len(w)
    BY <1>1, <2>1 DEF SnapshotEnds
  <2>3. i + 1 = Len(w) <=> i = Len(rest)
    BY <2>1
  <2> QED
    BY <2>1, <2>2, <2>3
<1>11. SnapshotLast'
  <2>1. \A d \in Caller : call'[d] = <<>> \/ SnapshotEnds(call'[d])
    BY <1>5, <1>10
  <2> QED
    BY <2>1 DEF SnapshotLast, SnapshotEnds
<1>12. PutSound'
  <2> SUFFICES ASSUME NEW d \in Caller, call'[d] # <<>>
               PROVE  (LET put == call[d][Len(call[d])] IN
                       Creates(put) \/ Clears(put) \/ Leases(put) \/ Adds(put))'
    BY DEF PutSound
  <2>1. PICK put : put = w[Len(w)]
    OBVIOUS
  <2>2. call'[d] = rest /\ rest[Len(rest)] = put
    BY <1>5, <1>6, <2>1
  <2>3. Sound(put)'
    BY <1>1, <1>7, <2>1, SoundStays DEF Stays
  <2> QED
    BY <2>2, <2>3 DEF Sound
<1>13. RingInOrder' /\ LeaseTold' /\ OwnerTrusted' /\ TokensInOrder'
  <2>1. Told' = Told
    BY <1>7 DEF Told
  <2> QED
    BY <1>7, <2>1
       DEF LeaseInv, RingInOrder, LeaseTold, OwnerTrusted, TokensInOrder, HoldsLease, Believes
<1> QED
  BY <1>7, <1>8, <1>9, <1>11, <1>12, <1>13 DEF LeaseInv

LEMMA CheckpointSaved ==
    ASSUME LeaseInv, NEW c \in Caller, Perform(c), putCheckpoint(c)
    PROVE  LeaseInv' /\ Stays
<1>1. PICK w \in Seq(Write) : w = call[c] /\ Head(w) = w[1] /\ w[1] \in Write
  BY PerformFacts DEF Perform
<1>2. PICK k \in Checkpoint : k = w[1].value
  BY <1>1, WriteTypes DEF putCheckpoint
<1>3. /\ envelope' = envelope /\ grants' = grants /\ now' = now
      /\ call' = [call EXCEPT ![c] = Tail(@)] /\ call[c] # <<>>
      /\ stored' = [j \in DOMAIN stored \cup {k.sequence} |->
                      IF j = k.sequence THEN k ELSE stored[j]]
  BY <1>1, <1>2 DEF Perform, putCheckpoint
<1>4. DOMAIN stored \subseteq Nat /\ \A j \in DOMAIN stored : stored[j] \in Checkpoint
  BY DEF LeaseInv, TypeOK
<1>5. k.sequence \in Nat
  BY DEF Checkpoint
<1>6. DOMAIN stored' = DOMAIN stored \cup {k.sequence}
  BY <1>3
<1>7. DOMAIN stored' \subseteq Nat /\ stored' \in [DOMAIN stored' -> Checkpoint]
  BY <1>3, <1>4, <1>5, <1>6
<1> QED
  BY <1>3, <1>7, GoesOn

LEMMA CheckpointEvicted ==
    ASSUME LeaseInv, NEW c \in Caller, Perform(c), evict(c) \/ drop(c)
    PROVE  LeaseInv' /\ Stays
<1>1. PICK key : key = Head(call[c]).value
  OBVIOUS
<1>2. /\ envelope' = envelope /\ grants' = grants /\ now' = now
      /\ call' = [call EXCEPT ![c] = Tail(@)] /\ call[c] # <<>>
      /\ stored' = stored \/ stored' = [j \in DOMAIN stored \ {key} |-> stored[j]]
  BY <1>1 DEF Perform, evict, drop
<1>3. /\ DOMAIN stored \subseteq Nat /\ stored \in [DOMAIN stored -> Checkpoint]
      /\ \A j \in DOMAIN stored : stored[j] \in Checkpoint
  BY DEF LeaseInv, TypeOK
<1>4. ASSUME stored' = [j \in DOMAIN stored \ {key} |-> stored[j]]
      PROVE  DOMAIN stored' \subseteq Nat /\ stored' \in [DOMAIN stored' -> Checkpoint]
  <2>1. DOMAIN stored' = DOMAIN stored \ {key}
    BY <1>4
  <2> QED
    BY <1>3, <1>4, <2>1
<1>5. DOMAIN stored' \subseteq Nat /\ stored' \in [DOMAIN stored' -> Checkpoint]
  BY <1>2, <1>3, <1>4
<1> QED
  BY <1>2, <1>5, GoesOn

LEMMA CrashEnds ==
    ASSUME LeaseInv, NEW c \in Caller, Crash(c)
    PROVE  LeaseInv' /\ Stays
<1>1. DOMAIN stored' \subseteq Nat /\ stored' \in [DOMAIN stored' -> Checkpoint]
  BY DEF Crash, LeaseInv, TypeOK
<1> QED
  BY <1>1, GoesOn DEF Crash

\* The clock goes on.
LEMMA Ticks ==
    ASSUME LeaseInv, Tick
    PROVE  LeaseInv' /\ Quiet
<1>1. TypeOK /\ OneCall /\ SnapshotLast /\ LeaseTold /\ OwnerTrusted /\ TokensInOrder
      /\ RingInOrder /\ PutSound
  BY DEF LeaseInv
<1>2. /\ envelope' = envelope /\ stored' = stored /\ grants' = grants /\ call' = call
      /\ now \in Nat /\ now' \in Nat /\ now <= now'
  BY <1>1 DEF Tick, TypeOK
<1>3. SameGrants
  BY <1>1, <1>2, NoGrantChanges
<1>4. \A t \in Token : Believes(t)' => Believes(t)
  <2> SUFFICES ASSUME NEW t \in Token, Believes(t)' PROVE Believes(t)
    OBVIOUS
  <2>1. grants[t].until \in Nat
    BY <1>1, GrantTypes
  <2>2. now' < grants[t].until /\ ~ grants[t].over
    BY <1>2 DEF Believes
  <2> QED
    BY <1>2, <2>1, <2>2 DEF Believes
<1>5. /\ Issued' = Issued /\ Owner' = Owner /\ Newest' = Newest
      /\ LeaseTold' /\ OwnerTrusted' /\ TokensInOrder'
      /\ Trusting' = {t \in Token : Believes(t)'}
  BY <1>1, <1>2, <1>3, <1>4, SameLeases
<1>6. Trusting' \subseteq Trusting
  BY <1>4, <1>5 DEF Trusting
<1>7. TypeOK' /\ OneCall' /\ SnapshotLast' /\ RingInOrder'
  BY <1>1, <1>2 DEF TypeOK, OneCall, SnapshotLast, RingInOrder
<1>8. PutSound'
  <2> SUFFICES ASSUME NEW c \in Caller, call[c] # <<>>
               PROVE  (LET put == call[c][Len(call[c])] IN
                       Creates(put) \/ Clears(put) \/ Leases(put) \/ Adds(put))'
    BY <1>2 DEF PutSound
  <2>1. PICK put : put = call[c][Len(call[c])]
    OBVIOUS
  <2>2. Sound(put)
    BY <1>1, <2>1 DEF PutSound, Sound
  <2>3. Sound(put)'
    BY <1>2, <1>6, <2>2, SoundStays
  <2> QED
    BY <1>2, <2>1, <2>3 DEF Sound
<1> QED
  BY <1>5, <1>6, <1>7, <1>8 DEF LeaseInv, Quiet

-----------------------------------------------------------------------------
(* The put that ends a call. *)

LEMMA PutFacts ==
    ASSUME LeaseInv, NEW c \in Caller, Perform(c), putSnapshot(c)
    PROVE  \E put \in Write :
             /\ put = call[c][Len(call[c])]
             /\ put.kind = "snapshot" /\ Sound(put)
             /\ put.value \in Envelope \cup {Absent} /\ put.tell \in Nat
             /\ envelope' = put.value /\ stored' = stored /\ now' = now
             /\ grants' = IF put.tell = 0 THEN grants
                          ELSE [grants EXCEPT ![put.tell] =
                                  [worker |-> grants[put.tell].worker,
                                   until |-> put.value.lease.expiresAt,
                                   over |-> grants[put.tell].over]]
             /\ call' \in [Caller -> Seq(Write)]
             /\ \A d \in Caller : call'[d] = <<>>
<1>1. PICK w \in Seq(Write) :
        /\ w = call[c] /\ Len(w) \in Nat \ {0} /\ Head(w) = w[1] /\ w[1] \in Write
        /\ \A d \in Caller : d # c => call[d] = <<>>
        /\ (w[1].kind = "snapshot" <=> Len(w) = 1)
        /\ Sound(w[Len(w)])
        /\ Tail(w) \in Seq(Write) /\ Len(Tail(w)) = Len(w) - 1
  BY PerformFacts DEF Perform
<1>2. PICK put \in Write : put = w[1]
  BY <1>1
<1>3. put.kind = "snapshot" /\ put = Head(call[c])
  BY <1>1, <1>2 DEF putSnapshot
<1>4. Len(w) = 1 /\ put = w[Len(w)]
  BY <1>1, <1>2, <1>3
<1>5. Tail(w) = <<>>
  <2>1. Tail(w) \in Seq(Write) /\ Len(Tail(w)) = 0
    BY <1>1, <1>4
  <2> QED
    BY <2>1, EmptySeq
<1>6. call' = [call EXCEPT ![c] = <<>>] /\ call \in [Caller -> Seq(Write)]
  BY <1>1, <1>5 DEF Perform, LeaseInv, TypeOK
<1>7. /\ call' \in [Caller -> Seq(Write)]
      /\ \A d \in Caller : call'[d] = <<>>
  BY <1>1, <1>6
<1>8. /\ envelope' = put.value /\ stored' = stored /\ now' = now
      /\ grants' = IF put.tell = 0 THEN grants
                   ELSE [grants EXCEPT ![put.tell] =
                           [worker |-> grants[put.tell].worker,
                            until |-> put.value.lease.expiresAt,
                            over |-> grants[put.tell].over]]
  BY <1>3 DEF Perform, putSnapshot
<1> QED
  BY <1>1, <1>2, <1>3, <1>4, <1>7, <1>8, WriteTypes

\* Between calls only the envelope and the grants are left to look at.
LEMMA AtRest ==
    ASSUME LeaseInv, envelope' \in Envelope \cup {Absent}, grants' \in Seq(Grant),
           stored' = stored, now' = now,
           call' \in [Caller -> Seq(Write)], \A d \in Caller : call'[d] = <<>>,
           LeaseTold', OwnerTrusted', TokensInOrder', RingInOrder'
    PROVE  LeaseInv'
<1>1. TypeOK'
  BY DEF LeaseInv, TypeOK
<1>2. OneCall' /\ PutSound'
  BY DEF OneCall, PutSound
<1>3. SnapshotLast'
  <2>1. Len(<<>>) = 0
    OBVIOUS
  <2>2. \A d \in Caller : \A i \in 1 .. Len(call'[d]) : FALSE
    BY <2>1
  <2> QED
    BY <2>2 DEF SnapshotLast
<1> QED
  BY <1>1, <1>2, <1>3 DEF LeaseInv

LEMMA NobodyBelieves ==
    ASSUME TypeOK, LeaseTold, OwnerTrusted, envelope = Absent \/ envelope.lease = NoLease
    PROVE  Trusting = {} /\ Owner = 0
<1>1. Trusting = {}
  BY BelieverFacts
<1> QED
  BY <1>1 DEF Owner

\* A session without a lease and with callers who know what they knew.
LEMMA Unowned ==
    ASSUME LeaseInv, Trusting = {}, grants' = grants, now' = now,
           envelope' = Absent \/ envelope'.lease = NoLease
    PROVE  /\ LeaseTold' /\ OwnerTrusted' /\ TokensInOrder'
           /\ Owner' = 0 /\ Issued' = Issued /\ Trusting' = {}
<1>1. Token' = Token
  BY DEF Token
<1>2. Told' = Told
  BY <1>1 DEF Told
<1>3. Trusting' = Trusting
  BY <1>1 DEF Trusting, Believes
<1>4. \A t \in Token' : ~ Believes(t)'
  BY <1>3 DEF Trusting
<1>5. OwnerTrusted'
  BY <1>4 DEF OwnerTrusted
<1>6. LeaseTold' /\ Owner' = 0
  BY DEF LeaseTold, Owner
<1>7. TokensInOrder' /\ Issued' = Issued
  BY <1>2 DEF LeaseInv, TokensInOrder, Issued
<1> QED
  BY <1>3, <1>5, <1>6, <1>7

LEMMA RingStays ==
    ASSUME RingInOrder, NEW v, SameRing(v), envelope' = v
    PROVE  RingInOrder' /\ Newest' = Newest
<1>1. /\ envelope # Absent /\ envelope' # Absent
      /\ envelope'.latest = envelope.latest /\ envelope'.checkpoints = envelope.checkpoints
  BY DEF SameRing
<1> QED
  BY <1>1 DEF RingInOrder, Newest

LEMMA CreateEnds ==
    ASSUME LeaseInv, NEW c \in Caller, Perform(c), putSnapshot(c),
           Creates(call[c][Len(call[c])])
    PROVE  LeaseInv' /\ Stays
<1>1. TypeOK /\ LeaseTold /\ OwnerTrusted
  BY DEF LeaseInv
<1>2. /\ envelope = Absent /\ envelope' = NewEnvelope /\ grants' = grants /\ now' = now
      /\ stored' = stored /\ call' \in [Caller -> Seq(Write)] /\ \A d \in Caller : call'[d] = <<>>
  BY PutFacts DEF Creates
<1>3. Trusting = {} /\ Owner = 0
  BY <1>1, <1>2, NobodyBelieves
<1>4. /\ LeaseTold' /\ OwnerTrusted' /\ TokensInOrder'
      /\ Owner' = 0 /\ Issued' = Issued /\ Trusting' = {}
  BY <1>2, <1>3, NewEnvelopeType, Unowned
<1>5. RingInOrder'
  BY <1>2, NewEnvelopeType DEF RingInOrder
<1>6. Newest' = Newest
  BY <1>2, NewEnvelopeType DEF Newest
<1>7. envelope' \in Envelope \cup {Absent} /\ grants' \in Seq(Grant)
  BY <1>1, <1>2, NewEnvelopeType DEF TypeOK
<1>8. LeaseInv'
  BY <1>2, <1>4, <1>5, <1>7, AtRest
<1> QED
  BY <1>3, <1>4, <1>6, <1>8 DEF Stays

LEMMA ClearEnds ==
    ASSUME LeaseInv, NEW c \in Caller, Perform(c), putSnapshot(c),
           Clears(call[c][Len(call[c])])
    PROVE  /\ LeaseInv' /\ Owner' = 0 /\ Issued' = Issued /\ Trusting' = {}
           /\ Newest' = Newest \/ Newest' = [sequence |-> 0, by |-> 0]
<1>1. TypeOK /\ LeaseTold /\ OwnerTrusted /\ RingInOrder
  BY DEF LeaseInv
<1>2. PICK v \in Envelope \cup {Absent} :
        /\ v = Absent \/ (SameRing(v) /\ v.lease = NoLease)
        /\ Trusting = {}
        /\ envelope' = v /\ grants' = grants /\ now' = now /\ stored' = stored
        /\ call' \in [Caller -> Seq(Write)] /\ \A d \in Caller : call'[d] = <<>>
  BY PutFacts DEF Clears
<1>3. /\ LeaseTold' /\ OwnerTrusted' /\ TokensInOrder'
      /\ Owner' = 0 /\ Issued' = Issued /\ Trusting' = {}
  BY <1>2, Unowned
<1>4. RingInOrder' /\ (Newest' = Newest \/ Newest' = [sequence |-> 0, by |-> 0])
  <2>1. CASE v = Absent
    BY <1>2, <2>1 DEF RingInOrder, Newest
  <2>2. CASE SameRing(v)
    BY <1>1, <1>2, <2>2, RingStays
  <2> QED
    BY <1>2, <2>1, <2>2
<1>5. grants' \in Seq(Grant)
  BY <1>1, <1>2 DEF TypeOK
<1>6. LeaseInv'
  BY <1>2, <1>3, <1>4, <1>5, AtRest
<1> QED
  BY <1>3, <1>4, <1>6

\* The put of a lease: its holder is told, and it is the owner.
LEMMA LeaseGrant ==
    ASSUME LeaseInv, NEW put \in Write, put.kind = "snapshot", put.value \in Envelope,
           put.tell # 0, Leases(put), now' = now,
           grants' = [grants EXCEPT ![put.tell] =
                        [worker |-> grants[put.tell].worker,
                         until |-> put.value.lease.expiresAt,
                         over |-> grants[put.tell].over]]
    PROVE  /\ put.tell \in Token /\ Token' = Token /\ grants' \in Seq(Grant)
           /\ grants'[put.tell].until = put.value.lease.expiresAt
           /\ grants'[put.tell].worker = put.value.lease.worker
           /\ put.value.lease.expiresAt > 0 /\ put.value.lease.token = put.tell
           /\ \A u \in Token : u # put.tell => grants'[u] = grants[u]
           /\ Told' = Told \cup {put.tell}
<1>1. put.tell \in Token /\ put.value.lease \in Lease /\ put.value.lease.expiresAt \in Nat
  BY EnvelopeTypes DEF Leases
<1>2. PICK t \in Token : t = put.tell
  BY <1>1
<1>3. PICK g : g = [worker |-> grants[t].worker, until |-> put.value.lease.expiresAt,
                    over |-> grants[t].over]
  OBVIOUS
<1>4. g \in Grant /\ g.until = put.value.lease.expiresAt /\ g.worker = grants[t].worker
  BY <1>1, <1>3, GrantTypes DEF Grant, LeaseInv
<1>5. grants' = [grants EXCEPT ![t] = g] /\ grants \in Seq(Grant)
  BY <1>2, <1>3 DEF LeaseInv, TypeOK
<1>6. Len(grants') = Len(grants) /\ grants' \in Seq(Grant)
  <2>1. t \in 1 .. Len(grants) /\ g \in Grant
    BY <1>4 DEF Token
  <2>2. [grants EXCEPT ![t] = g] \in Seq(Grant) /\ Len([grants EXCEPT ![t] = g]) = Len(grants)
    BY <1>5, <2>1, ExceptSeq
  <2> QED
    BY <1>5, <2>2
<1>7. \A u \in Token : grants'[u] = IF u = t THEN g ELSE grants[u]
  BY <1>5 DEF Token
<1>8. Token' = Token
  BY <1>6 DEF Token
<1>9. Told' = Told \cup {t}
  <2>1. Told' = {u \in Token : grants'[u].until > 0}
    BY <1>8 DEF Told
  <2>2. g.until > 0
    BY <1>4 DEF Leases
  <2>3. \A u : u \in Told' <=> u \in Told \/ u = t
    BY <1>7, <2>1, <2>2 DEF Told
  <2> QED
    BY <2>3
<1> QED
  BY <1>2, <1>4, <1>6, <1>7, <1>8, <1>9 DEF Leases

LEMMA LeaseEnds ==
    ASSUME LeaseInv, NEW c \in Caller, Perform(c), putSnapshot(c),
           Leases(call[c][Len(call[c])])
    PROVE  LET t == call[c][Len(call[c])].tell IN
           /\ LeaseInv' /\ Owner' = t /\ Newest' = Newest /\ Trusting' \subseteq {t}
           /\ t # 0 /\ t \in Token
           /\ \/ t \in 1 .. MaxGrants /\ t > Issued /\ Issued' = t /\ Trusting = {}
              \/ t = Owner /\ Issued' = Issued
<1>1. TypeOK /\ LeaseTold /\ OwnerTrusted /\ RingInOrder /\ TokensInOrder
  BY DEF LeaseInv
<1>2. PICK put \in Write :
        /\ put = call[c][Len(call[c])] /\ put.kind = "snapshot" /\ Leases(put)
        /\ put.value \in Envelope \cup {Absent} /\ put.tell \in Nat
        /\ envelope' = put.value /\ now' = now /\ stored' = stored
        /\ grants' = IF put.tell = 0 THEN grants
                     ELSE [grants EXCEPT ![put.tell] =
                             [worker |-> grants[put.tell].worker,
                              until |-> put.value.lease.expiresAt,
                              over |-> grants[put.tell].over]]
        /\ call' \in [Caller -> Seq(Write)] /\ \A d \in Caller : call'[d] = <<>>
  BY PutFacts
<1>3. PICK t \in Token : t = put.tell
  BY <1>2 DEF Leases
<1>4. t \in Nat /\ t # 0 /\ Len(grants) \in Nat /\ t <= Len(grants)
  BY <1>1, GrantTypes DEF Token
<1>5. put.value \in Envelope /\ put.value # Absent /\ put.value.lease # NoLease
  BY <1>2 DEF Leases, SameRing
<1>6. /\ Token' = Token /\ grants' \in Seq(Grant)
      /\ grants'[t].until = put.value.lease.expiresAt
      /\ grants'[t].worker = put.value.lease.worker
      /\ put.value.lease.expiresAt > 0 /\ put.value.lease.token = t
      /\ \A u \in Token : u # t => grants'[u] = grants[u]
      /\ Told' = Told \cup {t}
  BY <1>2, <1>3, <1>4, <1>5, LeaseGrant
<1>7. RingInOrder' /\ Newest' = Newest
  BY <1>1, <1>2, RingStays DEF Leases
<1>8. Owner' = t
  BY <1>2, <1>5, <1>6 DEF Owner
<1>9. LeaseTold'
  BY <1>2, <1>6 DEF LeaseTold
<1>10. Trusting \subseteq {t}
  <2>1. Trusting = {} \/ (envelope.lease # NoLease /\ envelope.lease.token = t)
    BY <1>2, <1>3 DEF Leases
  <2>2. envelope # Absent
    BY <1>2 DEF Leases, SameRing
  <2> QED
    BY <1>1, <2>1, <2>2, BelieverFacts, OwnerFacts
<1>11. \A u \in Token : Believes(u)' => u = t
  <2> SUFFICES ASSUME NEW u \in Token, Believes(u)', u # t PROVE FALSE
    OBVIOUS
  <2>1. Believes(u)
    BY <1>2, <1>6 DEF Believes
  <2> QED
    BY <1>10, <2>1 DEF Trusting
<1>12. Trusting' \subseteq {t}
  BY <1>6, <1>11 DEF Trusting
<1>13. OwnerTrusted'
  BY <1>2, <1>5, <1>6, <1>11 DEF OwnerTrusted, HoldsLease
<1>14. /\ TokensInOrder'
       /\ \/ t \in 1 .. MaxGrants /\ t > Issued /\ Issued' = t /\ Trusting = {}
          \/ t = Owner /\ Issued' = Issued
  <2>1. CASE t = Len(grants) /\ t <= MaxGrants /\ Trusting = {} /\ grants[t].until = 0
    <3>1. t \notin Told
      BY <2>1 DEF Told
    <3>2. \A u \in Told : u \in Nat /\ u < t
      BY <1>4, <2>1, <3>1 DEF Told, Token
    <3>3. Issued < t
      <4>1. CASE Told = {}
        BY <1>4, <4>1 DEF Issued
      <4>2. CASE Told # {}
        <5>1. Issued \in Told
          BY <1>1, <4>2 DEF TokensInOrder, Issued
        <5> QED
          BY <3>2, <5>1
      <4> QED
        BY <4>1, <4>2
    <3>4. t \in Told' /\ \A u \in Told' : u <= t
      BY <1>4, <1>6, <3>2
    <3>5. TokensInOrder'
      BY <3>4 DEF TokensInOrder
    <3>6. Issued' = t
      <4>1. Told' # {}
        BY <3>4
      <4>2. Issued' \in Told' /\ \A u \in Told' : u <= Issued'
        BY <1>4, <3>4, <4>1 DEF Issued
      <4>3. Issued' <= t /\ t <= Issued' /\ Issued' \in Nat
        BY <1>4, <1>6, <3>2, <3>4, <4>2
      <4> QED
        BY <1>4, <4>3
    <3>7. t \in 1 .. MaxGrants
      BY <1>4, <2>1, CortexAssumption
    <3>8. Issued \in Nat
      <4>1. Told # {} => Issued \in Told
        BY <1>1 DEF TokensInOrder, Issued
      <4> QED
        BY <3>2, <4>1 DEF Issued
    <3> QED
      BY <1>4, <2>1, <3>3, <3>5, <3>6, <3>7, <3>8
  <2>2. CASE envelope # Absent /\ envelope.lease # NoLease /\ envelope.lease.token = t
    <3>1. t = Owner /\ t \in Told
      BY <1>1, <2>2, OwnerFacts DEF LeaseTold
    <3>2. Told' = Told
      BY <1>6, <3>1
    <3> QED
      BY <1>1, <3>1, <3>2 DEF TokensInOrder, Issued
  <2>3. envelope # Absent
    BY <1>2 DEF Leases, SameRing
  <2> QED
    BY <1>2, <1>3, <2>1, <2>2, <2>3 DEF Leases
<1>15. LeaseInv'
  BY <1>2, <1>5, <1>6, <1>7, <1>9, <1>13, <1>14, AtRest
<1> QED
  BY <1>2, <1>3, <1>4, <1>7, <1>8, <1>12, <1>14, <1>15

\* The sequences of the ring are no newer than the newest.
LEMMA RingSequences ==
    ASSUME TypeOK, RingInOrder, envelope # Absent
    PROVE  LET ring == envelope.checkpoints IN
           \A i \in 1 .. Len(ring) : /\ ring[i].sequence \in Nat /\ envelope.latest \in Nat
                                     /\ ring[i].sequence <= envelope.latest
<1>1. /\ envelope.latest \in Nat /\ Len(envelope.checkpoints) \in Nat
      /\ \A i \in 1 .. Len(envelope.checkpoints) : envelope.checkpoints[i].sequence \in Nat
  BY EnvelopeTypes DEF TypeOK
<1>2. PICK ring : ring = envelope.checkpoints
  OBVIOUS
<1> SUFFICES ASSUME NEW i \in 1 .. Len(ring) PROVE ring[i].sequence <= envelope.latest
  BY <1>1, <1>2
<1>3. Len(ring) \in 1 .. Len(ring)
  BY <1>1, <1>2
<1>4. /\ ring[Len(ring)].sequence = envelope.latest
      /\ i < Len(ring) => ring[i].sequence < ring[Len(ring)].sequence
  BY <1>1, <1>2, <1>3 DEF RingInOrder
<1>5. i = Len(ring) \/ i < Len(ring)
  BY <1>1, <1>2
<1> QED
  BY <1>1, <1>2, <1>3, <1>4, <1>5

LEMMA LastOrBefore == \A n \in Nat : \A j \in 1 .. n : j = n \/ j \in 1 .. n - 1
  OBVIOUS

\* A newer checkpoint at the end, perhaps one less at the beginning.
LEMMA Ascends ==
    ASSUME NEW ring \in Seq(Checkpoint), NEW new \in Seq(Checkpoint), NEW k \in Checkpoint,
           NEW n \in {0, 1}, NEW last \in Nat,
           \A i, j \in 1 .. Len(ring) : i < j => ring[i].sequence < ring[j].sequence,
           \A i \in 1 .. Len(ring) : ring[i].sequence \in Nat /\ ring[i].sequence <= last,
           k.sequence = last + 1, Len(new) = Len(ring) + 1 - n, new[Len(new)] = k,
           \A i \in 1 .. Len(new) - 1 : i + n \in 1 .. Len(ring) /\ new[i] = ring[i + n]
    PROVE  \A i, j \in 1 .. Len(new) : i < j => new[i].sequence < new[j].sequence
<1> SUFFICES ASSUME NEW i \in 1 .. Len(new), NEW j \in 1 .. Len(new), i < j
             PROVE  new[i].sequence < new[j].sequence
  OBVIOUS
<1>1. Len(new) \in Nat /\ i \in 1 .. Len(new) - 1
  OBVIOUS
<1>2. PICK p \in 1 .. Len(ring) : p = i + n /\ new[i] = ring[p]
  BY <1>1
<1>3. ring[p].sequence \in Nat /\ ring[p].sequence <= last
  OBVIOUS
<1>4. CASE j = Len(new)
  <2>1. new[j].sequence = last + 1
    BY <1>4
  <2> QED
    BY <1>2, <1>3, <2>1
<1>5. CASE j # Len(new)
  <2>1. j \in 1 .. Len(new) - 1
    BY <1>1, <1>5, LastOrBefore
  <2>2. PICK q \in 1 .. Len(ring) : q = j + n /\ new[j] = ring[q]
    BY <2>1
  <2>3. p < q
    BY <1>2, <2>2
  <2>4. ring[p].sequence < ring[q].sequence
    BY <2>3
  <2> QED
    BY <1>2, <2>2, <2>4
<1> QED
  BY <1>4, <1>5

\* What the put of an append makes of the envelope: checkpoint k joins the ring, n leave.
Grown(v, ring, new, k, n) ==
    /\ envelope # Absent /\ envelope.lease # NoLease /\ envelope.checkpoints = ring
    /\ Owner = envelope.lease.token /\ Owner # 0 /\ envelope.latest \in Nat
    /\ k.sequence = envelope.latest + 1 /\ k.by = Owner
    /\ v \in Envelope /\ v # Absent
    /\ v.latest = k.sequence /\ v.checkpoints = new
    /\ v.lease = envelope.lease
    /\ Len(ring) \in Nat /\ n <= Len(ring) /\ Len(new) = Len(ring) + 1 - n
    /\ new[Len(new)] = k
    /\ \A i \in 1 .. Len(new) - 1 : i + n \in 1 .. Len(ring) /\ new[i] = ring[i + n]

LEMMA AddMakes ==
    ASSUME LeaseInv, NEW put, Adds(put)
    PROVE  \E ring, new \in Seq(Checkpoint) : \E k \in Checkpoint : \E n \in {0, 1} :
             Grown(put.value, ring, new, k, n)
<1>1. TypeOK /\ LeaseTold
  BY DEF LeaseInv
<1>2. /\ envelope # Absent /\ envelope.lease # NoLease
      /\ put.value = Extended(Appended(envelope.lease.token),
                              [sequence |-> envelope.latest + 1, by |-> envelope.lease.token])
  BY DEF Adds
<1>3. /\ envelope \in Envelope /\ envelope.lease.token \in Token /\ envelope.lease.token \in Nat
      /\ Owner = envelope.lease.token /\ Owner # 0
  BY <1>1, <1>2, OwnerFacts, EnvelopeTypes
<1>4. envelope.latest \in Nat /\ envelope.checkpoints \in Seq(Checkpoint)
  BY <1>3, EnvelopeTypes
<1>5. PICK k \in Checkpoint : k = [sequence |-> envelope.latest + 1, by |-> Owner]
  <2>1. [sequence |-> envelope.latest + 1, by |-> Owner] \in Checkpoint
    BY <1>3, <1>4 DEF Checkpoint
  <2> QED
    BY <2>1
<1>6. PICK ring \in Seq(Checkpoint) : ring = envelope.checkpoints
  BY <1>4
<1>7. PICK new : new = Kept(Append(ring, k))
  OBVIOUS
<1>8. PICK n \in {0, 1} :
        /\ new \in Seq(Checkpoint) /\ Len(ring) \in Nat /\ n <= Len(ring)
        /\ Len(new) = Len(ring) + 1 - n
        /\ new[Len(new)] = k
        /\ \A i \in 1 .. Len(new) - 1 : i + n \in 1 .. Len(ring) /\ new[i] = ring[i + n]
  BY <1>7, KeptFacts
<1>9. put.value = [envelope EXCEPT !.latest = k.sequence, !.checkpoints = new]
  BY <1>2, <1>3, <1>5, <1>6, <1>7 DEF Extended, Appended
<1>10. k.sequence = envelope.latest + 1 /\ k.by = Owner
  BY <1>5
<1>11. /\ put.value \in Envelope /\ put.value # Absent
       /\ put.value.latest = k.sequence /\ put.value.checkpoints = new
       /\ put.value.lease = envelope.lease
  <2>1. /\ put.value.latest = k.sequence /\ put.value.checkpoints = new
        /\ put.value.lease = envelope.lease
    BY <1>3, <1>9 DEF Envelope
  <2>2. k.sequence \in Nat
    BY <1>4, <1>10
  <2>3. put.value \in Envelope
    BY <1>3, <1>8, <1>9, <2>2 DEF Envelope
  <2> QED
    BY <2>1, <2>3, EnvelopeTypes
<1>12. Grown(put.value, ring, new, k, n)
  BY <1>2, <1>3, <1>4, <1>6, <1>8, <1>10, <1>11 DEF Grown
<1> QED
  BY <1>8, <1>12

\* The put of an append: the owner's checkpoint is the newest.
LEMMA AddEnds ==
    ASSUME LeaseInv, NEW c \in Caller, Perform(c), putSnapshot(c),
           Adds(call[c][Len(call[c])])
    PROVE  /\ LeaseInv' /\ Owner # 0 /\ Owner' = Owner /\ Issued' = Issued
           /\ Trusting' = Trusting
           /\ Newest' = [sequence |-> Newest.sequence + 1, by |-> Owner]
<1>1. TypeOK /\ LeaseTold /\ OwnerTrusted /\ RingInOrder /\ TokensInOrder
  BY DEF LeaseInv
<1>2. PICK put \in Write :
        /\ Adds(put) /\ put.value \in Envelope \cup {Absent}
        /\ envelope' = put.value /\ now' = now /\ stored' = stored /\ grants' = grants
        /\ call' \in [Caller -> Seq(Write)] /\ \A d \in Caller : call'[d] = <<>>
  BY PutFacts DEF Adds
<1> PICK ring \in Seq(Checkpoint), new \in Seq(Checkpoint), k \in Checkpoint, n \in {0, 1} :
      Grown(put.value, ring, new, k, n)
  BY <1>2, AddMakes
<1>3. /\ envelope # Absent /\ envelope.lease # NoLease /\ envelope.checkpoints = ring
      /\ Owner = envelope.lease.token /\ Owner # 0 /\ envelope.latest \in Nat
      /\ k.sequence = envelope.latest + 1 /\ k.by = Owner
      /\ envelope' \in Envelope /\ envelope' # Absent
      /\ envelope'.latest = k.sequence /\ envelope'.checkpoints = new
      /\ envelope'.lease = envelope.lease
      /\ Len(ring) \in Nat /\ n <= Len(ring) /\ Len(new) = Len(ring) + 1 - n
      /\ new[Len(new)] = k
      /\ \A i \in 1 .. Len(new) - 1 : i + n \in 1 .. Len(ring) /\ new[i] = ring[i + n]
  BY <1>2 DEF Grown
<1>4. /\ envelope.latest = 0 <=> Len(ring) = 0
      /\ Len(ring) > 0 => ring[Len(ring)].sequence = envelope.latest
      /\ \A i, j \in 1 .. Len(ring) : i < j => ring[i].sequence < ring[j].sequence
  BY <1>1, <1>3 DEF RingInOrder
<1>5. \A i \in 1 .. Len(ring) : ring[i].sequence \in Nat /\ ring[i].sequence <= envelope.latest
  BY <1>1, <1>3, RingSequences
<1>6. RingInOrder'
  <2>1. Len(new) \in Nat /\ Len(new) > 0
    BY <1>3
  <2>2. k.sequence # 0 /\ k.sequence \in Nat
    BY <1>3
  <2>3. \A i, j \in 1 .. Len(new) : i < j => new[i].sequence < new[j].sequence
    <3>1. /\ \A i, j \in 1 .. Len(ring) : i < j => ring[i].sequence < ring[j].sequence
          /\ \A i \in 1 .. Len(ring) : /\ ring[i].sequence \in Nat
                                       /\ ring[i].sequence <= envelope.latest
      BY <1>4, <1>5
    <3>2. /\ k.sequence = envelope.latest + 1 /\ Len(new) = Len(ring) + 1 - n
          /\ new[Len(new)] = k /\ envelope.latest \in Nat
          /\ \A i \in 1 .. Len(new) - 1 : i + n \in 1 .. Len(ring) /\ new[i] = ring[i + n]
      BY <1>3
    <3> QED
      BY <3>1, <3>2, Ascends
  <2>4. Len(new) # 0 /\ new[Len(new)].sequence = k.sequence
    BY <1>3, <2>1
  <2> QED
    BY <1>3, <2>2, <2>3, <2>4 DEF RingInOrder
<1>7. Newest.sequence = envelope.latest
  <2>1. CASE envelope.latest > 0
    BY <1>3, <1>4, <2>1 DEF Newest
  <2>2. CASE envelope.latest = 0
    BY <1>3, <2>2 DEF Newest
  <2> QED
    BY <1>3, <2>1, <2>2
<1>8. Newest' = k /\ k = [sequence |-> Newest.sequence + 1, by |-> Owner]
  <2>1. Newest' = k
    BY <1>3 DEF Newest
  <2> QED
    BY <1>3, <1>7, <2>1 DEF Checkpoint
<1>9. Token' = Token /\ Owner' = Owner
  BY <1>2, <1>3 DEF Token, Owner
<1>10. Told' = Told /\ Trusting' = Trusting
  BY <1>2, <1>9 DEF Told, Trusting, Believes
<1>11. LeaseTold' /\ TokensInOrder' /\ Issued' = Issued
  BY <1>1, <1>2, <1>3, <1>10 DEF LeaseTold, TokensInOrder, Issued
<1>12. OwnerTrusted'
  BY <1>1, <1>2, <1>3, <1>9 DEF OwnerTrusted, HoldsLease, Believes
<1>13. grants' \in Seq(Grant)
  BY <1>1, <1>2 DEF TypeOK
<1>14. LeaseInv'
  BY <1>2, <1>3, <1>6, <1>11, <1>12, <1>13, AtRest
<1> QED
  BY <1>3, <1>7, <1>8, <1>9, <1>10, <1>11, <1>14

LEMMA PutEnds ==
    ASSUME LeaseInv, NEW c \in Caller, Perform(c), putSnapshot(c)
    PROVE  LeaseInv'
<1>1. PICK put : put = call[c][Len(call[c])] /\ Sound(put)
  BY PutFacts
<1>2. CASE Creates(put)
  BY <1>1, <1>2, CreateEnds
<1>3. CASE Clears(put)
  BY <1>1, <1>3, ClearEnds
<1>4. CASE Leases(put)
  BY <1>1, <1>4, LeaseEnds
<1>5. CASE Adds(put)
  BY <1>1, <1>5, AddEnds
<1> QED
  BY <1>1, <1>2, <1>3, <1>4, <1>5 DEF Sound

-----------------------------------------------------------------------------
(* What is always so. *)

LEMMA InitLease == Init => IInv
<1> SUFFICES ASSUME Init PROVE IInv
  OBVIOUS
<1>1. /\ envelope = Absent /\ stored = [k \in {} |-> 0] /\ grants = <<>> /\ now = 0
      /\ call = [c \in Caller |-> <<>>]
  BY DEF Init
<1>2. Token = {}
  BY <1>1 DEF Token
<1>3. TypeOK
  <2>1. DOMAIN stored = {} /\ stored \in [DOMAIN stored -> Checkpoint]
    BY <1>1
  <2> QED
    BY <1>1, <2>1 DEF TypeOK
<1>4. OneCall /\ PutSound
  BY <1>1 DEF OneCall, PutSound
<1>5. \A c \in Caller : \A i \in 1 .. Len(call[c]) : FALSE
  BY <1>1
<1>6. SnapshotLast
  BY <1>5 DEF SnapshotLast
<1>7. LeaseTold /\ OwnerTrusted /\ TokensInOrder /\ RingInOrder
  BY <1>1, <1>2 DEF LeaseTold, OwnerTrusted, TokensInOrder, Told, RingInOrder
<1>8. \A c \in Caller : SavesFirst(call[c]) /\ EvictsOlder(call[c]) /\ DropsAll(call[c])
  BY <1>1, <1>5 DEF SavesFirst, EvictsOlder, DropsAll
<1> QED
  BY <1>3, <1>4, <1>6, <1>7, <1>8 DEF IInv, LeaseInv, ReadInv

LEMMA LeaseStutters ==
    ASSUME LeaseInv, UNCHANGED vars
    PROVE  LeaseInv' /\ Stays
<1>1. /\ envelope' = envelope /\ stored' = stored /\ grants' = grants /\ now' = now
      /\ call' = call
  BY DEF vars
<1>2. Token' = Token /\ Stays
  BY <1>1, SameState
<1>3. Told' = Told
  BY <1>1, <1>2 DEF Told
<1>4. TypeOK' /\ OneCall' /\ SnapshotLast' /\ RingInOrder'
  BY <1>1 DEF LeaseInv, TypeOK, OneCall, SnapshotLast, RingInOrder
<1>5. LeaseTold' /\ TokensInOrder' /\ OwnerTrusted'
  BY <1>1, <1>2, <1>3 DEF LeaseInv, LeaseTold, TokensInOrder, OwnerTrusted, HoldsLease, Believes
<1>6. PutSound'
  <2> SUFFICES ASSUME NEW c \in Caller, call[c] # <<>>
               PROVE  (LET put == call[c][Len(call[c])] IN
                       Creates(put) \/ Clears(put) \/ Leases(put) \/ Adds(put))'
    BY <1>1 DEF PutSound
  <2>1. PICK put : put = call[c][Len(call[c])]
    OBVIOUS
  <2>2. Sound(put)
    BY <2>1 DEF LeaseInv, PutSound, Sound
  <2>3. Sound(put)'
    BY <1>1, <1>2, <2>2, SoundStays DEF Stays
  <2> QED
    BY <1>1, <2>1, <2>3 DEF Sound
<1> QED
  BY <1>2, <1>4, <1>5, <1>6 DEF LeaseInv

LEMMA LeaseStep ==
    ASSUME Serial, LeaseInv, [Next]_vars
    PROVE  LeaseInv'
<1>1. ASSUME NEW c \in Caller, Perform(c) PROVE LeaseInv'
  BY <1>1, PutEnds, CheckpointSaved, CheckpointEvicted DEF Perform
<1>2. ASSUME NEW c \in Caller, create(c) \/ resumeRefetch(c) \/ destroy(c) \/ Crash(c)
      PROVE  LeaseInv'
  BY <1>2, CreateStarts, RefetchTells, DestroyStarts, CrashEnds
<1>3. ASSUME NEW c \in Caller, NEW ttl \in Ttl, resumeAcquire(c, ttl) PROVE LeaseInv'
  BY <1>3, AcquireStarts
<1>4. ASSUME NEW c \in Caller, NEW s \in Status, finalize(c, s) PROVE LeaseInv'
  BY <1>4, FinalizeStarts
<1>5. ASSUME NEW c \in Caller, NEW t \in Token, releaseLease(c, t) \/ appendCheckpoint(c, t)
      PROVE  LeaseInv'
  BY <1>5, ReleaseStarts, AppendStarts
<1>6. ASSUME NEW c \in Caller, NEW t \in Token, NEW ttl \in Ttl, renewLease(c, t, ttl)
      PROVE  LeaseInv'
  BY <1>6, RenewStarts
<1>7. Tick => LeaseInv'
  BY Ticks
<1>8. UNCHANGED vars => LeaseInv'
  BY LeaseStutters
<1> QED
  BY <1>1, <1>2, <1>3, <1>4, <1>5, <1>6, <1>7, <1>8 DEF Next

LEMMA LeaseInvariance == Serial => (Spec => []LeaseInv)
<1> SUFFICES ASSUME Serial PROVE Spec => []LeaseInv
  OBVIOUS
<1>1. Init => LeaseInv
  BY InitLease DEF IInv
<1>2. LeaseInv /\ [Next]_vars => LeaseInv'
  BY LeaseStep
<1> QED
  BY <1>1, <1>2, PTL DEF Spec

-----------------------------------------------------------------------------
(* The contract: what the steps are to the session as SessionLease sees it. *)

LEMMA AsStutter ==
    ASSUME Stays
    PROVE  UNCHANGED Contract!leaseVars
  BY DEF Contract!leaseVars, Stays

LEMMA AsLapse ==
    ASSUME Quiet
    PROVE  Contract!LeaseNext
<1>1. Contract!Lapse
  BY DEF Contract!Lapse, Quiet
<1> QED
  BY <1>1 DEF Contract!LeaseNext

LEMMA AsConfirm ==
    ASSUME Owner # 0, Owner' = Owner, Issued' = Issued, Newest' = Newest,
           Trusting' = Trusting \cup {Owner}
    PROVE  Contract!LeaseNext
<1>1. Contract!Confirm("session")
  BY DEF Contract!Confirm
<1> QED
  BY <1>1 DEF Contract!LeaseNext

LEMMA AsDisown ==
    ASSUME Owner' = 0, Issued' = Issued, Newest' = Newest, Trusting' = {}
    PROVE  Contract!LeaseNext
<1>1. Contract!Disown("session")
  BY DEF Contract!Disown
<1> QED
  BY <1>1 DEF Contract!LeaseNext

LEMMA AsForget ==
    ASSUME Owner' = 0, Issued' = Issued, Newest' = [sequence |-> 0, by |-> 0], Trusting' = {}
    PROVE  Contract!LeaseNext
<1>1. Contract!Forget("session")
  BY DEF Contract!Forget, Contract!NoCheckpoint
<1> QED
  BY <1>1 DEF Contract!LeaseNext

LEMMA AsWrite ==
    ASSUME Owner # 0, Owner' = Owner, Issued' = Issued, Trusting' = Trusting,
           Newest' = [sequence |-> Newest.sequence + 1, by |-> Owner]
    PROVE  Contract!LeaseNext
<1>1. Contract!Write("session")
  BY DEF Contract!Write
<1> QED
  BY <1>1 DEF Contract!LeaseNext

LEMMA AsGrant ==
    ASSUME NEW t \in 1 .. MaxGrants, t > Issued, Owner' = t, Issued' = t, Newest' = Newest,
           Trusting = {}, NEW trust \in SUBSET {t}, Trusting' = trust
    PROVE  Contract!LeaseNext
<1>1. Contract!Grant("session", t)
  BY DEF Contract!Grant
<1> QED
  BY <1>1 DEF Contract!LeaseNext

\* A put ends a call: the one step of a call that the contract may see.
LEMMA PutRefines ==
    ASSUME LeaseInv, NEW c \in Caller, Perform(c), putSnapshot(c)
    PROVE  [Contract!LeaseNext]_Contract!leaseVars
<1>1. PICK put : put = call[c][Len(call[c])] /\ Sound(put)
  BY PutFacts
<1>2. CASE Creates(put)
  BY <1>1, <1>2, CreateEnds, AsStutter
<1>3. CASE Clears(put)
  BY <1>1, <1>3, ClearEnds, AsDisown, AsForget
<1>4. CASE Leases(put)
  <2>1. PICK t \in Token :
          /\ Owner' = t /\ Newest' = Newest /\ Trusting' \subseteq {t} /\ t # 0
          /\ \/ t \in 1 .. MaxGrants /\ t > Issued /\ Issued' = t /\ Trusting = {}
             \/ t = Owner /\ Issued' = Issued
    BY <1>1, <1>4, LeaseEnds
  <2>2. CASE t \in 1 .. MaxGrants /\ t > Issued /\ Issued' = t /\ Trusting = {}
    BY <2>1, <2>2, AsGrant
  <2>3. CASE t = Owner /\ Issued' = Issued
    <3>1. Trusting \subseteq {Owner}
      BY BelieverFacts DEF LeaseInv
    <3>2. Trusting' = Trusting \cup {Owner} \/ Trusting' = {}
      BY <2>1, <2>3, <3>1
    <3>3. CASE Trusting' = {}
      <4>1. Quiet
        BY <2>1, <2>3, <3>3 DEF Quiet
      <4> QED
        BY <4>1, AsLapse
    <3> QED
      BY <2>1, <2>3, <3>2, <3>3, AsConfirm
  <2> QED
    BY <2>1, <2>2, <2>3
<1>5. CASE Adds(put)
  BY <1>1, <1>5, AddEnds, AsWrite
<1> QED
  BY <1>1, <1>2, <1>3, <1>4, <1>5 DEF Sound

LEMMA StepRefines ==
    ASSUME Serial, LeaseInv, [Next]_vars
    PROVE  [Contract!LeaseNext]_Contract!leaseVars
<1>1. ASSUME NEW c \in Caller, Perform(c) PROVE [Contract!LeaseNext]_Contract!leaseVars
  <2>1. CASE putSnapshot(c)
    BY <1>1, <2>1, PutRefines
  <2>2. CASE putCheckpoint(c) \/ evict(c) \/ drop(c)
    BY <1>1, <2>2, CheckpointSaved, CheckpointEvicted, AsStutter
  <2> QED
    BY <1>1, <2>1, <2>2 DEF Perform
<1>2. ASSUME NEW c \in Caller, create(c) \/ destroy(c) PROVE Contract!LeaseNext
  BY <1>2, CreateStarts, DestroyStarts, AsLapse
<1>3. ASSUME NEW c \in Caller, resumeRefetch(c) PROVE Contract!LeaseNext
  BY <1>3, RefetchTells, AsConfirm
<1>4. ASSUME NEW c \in Caller, Crash(c) PROVE UNCHANGED Contract!leaseVars
  BY <1>4, CrashEnds, AsStutter
<1>5. ASSUME NEW c \in Caller, NEW ttl \in Ttl, resumeAcquire(c, ttl) PROVE Contract!LeaseNext
  BY <1>5, AcquireStarts, AsLapse
<1>6. ASSUME NEW c \in Caller, NEW s \in Status, finalize(c, s) PROVE Contract!LeaseNext
  BY <1>6, FinalizeStarts, AsLapse
<1>7. ASSUME NEW c \in Caller, NEW t \in Token, releaseLease(c, t) \/ appendCheckpoint(c, t)
      PROVE  Contract!LeaseNext
  BY <1>7, ReleaseStarts, AppendStarts, AsLapse
<1>8. ASSUME NEW c \in Caller, NEW t \in Token, NEW ttl \in Ttl, renewLease(c, t, ttl)
      PROVE  Contract!LeaseNext
  BY <1>8, RenewStarts, AsLapse
<1>9. Tick => Contract!LeaseNext
  BY Ticks, AsLapse
<1>10. UNCHANGED vars => UNCHANGED Contract!leaseVars
  BY LeaseStutters, AsStutter
<1> QED
  BY <1>1, <1>2, <1>3, <1>4, <1>5, <1>6, <1>7, <1>8, <1>9, <1>10 DEF Next

LEMMA InitRefines ==
    ASSUME Init
    PROVE  Contract!LeaseInit
<1>1. envelope = Absent /\ grants = <<>>
  BY DEF Init
<1>2. Token = {}
  BY <1>1 DEF Token
<1>3. Owner = 0 /\ Issued = 0 /\ Trusting = {} /\ Newest = [sequence |-> 0, by |-> 0]
  BY <1>1, <1>2 DEF Owner, Issued, Told, Trusting, Newest
<1> QED
  BY <1>3 DEF Contract!LeaseInit, Contract!NoCheckpoint

-----------------------------------------------------------------------------
(* What the puts leave of the newest checkpoint. *)

LEMMA PutKeeps ==
    ASSUME LeaseInv, NEW c \in Caller, Perform(c), putSnapshot(c),
           envelope # Absent, envelope' # Absent
    PROVE  envelope'.latest >= envelope.latest
<1>1. PICK put \in Write :
        put = call[c][Len(call[c])] /\ Sound(put) /\ envelope' = put.value
  BY PutFacts
<1>2. envelope.latest \in Nat
  BY EnvelopeTypes DEF LeaseInv, TypeOK
<1>3. CASE SameRing(put.value)
  BY <1>1, <1>2, <1>3 DEF SameRing
<1>4. CASE Adds(put)
  <2> PICK ring \in Seq(Checkpoint), new \in Seq(Checkpoint), k \in Checkpoint, n \in {0, 1} :
        Grown(put.value, ring, new, k, n)
    BY <1>4, AddMakes
  <2>1. put.value.latest = envelope.latest + 1
    BY DEF Grown
  <2> QED
    BY <1>1, <1>2, <2>1
<1> QED
  BY <1>1, <1>3, <1>4 DEF Sound, Creates, Clears, Leases

LEMMA OnlyPuts ==
    ASSUME [Next]_vars, envelope' # envelope
    PROVE  \E c \in Caller : Perform(c) /\ putSnapshot(c)
  BY DEF Next, vars, create, resumeRefetch, resumeAcquire, releaseLease, renewLease,
         appendCheckpoint, finalize, destroy, Start, Perform, putCheckpoint, evict, drop, Crash, Tick

-----------------------------------------------------------------------------
(* The newest checkpoint can be read: how calls begin. *)

LEMMA NotAdds ==
    ASSUME LeaseInv, NEW put,
           put.tell # 0 \/ put.value = Absent \/ SameRing(put.value) \/ envelope = Absent
    PROVE  ~ Adds(put)
<1> SUFFICES ASSUME Adds(put) PROVE FALSE
  OBVIOUS
<1>1. /\ envelope # Absent /\ envelope.latest \in Nat
      /\ put.value # Absent /\ put.value.latest = envelope.latest + 1
  <2> PICK ring \in Seq(Checkpoint), new \in Seq(Checkpoint), k \in Checkpoint, n \in {0, 1} :
        Grown(put.value, ring, new, k, n)
    BY AddMakes
  <2> QED
    BY DEF Grown
<1>2. put.tell = 0
  BY DEF Adds
<1> QED
  BY <1>1, <1>2 DEF SameRing

Reads(writes) == SavesFirst(writes) /\ EvictsOlder(writes) /\ DropsAll(writes)

LEMMA AddsStay ==
    ASSUME envelope' = envelope
    PROVE  Added' = Added /\ \A put : Adds(put)' <=> Adds(put)
  BY DEF Added, Adds, Extended, Appended

LEMMA SameReads ==
    ASSUME envelope' = envelope, stored' = stored
    PROVE  \A w : Reads(w) => Reads(w)'
<1> SUFFICES ASSUME NEW w, Reads(w) PROVE Reads(w)'
  OBVIOUS
<1>1. EvictsOlder(w)' /\ DropsAll(w)'
  BY DEF Reads, EvictsOlder, DropsAll
<1>2. Holds(Added)' <=> Holds(Added)
  BY AddsStay DEF Holds
<1>3. SavesFirst(w)'
  BY <1>2, AddsStay DEF Reads, SavesFirst
<1> QED
  BY <1>1, <1>3 DEF Reads

LEMMA NoWrites == Reads(<<>>)
<1>1. \A i \in 1 .. Len(<<>>) : FALSE
  OBVIOUS
<1> QED
  BY <1>1 DEF Reads, SavesFirst, EvictsOlder, DropsAll

LEMMA StartReads ==
    ASSUME LeaseInv, ReadInv, NEW c \in Caller, NEW w, Start(c, w), Reads(w)
    PROVE  ReadInv'
<1>1. envelope' = envelope /\ stored' = stored
  BY DEF Start
<1>2. \A d \in Caller : call'[d] = w \/ call'[d] = call[d]
  BY DEF Start, LeaseInv, TypeOK
<1>3. \A d \in Caller : Reads(call'[d])
  BY <1>2 DEF ReadInv, Reads
<1>4. \A d \in Caller : Reads(call[d])'
  BY <1>1, <1>3, SameReads
<1> QED
  BY <1>4 DEF ReadInv, Reads

LEMMA PutReads ==
    ASSUME LeaseInv, NEW v, NEW n,
           n # 0 \/ v = Absent \/ SameRing(v) \/ envelope = Absent
    PROVE  Reads(<<Put(v, n)>>)
<1>1. PICK put : put = Put(v, n)
  OBVIOUS
<1>2. put.kind = "snapshot" /\ put.value = v /\ put.tell = n
  BY <1>1 DEF Put
<1>3. ~ Adds(put)
  BY <1>2, NotAdds
<1>4. /\ Len(<<put>>) = 1 /\ <<put>>[1] = put
      /\ \A i \in 1 .. Len(<<put>>) : <<put>>[i].kind = "snapshot"
  BY <1>2
<1>5. EvictsOlder(<<put>>) /\ DropsAll(<<put>>)
  BY <1>4 DEF EvictsOlder, DropsAll
<1>6. SavesFirst(<<put>>)
  BY <1>3, <1>4 DEF SavesFirst
<1> QED
  BY <1>1, <1>5, <1>6 DEF Reads

LEMMA AppendReads ==
    ASSUME LeaseInv, ReadInv, NEW c \in Caller, NEW t \in Token, appendCheckpoint(c, t)
    PROVE  ReadInv'
<1>1. /\ envelope # Absent /\ envelope \in Envelope /\ t \in Nat
      /\ envelope.lease # NoLease /\ envelope.lease.token = t
  BY GrantTypes DEF appendCheckpoint, HoldsLease, LeaseInv, TypeOK
<1>2. PICK k \in Checkpoint, put \in Write, w \in Seq(Write) :
        /\ k = [sequence |-> envelope.latest + 1, by |-> t]
        /\ w = AppendWrites(Appended(t), k)
        /\ put.kind = "snapshot" /\ put.tell = 0 /\ put.value = Extended(Appended(t), k)
        /\ w[1] = Save(k)
        /\ Len(w) = 2 \/ (/\ Len(w) = 3 /\ Len(envelope.checkpoints) > 0
                          /\ Len(envelope.checkpoints) >= Ring
                          /\ envelope.checkpoints[1] \in Checkpoint
                          /\ w[2] = Evict(envelope.checkpoints[1]))
        /\ w[Len(w)] = put
  BY <1>1, AppendWritesAre
<1>3. k = Added /\ Adds(put)
  BY <1>1, <1>2 DEF Added, Adds
<1>4. Start(c, w)
  BY <1>2 DEF appendCheckpoint
<1>5. /\ w[1].kind = "checkpoint" /\ w[1].value = k
      /\ Len(w) = 3 => /\ w[2].kind = "evict"
                       /\ w[2].value = envelope.checkpoints[1].sequence
                       /\ Len(envelope.checkpoints) >= Ring
  <2>1. w[1].kind = "checkpoint" /\ w[1].value = k
    BY <1>2, MakesWrites
  <2>2. ASSUME Len(w) = 3
        PROVE  /\ w[2].kind = "evict" /\ w[2].value = envelope.checkpoints[1].sequence
               /\ Len(envelope.checkpoints) >= Ring
    <3>1. Len(w) # 2
      BY <2>2
    <3>2. /\ envelope.checkpoints[1] \in Checkpoint /\ w[2] = Evict(envelope.checkpoints[1])
          /\ Len(envelope.checkpoints) >= Ring
      BY <1>2, <3>1
    <3> QED
      BY <3>2, MakesWrites
  <2> QED
    BY <2>1, <2>2
<1>6. PICK len \in Nat : len = Len(envelope.checkpoints)
  BY <1>1, EnvelopeTypes
<1>7. EvictsOlder(w)
  <2> SUFFICES ASSUME NEW m \in 1 .. Len(w), Ring > 1, w[m].kind = "evict"
               PROVE  w[m].value < envelope.latest
    BY <1>1 DEF EvictsOlder
  <2>1. Len(w) = 3 /\ m = 2
    BY <1>2, <1>5
  <2>2. 1 \in 1 .. len /\ len \in 1 .. len /\ 1 < len /\ len > 0
    BY <1>5, <1>6, <2>1, CortexAssumption
  <2>3. /\ envelope.checkpoints[len].sequence = envelope.latest
        /\ envelope.checkpoints[1].sequence < envelope.checkpoints[len].sequence
    BY <1>1, <1>6, <2>2 DEF LeaseInv, RingInOrder
  <2> QED
    BY <1>5, <2>1, <2>3
<1>8. SavesFirst(w)
  <2>1. \A m \in 1 .. Len(w) : w[m].kind = "checkpoint" => m = 1
    BY <1>2, <1>5
  <2>2. 1 \in 1 .. Len(w)
    BY <1>2
  <2> QED
    BY <1>2, <1>3, <1>5, <2>1, <2>2 DEF SavesFirst
<1>9. DropsAll(w)
  <2>1. \A m \in 1 .. Len(w) : m = 1 \/ m = Len(w) \/ (m = 2 /\ Len(w) = 3)
    BY <1>2
  <2> QED
    BY <1>2, <1>5, <2>1 DEF DropsAll
<1> QED
  BY <1>4, <1>7, <1>8, <1>9, StartReads DEF Reads

LEMMA DestroyReads ==
    ASSUME LeaseInv, ReadInv, NEW c \in Caller, destroy(c)
    PROVE  ReadInv'
<1>1. envelope # Absent /\ envelope \in Envelope
  BY DEF destroy, LeaseInv, TypeOK
<1>2. PICK ring : ring = envelope.checkpoints
  OBVIOUS
<1>3. PICK w \in Seq(Write) :
        /\ w = [i \in 1 .. Len(ring) |-> Drop(ring[i])] \o <<Put(Absent, 0)>>
        /\ Len(w) = Len(ring) + 1 /\ Len(ring) \in Nat
        /\ \A i \in 1 .. Len(ring) : w[i] = Drop(ring[i])
        /\ w[Len(w)] = Put(Absent, 0)
  BY <1>1, <1>2, DestroyWritesAre
<1>4. Start(c, w)
  BY <1>2, <1>3 DEF destroy
<1>5. \A i \in 1 .. Len(ring) : w[i].kind = "drop"
  BY <1>3 DEF Drop
<1>6. w[Len(w)].kind = "snapshot" /\ w[Len(w)].value = Absent /\ ~ Adds(w[Len(w)])
  <2>1. w[Len(w)].kind = "snapshot" /\ w[Len(w)].value = Absent
    BY <1>3 DEF Put
  <2> QED
    BY <2>1, NotAdds
<1>7. \A m \in 1 .. Len(w) : m = Len(w) \/ m \in 1 .. Len(ring)
  BY <1>3
<1>8. \A m \in 1 .. Len(w) : w[m].kind \in {"snapshot", "drop"}
  BY <1>5, <1>6, <1>7
<1>9. EvictsOlder(w) /\ SavesFirst(w) /\ DropsAll(w)
  BY <1>6, <1>8 DEF EvictsOlder, SavesFirst, DropsAll
<1> QED
  BY <1>4, <1>9, StartReads DEF Reads

-----------------------------------------------------------------------------
(* The newest checkpoint can be read: how calls go on. *)

\* A call with its first write done.
Shorter(w, rest) ==
    /\ w \in Seq(Write) /\ rest \in Seq(Write)
    /\ Len(w) \in Nat /\ Len(rest) \in Nat /\ Len(w) = Len(rest) + 1
    /\ \A i \in 1 .. Len(rest) : i + 1 \in 1 .. Len(w) /\ rest[i] = w[i + 1]
    /\ \A i \in 1 .. Len(w) : i = 1 \/ (i - 1 \in 1 .. Len(rest) /\ rest[i - 1] = w[i])
    /\ rest # <<>> => rest[Len(rest)] = w[Len(w)]

LEMMA PerformShortens ==
    ASSUME LeaseInv, ReadInv, NEW c \in Caller, Perform(c)
    PROVE  \E w, rest \in Seq(Write) :
             /\ w = call[c] /\ w[1] = Head(call[c]) /\ w[1] \in Write /\ Shorter(w, rest)
             /\ \A d \in Caller : call'[d] = IF d = c THEN rest ELSE <<>>
             /\ Reads(w)
<1>1. PICK w \in Seq(Write) :
        /\ w = call[c] /\ Len(w) \in Nat \ {0} /\ Head(w) = w[1] /\ w[1] \in Write
        /\ \A d \in Caller : d # c => call[d] = <<>>
        /\ Tail(w) \in Seq(Write) /\ Len(Tail(w)) = Len(w) - 1
        /\ \A i \in 1 .. Len(w) - 1 : Tail(w)[i] = w[i + 1]
  BY PerformFacts DEF Perform
<1>2. PICK rest \in Seq(Write) : rest = Tail(w)
  BY <1>1
<1>3. /\ Len(rest) \in Nat /\ Len(w) = Len(rest) + 1
      /\ \A i \in 1 .. Len(rest) : rest[i] = w[i + 1]
  BY <1>1, <1>2
<1>4. \A i \in 1 .. Len(rest) : i + 1 \in 1 .. Len(w)
  BY <1>3
<1>5. ASSUME NEW i \in 1 .. Len(w), i # 1
      PROVE  i - 1 \in 1 .. Len(rest) /\ rest[i - 1] = w[i]
  <2>1. PICK j \in 1 .. Len(rest) : j = i - 1 /\ j + 1 = i
    BY <1>3, <1>5
  <2>2. rest[j] = w[j + 1]
    BY <1>3
  <2> QED
    BY <2>1, <2>2
<1>6. rest # <<>> => rest[Len(rest)] = w[Len(w)]
  <2> SUFFICES ASSUME rest # <<>> PROVE rest[Len(rest)] = w[Len(w)]
    OBVIOUS
  <2>1. Len(rest) # 0
    OBVIOUS
  <2>2. Len(rest) \in 1 .. Len(rest)
    BY <1>3, <2>1
  <2> QED
    BY <1>3, <2>2
<1>7. Shorter(w, rest)
  BY <1>1, <1>3, <1>4, <1>5, <1>6 DEF Shorter
<1>8. call' = [call EXCEPT ![c] = rest] /\ call \in [Caller -> Seq(Write)]
  BY <1>1, <1>2 DEF Perform, LeaseInv, TypeOK
<1>9. \A d \in Caller : call'[d] = IF d = c THEN rest ELSE <<>>
  BY <1>1, <1>8
<1>10. Reads(w)
  BY <1>1 DEF ReadInv, Reads
<1> QED
  BY <1>1, <1>7, <1>9, <1>10

LEMMA RestReads ==
    ASSUME NEW c \in Caller, NEW rest, \A d \in Caller : call'[d] = IF d = c THEN rest ELSE <<>>,
           Reads(rest)'
    PROVE  ReadInv'
<1>1. \A i \in 1 .. Len(<<>>) : FALSE
  OBVIOUS
<1>2. Reads(<<>>)'
  BY <1>1 DEF Reads, SavesFirst, EvictsOlder, DropsAll
<1>3. \A d \in Caller : call'[d] = rest \/ call'[d] = <<>>
  OBVIOUS
<1>4. \A d \in Caller : Reads(call[d])'
  BY <1>2, <1>3
<1> QED
  BY <1>4 DEF ReadInv, Reads

\* A checkpoint that is not the one to be added next loses nothing of it.
LEMMA ReadsOn ==
    ASSUME NEW w, NEW rest, Shorter(w, rest), Reads(w), envelope' = envelope,
           w[1].kind = "checkpoint" => Holds(Added)',
           w[1].kind # "checkpoint" => (Holds(Added) /\ Adds(w[Len(w)]) => Holds(Added)')
    PROVE  Reads(rest)'
<1>1. EvictsOlder(rest)' /\ DropsAll(rest)'
  <2>1. EvictsOlder(rest)'
    BY DEF Reads, EvictsOlder, Shorter
  <2>2. ASSUME NEW m \in 1 .. Len(rest), rest[m].kind = "drop"
        PROVE  rest[Len(rest)].value = Absent
    <3>1. m + 1 \in 1 .. Len(w) /\ rest[m] = w[m + 1] /\ rest # <<>>
      BY DEF Shorter
    <3> QED
      BY <2>2, <3>1 DEF Reads, DropsAll, Shorter
  <2> QED
    BY <2>1, <2>2 DEF DropsAll
<1>2. \A m \in 1 .. Len(rest) : rest[m].kind = "checkpoint" =>
        Adds(rest[Len(rest)])' /\ rest[m].value = Added'
  <2> SUFFICES ASSUME NEW m \in 1 .. Len(rest), rest[m].kind = "checkpoint"
               PROVE  Adds(rest[Len(rest)])' /\ rest[m].value = Added'
    OBVIOUS
  <2>1. m + 1 \in 1 .. Len(w) /\ rest[m] = w[m + 1] /\ rest # <<>>
    BY DEF Shorter
  <2>2. Adds(w[Len(w)]) /\ w[m + 1].value = Added /\ rest[Len(rest)] = w[Len(w)]
    BY <2>1 DEF Reads, SavesFirst, Shorter
  <2> QED
    BY <2>1, <2>2, AddsStay
<1>3. ASSUME rest # <<>>, Adds(rest[Len(rest)])', ~ Holds(Added)'
      PROVE  \E m \in 1 .. Len(rest) : rest[m].kind = "checkpoint"
  <2>1. Adds(w[Len(w)]) /\ w # <<>>
    BY <1>3, AddsStay DEF Shorter
  <2>3. w[1].kind # "checkpoint" /\ ~ Holds(Added)
    BY <1>3, <2>1
  <2>4. PICK m \in 1 .. Len(w) : w[m].kind = "checkpoint"
    BY <2>1, <2>3 DEF Reads, SavesFirst
  <2>5. m # 1
    BY <2>3, <2>4
  <2> QED
    BY <2>4, <2>5 DEF Shorter
<1>4. SavesFirst(rest)'
  BY <1>2, <1>3 DEF SavesFirst
<1> QED
  BY <1>1, <1>4 DEF Reads

\* A checkpoint is saved.
LEMMA SavedReads ==
    ASSUME LeaseInv, ReadInv, NEW c \in Caller, Perform(c), putCheckpoint(c)
    PROVE  ReadInv' /\ (LatestLost' => LatestLost)
<1>1. PICK w \in Seq(Write), rest \in Seq(Write) :
        /\ w = call[c] /\ w[1] = Head(call[c]) /\ w[1] \in Write /\ Shorter(w, rest)
        /\ \A d \in Caller : call'[d] = IF d = c THEN rest ELSE <<>>
        /\ Reads(w)
  BY PerformShortens
<1>2. PICK k : k = w[1].value
  OBVIOUS
<1>3. /\ w[1].kind = "checkpoint" /\ envelope' = envelope
      /\ stored' = [j \in DOMAIN stored \cup {k.sequence} |->
                      IF j = k.sequence THEN k ELSE stored[j]]
  BY <1>1, <1>2 DEF putCheckpoint
<1>4. k = Added /\ envelope # Absent
  <2>1. 1 \in 1 .. Len(w)
    BY <1>1 DEF Shorter
  <2> QED
    BY <1>1, <1>2, <1>3, <2>1 DEF Reads, SavesFirst, Adds
<1>5. k.sequence \in DOMAIN stored' /\ stored'[k.sequence] = k
  BY <1>3
<1>6. Holds(Added)'
  BY <1>3, <1>4, <1>5, AddsStay DEF Holds
<1>7. Reads(rest)'
  BY <1>1, <1>3, <1>6, ReadsOn
<1>8. ASSUME LatestLost' PROVE LatestLost
  <2>1. envelope.latest > 0 /\ envelope.latest \in Nat
    BY <1>3, <1>4, <1>8, EnvelopeTypes DEF LatestLost, LeaseInv, TypeOK
  <2>2. PICK newest : newest = envelope.checkpoints[Len(envelope.checkpoints)]
    OBVIOUS
  <2>3. newest.sequence = envelope.latest
    BY <1>4, <2>1, <2>2, EnvelopeTypes DEF LeaseInv, TypeOK, RingInOrder
  <2>4. k.sequence # newest.sequence
    BY <1>4, <2>1, <2>3 DEF Added
  <2>5. ~ (newest.sequence \in DOMAIN stored' /\ stored'[newest.sequence] = newest)
    BY <1>3, <1>8, <2>2 DEF LatestLost, Holds
  <2>6. ~ Holds(newest)
    BY <1>3, <2>4, <2>5 DEF Holds
  <2> QED
    BY <1>4, <2>1, <2>2, <2>6 DEF LatestLost
<1> QED
  BY <1>1, <1>7, <1>8, RestReads

\* A checkpoint is deleted, for the ring or by a destroy.
LEMMA DeletedReads ==
    ASSUME LeaseInv, ReadInv, Ring > 1, NEW c \in Caller, Perform(c), evict(c) \/ drop(c)
    PROVE  ReadInv' /\ (LatestLost' => LatestLost \/ Destroying)
<1>1. PICK w \in Seq(Write), rest \in Seq(Write) :
        /\ w = call[c] /\ w[1] = Head(call[c]) /\ w[1] \in Write /\ Shorter(w, rest)
        /\ \A d \in Caller : call'[d] = IF d = c THEN rest ELSE <<>>
        /\ Reads(w)
  BY PerformShortens
<1>2. PICK v : v = w[1].value
  OBVIOUS
<1>3. /\ w[1].kind \in {"evict", "drop"} /\ envelope' = envelope
      /\ \/ stored' = stored
         \/ stored' = [j \in DOMAIN stored \ {v} |-> stored[j]]
      /\ w[1].kind = "drop" => Destroying
  BY <1>1, <1>2 DEF evict, drop, Destroying, Perform
<1>4. 1 \in 1 .. Len(w)
  BY <1>1 DEF Shorter
<1>5. CASE w[1].kind = "evict"
  <2>1. envelope # Absent /\ v < envelope.latest
    BY <1>1, <1>2, <1>4, <1>5 DEF Reads, EvictsOlder
  <2>2. v \in Nat /\ envelope.latest \in Nat
    BY <1>1, <1>2, <1>5, <2>1, WriteTypes, EnvelopeTypes DEF LeaseInv, TypeOK
  <2>3. ASSUME NEW k, k.sequence # v, Holds(k) PROVE Holds(k)'
    <3>1. k.sequence \in DOMAIN stored /\ stored[k.sequence] = k
      BY <2>3 DEF Holds
    <3>2. k.sequence \in DOMAIN stored' /\ stored'[k.sequence] = k
      BY <1>3, <2>3, <3>1
    <3> QED
      BY <3>2 DEF Holds
  <2>4. Added.sequence # v
    BY <2>2, <2>1 DEF Added
  <2>5. Holds(Added) => Holds(Added)'
    <3>1. PICK k : k = Added /\ k = Added'
      BY <1>3, AddsStay
    <3> QED
      BY <2>3, <2>4, <3>1 DEF Holds
  <2>6. Reads(rest)'
    BY <1>1, <1>3, <1>5, <2>5, ReadsOn
  <2>7. ASSUME LatestLost' PROVE LatestLost
    <3>1. PICK newest : newest = envelope.checkpoints[Len(envelope.checkpoints)]
      OBVIOUS
    <3>2. envelope.latest > 0
      BY <1>3, <2>7 DEF LatestLost
    <3>3. newest.sequence = envelope.latest
      BY <2>1, <3>1, <3>2, EnvelopeTypes DEF LeaseInv, TypeOK, RingInOrder
    <3>4. newest.sequence # v
      BY <2>1, <2>2, <3>3
    <3>5. ~ Holds(newest)'
      BY <1>3, <2>7, <3>1 DEF LatestLost, Holds
    <3>6. ~ Holds(newest)
      BY <2>3, <3>4, <3>5
    <3> QED
      BY <2>1, <3>1, <3>2, <3>6 DEF LatestLost
  <2> QED
    BY <1>1, <2>6, <2>7, RestReads
<1>6. CASE w[1].kind = "drop"
  <2>1. w[Len(w)].value = Absent
    BY <1>1, <1>4, <1>6 DEF Reads, DropsAll
  <2>2. ~ Adds(w[Len(w)])
    BY <2>1, NotAdds
  <2>3. Reads(rest)'
    BY <1>1, <1>3, <1>6, <2>2, ReadsOn
  <2> QED
    BY <1>1, <1>3, <1>6, <2>3, RestReads
<1> QED
  BY <1>3, <1>5, <1>6

\* The put that ends an append names the checkpoint that was saved.
LEMMA PutGoesRead ==
    ASSUME LeaseInv, ReadInv, NEW c \in Caller, Perform(c), putSnapshot(c)
    PROVE  ReadInv' /\ (LatestLost' => LatestLost)
<1>1. PICK put \in Write :
        /\ put = call[c][Len(call[c])] /\ Sound(put)
        /\ envelope' = put.value /\ stored' = stored
        /\ \A d \in Caller : call'[d] = <<>>
  BY PutFacts
<1>2. ReadInv'
  <2>1. \A i \in 1 .. Len(<<>>) : FALSE
    OBVIOUS
  <2>2. \A d \in Caller : Reads(call[d])'
    BY <1>1, <2>1 DEF Reads, SavesFirst, EvictsOlder, DropsAll
  <2> QED
    BY <2>2 DEF ReadInv, Reads
<1>3. SameRing(put.value) => (LatestLost' => LatestLost)
  BY <1>1 DEF SameRing, LatestLost, Holds
<1>4. CASE Creates(put)
  <2>1. envelope'.latest = 0
    BY <1>1, <1>4 DEF Creates, NewEnvelope
  <2> QED
    BY <1>2, <2>1 DEF LatestLost
<1>5. CASE Clears(put) \/ Leases(put)
  BY <1>1, <1>2, <1>3, <1>5 DEF Clears, Leases, LatestLost
<1>6. CASE Adds(put)
  <2> PICK ring \in Seq(Checkpoint), new \in Seq(Checkpoint), k \in Checkpoint, n \in {0, 1} :
        Grown(put.value, ring, new, k, n)
    BY <1>6, AddMakes
  <2>1. /\ envelope.latest \in Nat /\ Owner = envelope.lease.token
        /\ k.sequence = envelope.latest + 1 /\ k.by = Owner
        /\ put.value.checkpoints = new /\ new[Len(new)] = k
    BY DEF Grown
  <2>2. k = Added
    BY <2>1 DEF Added, Checkpoint
  <2>3. Holds(Added)
    <3>1. PICK w \in Seq(Write), rest \in Seq(Write) :
            w = call[c] /\ w[1] = Head(call[c]) /\ Shorter(w, rest) /\ Reads(w)
      BY PerformShortens
    <3>2. w[1].kind = "snapshot"
      BY <3>1 DEF putSnapshot
    <3>3. SnapshotEnds(w)
      BY <3>1 DEF LeaseInv, SnapshotLast, SnapshotEnds
    <3>4. Len(w) \in Nat /\ Len(w) > 0 /\ w # <<>> /\ 1 \in 1 .. Len(w)
      BY <3>1 DEF Shorter
    <3>5. 1 = Len(w)
      BY <3>2, <3>3, <3>4 DEF SnapshotEnds
    <3>6. \A m \in 1 .. Len(w) : w[m].kind # "checkpoint"
      <4>1. 1 .. Len(w) = 1 .. 1
        BY <3>5
      <4>2. \A m \in 1 .. 1 : m = 1
        OBVIOUS
      <4> QED
        BY <3>2, <4>1, <4>2
    <3> QED
      BY <1>1, <1>6, <3>1, <3>4, <3>6 DEF Reads, SavesFirst
  <2>4. k.sequence \in DOMAIN stored' /\ stored'[k.sequence] = k
    BY <1>1, <2>2, <2>3 DEF Holds
  <2>5. ~ LatestLost'
    BY <1>1, <2>1, <2>4 DEF LatestLost, Holds
  <2> QED
    BY <1>2, <2>5
<1> QED
  BY <1>1, <1>4, <1>5, <1>6 DEF Sound

LEMMA UntouchedReads ==
    ASSUME LeaseInv, ReadInv, envelope' = envelope, stored' = stored,
           \A d \in Caller : call'[d] = call[d] \/ call'[d] = <<>>
    PROVE  ReadInv'
<1>1. \A d \in Caller : Reads(call'[d])
  BY NoWrites DEF ReadInv, Reads
<1>2. \A d \in Caller : Reads(call[d])'
  BY <1>1, SameReads
<1> QED
  BY <1>2 DEF ReadInv, Reads

LEMMA ReadStep ==
    ASSUME Ring > 1, LeaseInv, ReadInv, [Next]_vars
    PROVE  ReadInv'
<1>1. ASSUME NEW c \in Caller, Perform(c) PROVE ReadInv'
  BY <1>1, PutGoesRead, SavedReads, DeletedReads DEF Perform
<1>2. ASSUME NEW c \in Caller, create(c) PROVE ReadInv'
  <2>1. Start(c, <<Put(NewEnvelope, 0)>>) /\ envelope = Absent
    BY <1>2 DEF create
  <2> QED
    BY <2>1, PutReads, StartReads
<1>3. ASSUME NEW c \in Caller, NEW ttl \in Ttl, resumeAcquire(c, ttl) PROVE ReadInv'
  <2>1. PICK v : Start(c, <<Put(v, Len(grants) + 1)>>)
    BY <1>3 DEF resumeAcquire
  <2>2. Len(grants) + 1 # 0
    BY DEF LeaseInv, TypeOK
  <2> QED
    BY <2>1, <2>2, PutReads, StartReads
<1>4. ASSUME NEW c \in Caller, NEW s \in Status, finalize(c, s) PROVE ReadInv'
  <2>1. envelope # Absent /\ Start(c, <<Put([Unleased EXCEPT !.status = s], 0)>>)
    BY <1>4 DEF finalize
  <2>2. SameRing([Unleased EXCEPT !.status = s])
    BY <2>1, EnvelopesMade DEF LeaseInv, TypeOK
  <2> QED
    BY <2>1, <2>2, PutReads, StartReads
<1>5. ASSUME NEW c \in Caller, NEW t \in Token, releaseLease(c, t) PROVE ReadInv'
  <2>1. (Start(c, <<Put(Unleased, 0)>>) /\ envelope # Absent) \/ Start(c, <<>>)
    BY <1>5 DEF releaseLease, HoldsLease
  <2>2. envelope # Absent => SameRing(Unleased)
    BY EnvelopesMade DEF LeaseInv, TypeOK
  <2> QED
    BY <2>1, <2>2, PutReads, NoWrites, StartReads
<1>6. ASSUME NEW c \in Caller, NEW t \in Token, NEW ttl \in Ttl, renewLease(c, t, ttl)
      PROVE  ReadInv'
  <2>1. (Start(c, <<Put(Unleased, 0)>>) /\ envelope # Absent)
          \/ \E v : Start(c, <<Put(v, t)>>)
    BY <1>6 DEF renewLease, HoldsLease
  <2>2. /\ envelope # Absent => SameRing(Unleased)
        /\ t # 0
    BY EnvelopesMade, GrantTypes DEF LeaseInv, TypeOK
  <2> QED
    BY <2>1, <2>2, PutReads, StartReads
<1>7. ASSUME NEW c \in Caller, Crash(c) \/ resumeRefetch(c) PROVE ReadInv'
  <2>1. /\ envelope' = envelope /\ stored' = stored
        /\ \A d \in Caller : call'[d] = call[d] \/ call'[d] = <<>>
    BY <1>7 DEF Crash, resumeRefetch, LeaseInv, TypeOK
  <2> QED
    BY <2>1, UntouchedReads
<1>8. Tick \/ UNCHANGED vars => ReadInv'
  BY UntouchedReads DEF Tick, vars
<1>9. ASSUME NEW c \in Caller, NEW t \in Token, appendCheckpoint(c, t) PROVE ReadInv'
  BY <1>9, AppendReads
<1>10. ASSUME NEW c \in Caller, destroy(c) PROVE ReadInv'
  BY <1>10, DestroyReads
<1> QED
  BY <1>1, <1>2, <1>3, <1>4, <1>5, <1>6, <1>7, <1>8, <1>9, <1>10 DEF Next

\* Only a write changes what can be read.
LEMMA StepReads ==
    ASSUME Ring > 1, LeaseInv, ReadInv, [Next]_vars, LatestLost'
    PROVE  LatestLost \/ Destroying
<1>1. ASSUME NEW c \in Caller, Perform(c) PROVE LatestLost \/ Destroying
  BY <1>1, PutGoesRead, SavedReads, DeletedReads DEF Perform
<1>2. ASSUME envelope' = envelope, stored' = stored PROVE LatestLost
  BY <1>2 DEF LatestLost, Holds
<1>3. (\E c \in Caller : Perform(c)) \/ (envelope' = envelope /\ stored' = stored)
  BY DEF Next, vars, create, resumeRefetch, resumeAcquire, releaseLease, renewLease,
         appendCheckpoint, finalize, destroy, Start, Crash, Tick
<1> QED
  BY <1>1, <1>2, <1>3

-----------------------------------------------------------------------------
(* The theorems: with one call at a time, crashes included. *)

\* The store's variables keep their types.
THEOREM TypeCorrect == Serial => (Spec => []TypeOK)
<1>1. LeaseInv => TypeOK
  BY DEF LeaseInv
<1> QED
  BY <1>1, LeaseInvariance, PTL

\* No two workers believe that they own the session.
THEOREM ExclusiveLease == Serial => (Spec => []LeaseExclusion)
<1>1. LeaseInv => LeaseExclusion
  BY DEF LeaseInv, OwnerTrusted, HoldsLease, LeaseExclusion
<1> QED
  BY <1>1, LeaseInvariance, PTL

\* Short of a destroy, the newest checkpoint is never forgotten again.
THEOREM NothingForgotten == Serial => (Spec => CheckpointsKept)
<1>1. LeaseInv /\ [Next]_vars =>
        [ (envelope # Absent /\ envelope' # Absent) => envelope'.latest >= envelope.latest ]_vars
  <2> SUFFICES ASSUME LeaseInv, [Next]_vars, envelope # Absent, envelope' # Absent
               PROVE  envelope'.latest >= envelope.latest
    OBVIOUS
  <2>1. CASE envelope' = envelope
    BY <2>1, EnvelopeTypes DEF LeaseInv, TypeOK
  <2> QED
    BY <2>1, OnlyPuts, PutKeeps
<1> QED
  BY <1>1, LeaseInvariance, PTL DEF Spec, CheckpointsKept

\* Wherever a call was cut short, the checkpoint that a resume needs is read back
\* as it was appended: only a destroy's deletes lose it.
THEOREM NewestIsReadable == Serial => (Spec => LatestReadable)
<1> SUFFICES ASSUME Serial PROVE Spec => LatestReadable
  OBVIOUS
<1>1. CASE Ring > 1
  <2>1. Init => ReadInv
    BY InitLease DEF IInv
  <2>2. LeaseInv /\ ReadInv /\ [Next]_vars => ReadInv'
    BY <1>1, ReadStep
  <2>3. LeaseInv /\ ReadInv /\ [Next]_vars =>
          [(Ring > 1 /\ LatestLost') => (LatestLost \/ Destroying)]_vars
    BY <1>1, StepReads
  <2> QED
    BY <2>1, <2>2, <2>3, LeaseInvariance, PTL DEF Spec, LatestReadable
<1>2. CASE ~ (Ring > 1)
  <2>1. [Next]_vars => [(Ring > 1 /\ LatestLost') => (LatestLost \/ Destroying)]_vars
    BY <1>2
  <2> QED
    BY <2>1, PTL DEF Spec, LatestReadable
<1> QED
  BY <1>1, <1>2

\* The store implements the contract of a session's lease: exclusive owners, tokens
\* that grow, and checkpoints of the owner only.
THEOREM ContractImplemented == Serial => (Spec => ImplementsContract)
<1> SUFFICES ASSUME Serial PROVE Spec => ImplementsContract
  OBVIOUS
<1>1. Init => Contract!LeaseInit
  BY InitRefines
<1>2. LeaseInv /\ [Next]_vars => [Contract!LeaseNext]_Contract!leaseVars
  BY StepRefines
<1> QED
  BY <1>1, <1>2, LeaseInvariance, PTL DEF Spec, ImplementsContract, Contract!LeaseSpec

=============================================================================
