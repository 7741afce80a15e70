------------------------- MODULE SessionStoreProofs -------------------------
(***************************************************************************)
(* Proofs about SessionStore, for every set of sessions and workers, every *)
(* set of lease durations and every ring size.                             *)
(***************************************************************************)
EXTENDS SessionStore, SequenceTheorems, TLAPS

USE TtlAssumption, RingAssumption, BoundsAssumption, AbsenceAssumption

\* Retention keeps a sequence of the same kind.
LEMMA RetainType ==
    ASSUME NEW S, NEW ring \in Seq(S)
    PROVE  Retain(ring) \in Seq(S)
<1>1. CASE Len(ring) > Ring
  <2>1. \A i \in 1 + Len(ring) - Ring .. Len(ring) : ring[i] \in S
    BY <1>1
  <2> QED
    BY <1>1, <2>1, SubSeqProperties DEF Retain
<1>2. CASE ~ (Len(ring) > Ring)
  BY <1>2 DEF Retain
<1> QED
  BY <1>1, <1>2

LEMMA InitHolds == Init => IInv
<1> SUFFICES ASSUME Init PROVE IInv
  OBVIOUS
<1>1. TypeOK
  BY EmptySeq DEF Init, TypeOK
<1>2. LeaseIssued
  BY DEF Init, LeaseIssued, Present
<1>3. LeaseExclusion
  BY DEF Init, LeaseExclusion, Token
<1> QED
  BY <1>1, <1>2, <1>3 DEF IInv

\* What the invariant says of the lease of a session, in the form the steps use.
LEMMA LeaseFacts ==
    ASSUME IInv, NEW s \in Session, Present(s), entries[s].lease # NoLease
    PROVE  /\ entries[s] \in Entry
           /\ entries[s].lease \in Lease
           /\ entries[s].lease.token \in Token
           /\ grants[entries[s].lease.token].session = s
           /\ grants[entries[s].lease.token].worker = entries[s].lease.worker
           /\ grants[entries[s].lease.token].until <= entries[s].lease.expiresAt
  BY DEF IInv, TypeOK, LeaseIssued, Present, Entry

\* What it says of a fencing token.
LEMMA TokenFacts ==
    ASSUME IInv, NEW t \in Token
    PROVE  /\ grants[t] \in Grant
           /\ grants[t].session \in Session
           /\ Believes(t) => HoldsLease(t)
<1>1. grants[t] \in Grant
  BY ElementOfSeq DEF IInv, TypeOK, Token
<1>2. grants[t].session \in Session
  BY <1>1 DEF Grant
<1>3. Believes(t) => HoldsLease(t)
  BY DEF IInv, LeaseExclusion
<1> QED
  BY <1>1, <1>2, <1>3

\* A token that holds a lease holds the one the invariant speaks of.
LEMMA HolderFacts ==
    ASSUME IInv, NEW t \in Token, HoldsLease(t)
    PROVE  /\ Present(grants[t].session)
           /\ entries[grants[t].session] \in Entry
           /\ entries[grants[t].session].lease \in Lease
           /\ entries[grants[t].session].lease # NoLease
           /\ entries[grants[t].session].lease.token = t
           /\ grants[t].until <= entries[grants[t].session].lease.expiresAt
<1>1. grants[t].session \in Session
  BY TokenFacts
<1>2. Present(grants[t].session) /\ entries[grants[t].session].lease # NoLease
      /\ entries[grants[t].session].lease.token = t
  BY DEF HoldsLease, Present
<1> QED
  BY <1>1, <1>2, LeaseFacts

\* Changing one grant, and neither its session nor its worker.
LEMMA GrantUpdate ==
    ASSUME IInv, NEW t \in Token, NEW g \in Grant, grants' = [grants EXCEPT ![t] = g]
    PROVE  /\ grants' \in Seq(Grant)
           /\ Token' = Token
           /\ \A u \in Token : grants'[u] = IF u = t THEN g ELSE grants[u]
  BY ExceptSeq DEF IInv, TypeOK, Token

LEMMA CreateStep ==
    ASSUME IInv, NEW s \in Session, Create(s) PROVE IInv'
<1> USE DEF Create, Present
<1>1. NewEntry \in Entry /\ NewEntry.lease = NoLease
  BY EmptySeq DEF NewEntry, Entry, Status
<1>2. TypeOK'
  BY <1>1 DEF IInv, TypeOK
<1>3. LeaseIssued'
  <2> SUFFICES ASSUME NEW r \in Session, Present(r)', entries'[r].lease # NoLease
               PROVE  r # s
    BY LeaseFacts DEF LeaseIssued, IInv, TypeOK, Token
  <2> QED
    BY <1>1 DEF IInv, TypeOK
<1>4. LeaseExclusion'
  <2> SUFFICES ASSUME NEW t \in Token, Believes(t) PROVE HoldsLease(t)'
    BY DEF LeaseExclusion, Token, Believes
  <2>1. HoldsLease(t)
    BY TokenFacts
  <2> QED
    BY <2>1, TokenFacts DEF HoldsLease, IInv, TypeOK
<1> QED
  BY <1>2, <1>3, <1>4 DEF IInv

LEMMA TickStep ==
    ASSUME IInv, Tick PROVE IInv'
<1> USE DEF Tick, Present
<1>1. TypeOK'
  BY DEF IInv, TypeOK
<1>2. LeaseIssued'
  BY DEF IInv, LeaseIssued, Token
<1>3. LeaseExclusion'
  <2> SUFFICES ASSUME NEW t \in Token, Believes(t)' PROVE HoldsLease(t)
    BY DEF LeaseExclusion, Token, HoldsLease
  <2>1. Believes(t)
    BY TokenFacts DEF Believes, Grant, IInv, TypeOK
  <2> QED
    BY <2>1, TokenFacts
<1> QED
  BY <1>1, <1>2, <1>3 DEF IInv

LEMMA RefetchStep ==
    ASSUME IInv, NEW w \in Worker, NEW s \in Session, Refetch(w, s) PROVE IInv'
<1> DEFINE l == entries[s].lease
           g == [grants[l.token] EXCEPT !.until = l.expiresAt]
<1>1. l \in Lease /\ l.token \in Token /\ grants[l.token].session = s
  BY LeaseFacts DEF Refetch
<1>2. grants[l.token] \in Grant
  BY <1>1, TokenFacts
<1>3. g \in Grant /\ g.session = s /\ g.worker = grants[l.token].worker
      /\ g.until = l.expiresAt
  BY <1>1, <1>2 DEF Grant, Lease
<1>4. grants' = [grants EXCEPT ![l.token] = g]
  BY DEF Refetch
<1>5. /\ grants' \in Seq(Grant)
      /\ Token' = Token
      /\ \A u \in Token : grants'[u] = IF u = l.token THEN g ELSE grants[u]
  BY <1>1, <1>3, <1>4, GrantUpdate
<1> HIDE DEF g
<1>6. TypeOK'
  BY <1>5 DEF Refetch, IInv, TypeOK
<1>7. LeaseIssued'
  <2> SUFFICES ASSUME NEW r \in Session, Present(r), entries[r].lease # NoLease
               PROVE  LET m == entries[r].lease IN
                      /\ m.token \in Token
                      /\ grants'[m.token].session = r
                      /\ grants'[m.token].worker = m.worker
                      /\ grants'[m.token].until <= m.expiresAt
    BY <1>5 DEF Refetch, LeaseIssued, Present
  <2>1. entries[r].lease \in Lease /\ entries[r].lease.token \in Token
        /\ grants[entries[r].lease.token].session = r
        /\ grants[entries[r].lease.token].worker = entries[r].lease.worker
        /\ grants[entries[r].lease.token].until <= entries[r].lease.expiresAt
    BY LeaseFacts
  <2>2. CASE entries[r].lease.token = l.token
    BY <1>1, <1>3, <1>5, <2>1, <2>2 DEF Lease
  <2>3. CASE entries[r].lease.token # l.token
    BY <1>5, <2>1, <2>3
  <2> QED
    BY <2>2, <2>3
<1>8. LeaseExclusion'
  <2> SUFFICES ASSUME NEW t \in Token, Believes(t)' PROVE HoldsLease(t)'
    BY <1>5 DEF LeaseExclusion
  <2>1. CASE t = l.token
    BY <1>1, <1>3, <1>5, <2>1 DEF Refetch, HoldsLease, Present
  <2>2. CASE t # l.token
    <3>1. Believes(t)
      BY <1>5, <2>2 DEF Believes, Refetch
    <3> QED
      BY <1>5, <2>2, <3>1, TokenFacts DEF HoldsLease, Refetch
  <2> QED
    BY <2>1, <2>2
<1> QED
  BY <1>6, <1>7, <1>8 DEF IInv

LEMMA AcquireStep ==
    ASSUME IInv, NEW w \in Worker, NEW s \in Session, NEW ttl \in Ttl, Acquire(w, s, ttl)
    PROVE  IInv'
<1> DEFINE n == Len(grants) + 1
           l == [worker |-> w, token |-> n, expiresAt |-> now + ttl]
           g == [worker |-> w, session |-> s, until |-> now + ttl, over |-> FALSE]
<1>1. now + ttl \in Nat /\ n \in Nat /\ entries[s] \in Entry
  BY LenProperties DEF Acquire, IInv, TypeOK, Present
<1>2. l \in Lease /\ g \in Grant
  BY <1>1 DEF Lease, Grant
<1>3. grants' = Append(grants, g) /\ grants \in Seq(Grant)
  BY DEF Acquire, IInv, TypeOK
<1>4. /\ grants' \in Seq(Grant)
      /\ Token' = Token \cup {n}
      /\ n \notin Token
      /\ grants'[n] = g
      /\ \A u \in Token : grants'[u] = grants[u]
  BY <1>2, <1>3, AppendProperties, LenProperties DEF Token
<1>5. /\ entries' = [entries EXCEPT ![s] = [entries[s] EXCEPT !.lease = l]]
      /\ [entries[s] EXCEPT !.lease = l] \in Entry
      /\ [entries[s] EXCEPT !.lease = l].lease = l
      /\ now' = now
  BY <1>1, <1>2 DEF Acquire, Entry
<1>6. l.token = n /\ l.worker = w /\ l.expiresAt = now + ttl
      /\ g.worker = w /\ g.session = s /\ g.until = now + ttl
  OBVIOUS
<1> HIDE DEF n, l, g
<1>7. TypeOK'
  BY <1>4, <1>5 DEF IInv, TypeOK
<1>8. \A r \in Session : entries'[r] = IF r = s THEN [entries[s] EXCEPT !.lease = l]
                                                 ELSE entries[r]
  BY <1>5 DEF IInv, TypeOK
<1>9. entries'[s] # Absent /\ entries'[s].lease = l
  BY <1>5, <1>8, AbsenceAssumption
<1>10. LeaseIssued'
  <2> SUFFICES ASSUME NEW r \in Session, Present(r)', entries'[r].lease # NoLease
               PROVE  LET m == entries'[r].lease IN
                      /\ m.token \in Token'
                      /\ grants'[m.token].session = r
                      /\ grants'[m.token].worker = m.worker
                      /\ grants'[m.token].until <= m.expiresAt
    BY DEF LeaseIssued
  <2>1. CASE r = s
    <3>1. entries'[r].lease = l /\ n \in Token' /\ grants'[n] = g
      BY <1>4, <1>9, <2>1
    <3>2. g.until <= l.expiresAt
      BY <1>1, <1>6
    <3> QED
      BY <1>6, <2>1, <3>1, <3>2
  <2>2. CASE r # s
    <3>1. entries'[r] = entries[r]
      BY <1>8, <2>2
    <3>2. /\ entries[r].lease.token \in Token
          /\ grants[entries[r].lease.token].session = r
          /\ grants[entries[r].lease.token].worker = entries[r].lease.worker
          /\ grants[entries[r].lease.token].until <= entries[r].lease.expiresAt
      BY <3>1, LeaseFacts DEF Present
    <3> QED
      BY <1>4, <3>1, <3>2
  <2> QED
    BY <2>1, <2>2
<1>11. LeaseExclusion'
  <2> SUFFICES ASSUME NEW t \in Token', Believes(t)' PROVE HoldsLease(t)'
    BY DEF LeaseExclusion
  <2>1. CASE t = n
    BY <1>2, <1>4, <1>6, <1>9, <2>1, AbsenceAssumption DEF HoldsLease
  <2>2. CASE t \in Token
    <3>1. Believes(t)
      BY <1>4, <1>5, <2>2 DEF Believes
    <3>2. HoldsLease(t) /\ grants[t] \in Grant
      BY <2>2, <3>1, TokenFacts
    <3>3. grants[t].session # s
      <4> SUFFICES ASSUME grants[t].session = s PROVE FALSE
        OBVIOUS
      <4>1. entries[s].lease # NoLease /\ entries[s].lease \in Lease
            /\ grants[t].until <= entries[s].lease.expiresAt
        BY <2>2, <3>2, HolderFacts
      <4>2. leaseExpired(entries[s].lease)
        BY <4>1 DEF Acquire
      <4> QED
        BY <3>1, <3>2, <4>1, <4>2 DEF leaseExpired, Believes, Lease, Grant, IInv, TypeOK
    <3> QED
      BY <1>4, <1>8, <2>2, <3>2, <3>3, TokenFacts DEF HoldsLease
  <2> QED
    BY <1>4, <2>1, <2>2
<1> QED
  BY <1>7, <1>10, <1>11 DEF IInv

\* A step after which session s has no lease and nobody believes in one.
LEMMA LeaseDropped ==
    ASSUME IInv, NEW s \in Session, NEW e \in Entry \cup {Absent},
           e # Absent => e.lease = NoLease,
           entries' = [entries EXCEPT ![s] = e], now' = now,
           grants' \in Seq(Grant), Token' = Token,
           \A u \in Token : grants[u].session # s => grants'[u] = grants[u],
           \A u \in Token : grants[u].session = s => ~ Believes(u)'
    PROVE  IInv'
<1>1. \A r \in Session : entries'[r] = IF r = s THEN e ELSE entries[r]
  BY DEF IInv, TypeOK
<1>2. TypeOK'
  BY DEF IInv, TypeOK
<1>3. LeaseIssued'
  <2> SUFFICES ASSUME NEW r \in Session, Present(r)', entries'[r].lease # NoLease
               PROVE  LET m == entries'[r].lease IN
                      /\ m.token \in Token
                      /\ grants'[m.token].session = r
                      /\ grants'[m.token].worker = m.worker
                      /\ grants'[m.token].until <= m.expiresAt
    BY DEF LeaseIssued
  <2>1. r # s /\ entries'[r] = entries[r]
    BY <1>1 DEF Present
  <2>2. /\ entries[r].lease.token \in Token
        /\ grants[entries[r].lease.token].session = r
        /\ grants[entries[r].lease.token].worker = entries[r].lease.worker
        /\ grants[entries[r].lease.token].until <= entries[r].lease.expiresAt
    BY <2>1, LeaseFacts DEF Present
  <2> QED
    BY <2>1, <2>2
<1>4. LeaseExclusion'
  <2> SUFFICES ASSUME NEW t \in Token, Believes(t)' PROVE HoldsLease(t)'
    BY DEF LeaseExclusion
  <2>1. grants[t].session # s /\ grants'[t] = grants[t]
    OBVIOUS
  <2>2. Believes(t)
    BY <2>1 DEF Believes
  <2> QED
    BY <1>1, <2>1, <2>2, TokenFacts DEF HoldsLease
<1> QED
  BY <1>2, <1>3, <1>4 DEF IInv

LEMMA ReleaseStep ==
    ASSUME IInv, NEW t \in Token, releaseLease(t) PROVE IInv'
<1> DEFINE s == grants[t].session
           g == [grants[t] EXCEPT !.over = TRUE]
<1>1. s \in Session /\ grants[t] \in Grant
  BY TokenFacts
<1>2. g \in Grant /\ g.over /\ g.session = s /\ g.worker = grants[t].worker
  BY <1>1 DEF Grant
<1>3. /\ grants' \in Seq(Grant)
      /\ Token' = Token
      /\ \A u \in Token : grants'[u] = IF u = t THEN g ELSE grants[u]
  <2>1. grants' = [grants EXCEPT ![t] = g]
    BY DEF releaseLease
  <2> QED
    BY <1>2, <2>1, GrantUpdate
<1> HIDE DEF g
<1>4. now' = now /\ now \in Nat
  BY DEF releaseLease, IInv, TypeOK
<1>5. ~ Believes(t)'
  BY <1>2, <1>3, <1>4 DEF Believes
<1>6. CASE HoldsLease(t)
  <2> DEFINE e == [entries[s] EXCEPT !.lease = NoLease]
  <2>1. entries[s] \in Entry
    BY <1>6, HolderFacts
  <2>2. e \in Entry /\ e.lease = NoLease
    BY <2>1 DEF Entry
  <2>3. entries' = [entries EXCEPT ![s] = e]
    BY <1>6 DEF releaseLease
  <2>4. \A u \in Token : grants[u].session = s => ~ Believes(u)'
    <3> SUFFICES ASSUME NEW u \in Token, grants[u].session = s, Believes(u)', u # t
                 PROVE  FALSE
      BY <1>5
    <3>1. Believes(u)
      BY <1>3, <1>4 DEF Believes
    <3> QED
      BY <1>6, <3>1, TokenFacts DEF HoldsLease
  <2> HIDE DEF e
  <2> QED
    BY <1>1, <1>3, <1>4, <2>2, <2>3, <2>4, LeaseDropped
<1>7. CASE ~ HoldsLease(t)
  <2>1. entries' = entries
    BY <1>7 DEF releaseLease
  <2>2. TypeOK'
    BY <1>3, <1>4, <2>1 DEF IInv, TypeOK
  <2>3. LeaseIssued'
    <3> SUFFICES ASSUME NEW r \in Session, Present(r), entries[r].lease # NoLease
                 PROVE  LET m == entries[r].lease IN
                        /\ m.token \in Token
                        /\ grants'[m.token].session = r
                        /\ grants'[m.token].worker = m.worker
                        /\ grants'[m.token].until <= m.expiresAt
      BY <1>3, <2>1 DEF LeaseIssued, Present
    <3>1. /\ entries[r].lease.token \in Token
          /\ grants[entries[r].lease.token].session = r
          /\ grants[entries[r].lease.token].worker = entries[r].lease.worker
          /\ grants[entries[r].lease.token].until <= entries[r].lease.expiresAt
      BY LeaseFacts
    <3>2. entries[r].lease.token # t
      BY <1>7, <3>1 DEF HoldsLease, Present
    <3> QED
      BY <1>3, <3>1, <3>2
  <2>4. LeaseExclusion'
    <3> SUFFICES ASSUME NEW u \in Token, Believes(u)', u # t PROVE HoldsLease(u)'
      BY <1>3, <1>5 DEF LeaseExclusion
    <3>1. Believes(u)
      BY <1>3, <1>4 DEF Believes
    <3> QED
      BY <1>3, <2>1, <3>1, TokenFacts DEF HoldsLease
  <2> QED
    BY <2>2, <2>3, <2>4 DEF IInv
<1> QED
  BY <1>6, <1>7

LEMMA ClearExpiredStep ==
    ASSUME IInv, NEW t \in Token, ClearExpired(t) PROVE IInv'
<1> DEFINE s == grants[t].session
           e == [entries[s] EXCEPT !.lease = NoLease]
<1>1. s \in Session /\ HoldsLease(t) /\ grants' = grants /\ now' = now
  BY TokenFacts DEF ClearExpired
<1>2. entries[s] \in Entry /\ entries[s].lease \in Lease /\ entries[s].lease.token = t
      /\ grants[t].until <= entries[s].lease.expiresAt
  BY <1>1, HolderFacts
<1>3. e \in Entry /\ e.lease = NoLease
  BY <1>2 DEF Entry
<1>4. entries' = [entries EXCEPT ![s] = e]
  BY DEF ClearExpired
<1>5. \A u \in Token : grants[u].session = s => ~ Believes(u)'
  <2> SUFFICES ASSUME NEW u \in Token, grants[u].session = s, Believes(u)
               PROVE  FALSE
    BY <1>1 DEF Believes
  <2>1. HoldsLease(u) /\ grants[u] \in Grant
    BY TokenFacts
  <2>2. u = t
    BY <1>2, <2>1 DEF HoldsLease
  <2>3. entries[s].lease.expiresAt <= now
    BY DEF ClearExpired, leaseExpired
  <2> QED
    BY <1>2, <2>1, <2>2, <2>3 DEF Believes, Grant, Lease, IInv, TypeOK
<1>6. grants' \in Seq(Grant) /\ Token' = Token
  BY <1>1 DEF Token, IInv, TypeOK
<1> HIDE DEF e
<1> QED
  BY <1>1, <1>3, <1>4, <1>5, <1>6, LeaseDropped

LEMMA RevokeFacts ==
    ASSUME IInv, NEW s \in Session, Present(s), Revoke(s), now' = now
    PROVE  /\ grants' \in Seq(Grant)
           /\ Token' = Token
           /\ \A u \in Token : grants[u].session # s => grants'[u] = grants[u]
           /\ \A u \in Token : grants[u].session = s => ~ Believes(u)'
<1>1. CASE entries[s].lease = NoLease
  <2>1. grants' = grants
    BY <1>1 DEF Revoke
  <2>2. grants' \in Seq(Grant) /\ Token' = Token
    BY <2>1 DEF Token, IInv, TypeOK
  <2>3. \A u \in Token : grants[u].session = s => ~ Believes(u)'
    BY <1>1, <2>1, TokenFacts DEF HoldsLease, Believes
  <2> QED
    BY <2>1, <2>2, <2>3
<1>2. CASE entries[s].lease # NoLease
  <2> DEFINE k == entries[s].lease.token
             g == [grants[k] EXCEPT !.over = TRUE]
  <2>1. k \in Token /\ grants[k].session = s
    BY <1>2, LeaseFacts
  <2>2. g \in Grant /\ g.over
    BY <2>1, TokenFacts DEF Grant
  <2>3. grants' = [grants EXCEPT ![k] = g]
    BY <1>2 DEF Revoke
  <2>4. /\ grants' \in Seq(Grant)
        /\ Token' = Token
        /\ \A u \in Token : grants'[u] = IF u = k THEN g ELSE grants[u]
    BY <2>1, <2>2, <2>3, GrantUpdate
  <2> HIDE DEF g
  <2>5. \A u \in Token : grants[u].session # s => grants'[u] = grants[u]
    BY <2>1, <2>4
  <2>6. ASSUME NEW u \in Token, grants[u].session = s, Believes(u)' PROVE FALSE
    <3>1. u # k
      BY <2>2, <2>4, <2>6 DEF Believes
    <3>2. HoldsLease(u)
      BY <2>4, <2>6, <3>1, TokenFacts DEF Believes
    <3> QED
      BY <2>6, <3>1, <3>2 DEF HoldsLease
  <2> QED
    BY <2>4, <2>5, <2>6
<1> QED
  BY <1>1, <1>2

LEMMA FinalizeStep ==
    ASSUME IInv, NEW s \in Session, NEW status \in Status, finalize(s, status) PROVE IInv'
<1> DEFINE e == [entries[s] EXCEPT !.status = status, !.lease = NoLease]
<1>1. entries[s] \in Entry
  BY DEF finalize, Present, IInv, TypeOK
<1>2. e \in Entry /\ e.lease = NoLease
  BY <1>1 DEF Entry
<1>3. entries' = [entries EXCEPT ![s] = e] /\ now' = now
  BY DEF finalize
<1> HIDE DEF e
<1> QED
  BY <1>2, <1>3, RevokeFacts, LeaseDropped DEF finalize

LEMMA DestroyStep ==
    ASSUME IInv, NEW s \in Session, destroy(s) PROVE IInv'
  BY RevokeFacts, LeaseDropped DEF destroy

LEMMA RenewStep ==
    ASSUME IInv, NEW t \in Token, NEW ttl \in Ttl, renewLease(t, ttl) PROVE IInv'
<1> DEFINE s == grants[t].session
           l == [entries[s].lease EXCEPT !.expiresAt = now + ttl]
           e == [entries[s] EXCEPT !.lease = l]
           g == [grants[t] EXCEPT !.until = now + ttl]
<1>1. s \in Session /\ grants[t] \in Grant /\ now + ttl \in Nat
  BY TokenFacts DEF IInv, TypeOK
<1>2. /\ entries[s] \in Entry
      /\ entries[s].lease \in Lease
      /\ entries[s].lease.token = t
  BY HolderFacts DEF renewLease
<1>3. l \in Lease /\ l.token = t /\ l.worker = entries[s].lease.worker
      /\ l.expiresAt = now + ttl
  BY <1>1, <1>2 DEF Lease
<1>4. e \in Entry /\ e.lease = l
  BY <1>2, <1>3 DEF Entry
<1>5. g \in Grant /\ g.session = s /\ g.worker = grants[t].worker /\ g.until = now + ttl
  BY <1>1 DEF Grant
<1>6. entries' = [entries EXCEPT ![s] = e] /\ now' = now
  BY DEF renewLease
<1>7. /\ grants' \in Seq(Grant)
      /\ Token' = Token
      /\ \A u \in Token : grants'[u] = IF u = t THEN g ELSE grants[u]
  <2>1. grants' = [grants EXCEPT ![t] = g]
    BY DEF renewLease
  <2> QED
    BY <1>5, <2>1, GrantUpdate
<1> HIDE DEF l, e, g
<1>8. \A r \in Session : entries'[r] = IF r = s THEN e ELSE entries[r]
  BY <1>6 DEF IInv, TypeOK
<1>9. e # Absent /\ l # NoLease
  BY <1>3, <1>4, AbsenceAssumption
<1>10. TypeOK'
  BY <1>4, <1>6, <1>7 DEF IInv, TypeOK
<1>11. LeaseIssued'
  <2> SUFFICES ASSUME NEW r \in Session, Present(r)', entries'[r].lease # NoLease
               PROVE  LET m == entries'[r].lease IN
                      /\ m.token \in Token
                      /\ grants'[m.token].session = r
                      /\ grants'[m.token].worker = m.worker
                      /\ grants'[m.token].until <= m.expiresAt
    BY <1>7 DEF LeaseIssued
  <2>1. CASE r = s
    <3>1. grants[t].worker = entries[s].lease.worker
      BY <1>1, <1>2, <1>3, LeaseFacts, AbsenceAssumption DEF Present
    <3>2. entries'[r].lease = l /\ grants'[t] = g
      BY <1>4, <1>7, <1>8, <2>1
    <3>3. g.until <= l.expiresAt
      BY <1>1, <1>3, <1>5
    <3> QED
      BY <1>3, <1>5, <2>1, <3>1, <3>2, <3>3
  <2>2. CASE r # s
    <3>1. entries'[r] = entries[r]
      BY <1>8, <2>2
    <3>2. /\ entries[r].lease.token \in Token
          /\ grants[entries[r].lease.token].session = r
          /\ grants[entries[r].lease.token].worker = entries[r].lease.worker
          /\ grants[entries[r].lease.token].until <= entries[r].lease.expiresAt
      BY <3>1, LeaseFacts DEF Present
    <3>3. entries[r].lease.token # t
      BY <2>2, <3>2
    <3> QED
      BY <1>7, <3>1, <3>2, <3>3
  <2> QED
    BY <2>1, <2>2
<1>12. LeaseExclusion'
  <2> SUFFICES ASSUME NEW u \in Token, Believes(u)' PROVE HoldsLease(u)'
    BY <1>7 DEF LeaseExclusion
  <2>1. CASE u = t
    BY <1>1, <1>3, <1>4, <1>5, <1>7, <1>8, <1>9, <2>1 DEF HoldsLease
  <2>2. CASE u # t
    <3>1. Believes(u) /\ grants'[u] = grants[u]
      BY <1>6, <1>7, <2>2 DEF Believes
    <3>2. HoldsLease(u)
      BY <3>1, TokenFacts
    <3>3. grants[u].session # s
      BY <1>2, <2>2, <3>2 DEF HoldsLease
    <3> QED
      BY <1>8, <3>1, <3>2, <3>3, TokenFacts DEF HoldsLease
  <2> QED
    BY <2>1, <2>2
<1> QED
  BY <1>10, <1>11, <1>12 DEF IInv

LEMMA AppendStep ==
    ASSUME IInv, NEW t \in Token, NEW seq \in 1 .. MaxSeq, appendCheckpoint(t, seq)
    PROVE  IInv'
<1> DEFINE s == grants[t].session
           c == [sequence |-> seq, by |-> t]
           ring == Retain(Append(entries[s].checkpoints, c))
           e == [entries[s] EXCEPT !.checkpoints = ring, !.latest = seq]
<1>1. s \in Session /\ entries[s] \in Entry
  BY TokenFacts, HolderFacts DEF appendCheckpoint
<1>2. t \in Nat /\ seq \in Nat
  BY BoundsAssumption DEF Token, IInv, TypeOK
<1>3. ring \in Seq(Checkpoint)
  <2>1. c \in Checkpoint
    BY <1>2 DEF Checkpoint
  <2>2. entries[s].checkpoints \in Seq(Checkpoint)
    BY <1>1 DEF Entry
  <2>3. Append(entries[s].checkpoints, c) \in Seq(Checkpoint)
    BY <2>1, <2>2, AppendProperties
  <2> QED
    BY <2>3, RetainType
<1> HIDE DEF ring, c
<1>4. e \in Entry /\ e.lease = entries[s].lease
  BY <1>1, <1>2, <1>3 DEF Entry
<1>5. entries' = [entries EXCEPT ![s] = e] /\ grants' = grants /\ now' = now /\ Token' = Token
  BY DEF appendCheckpoint, ring, c, Token
<1> HIDE DEF e
<1>6. \A r \in Session : entries'[r] = IF r = s THEN e ELSE entries[r]
  BY <1>5 DEF IInv, TypeOK
<1>7. \A r \in Session : (Present(r)' <=> Present(r)) /\ entries'[r].lease = entries[r].lease
  BY <1>1, <1>4, <1>6, AbsenceAssumption DEF Present
<1>8. TypeOK'
  BY <1>4, <1>5 DEF IInv, TypeOK
<1>9. LeaseIssued'
  BY <1>5, <1>7 DEF IInv, LeaseIssued
<1>10. LeaseExclusion'
  <2> SUFFICES ASSUME NEW u \in Token, Believes(u) PROVE HoldsLease(u)'
    BY <1>5 DEF LeaseExclusion, Believes
  <2> QED
    BY <1>5, <1>7, TokenFacts DEF HoldsLease, Present
<1> QED
  BY <1>8, <1>9, <1>10 DEF IInv

LEMMA StepHolds == IInv /\ [Next]_vars => IInv'
<1> SUFFICES ASSUME IInv, [Next]_vars PROVE IInv'
  OBVIOUS
<1>1. CASE UNCHANGED vars
  BY <1>1 DEF vars, IInv, TypeOK, LeaseIssued, LeaseExclusion, Token, HoldsLease, Believes, Present
<1>2. ASSUME NEW s \in Session,
             \/ Create(s)
             \/ \E w \in Worker : Refetch(w, s) \/ \E ttl \in Ttl : Acquire(w, s, ttl)
             \/ \E status \in Status : finalize(s, status)
             \/ destroy(s)
      PROVE  IInv'
  BY <1>2, CreateStep, RefetchStep, AcquireStep, FinalizeStep, DestroyStep
<1>3. ASSUME NEW t \in Token,
             \/ releaseLease(t)
             \/ \E ttl \in Ttl : renewLease(t, ttl)
             \/ ClearExpired(t)
             \/ \E seq \in 1 .. MaxSeq : appendCheckpoint(t, seq)
      PROVE  IInv'
  BY <1>3, ReleaseStep, RenewStep, ClearExpiredStep, AppendStep
<1> QED
  BY <1>1, <1>2, <1>3, TickStep DEF Next

\* The variables of the store keep their types.
THEOREM TypeCorrect == Spec => []TypeOK
<1>1. IInv => TypeOK
  BY DEF IInv
<1> QED
  BY InitHolds, StepHolds, <1>1, PTL DEF Spec

\* A caller whose lease has not run out by what it was told, and was not taken
\* from it by finalize or destroy, holds the lease the store checks against:
\* two callers never both believe they own a session.
THEOREM LeaseExclusionHolds == Spec => []LeaseExclusion
<1>1. IInv => LeaseExclusion
  BY DEF IInv
<1> QED
  BY InitHolds, StepHolds, <1>1, PTL DEF Spec

-----------------------------------------------------------------------------
(* The ring and the order of its authors. *)

\* A step after which every session has the ring it had, and no new lease.
LEMMA RingKept ==
    ASSUME RingInv, Token \subseteq Token',
           \A s \in Session : Present(s)' =>
             /\ Present(s)
             /\ entries'[s].latest = entries[s].latest
             /\ entries'[s].checkpoints = entries[s].checkpoints
             /\ entries'[s].lease # NoLease =>
                  /\ entries[s].lease # NoLease
                  /\ entries'[s].lease.token = entries[s].lease.token
    PROVE  RingInv'
<1>1. RingIsNewest'
  BY DEF RingInv, RingIsNewest
<1>2. FencingOrder'
  BY DEF RingInv, FencingOrder
<1>3. AuthorsIssued'
  BY DEF RingInv, AuthorsIssued
<1> QED
  BY <1>1, <1>2, <1>3 DEF RingInv

LEMMA CreateRing ==
    ASSUME IInv, RingInv, NEW s \in Session, Create(s) PROVE RingInv'
<1>1. /\ NewEntry.latest = 0
      /\ NewEntry.checkpoints = <<>>
      /\ NewEntry.lease = NoLease
      /\ Len(<<>>) = 0
  BY DEF NewEntry
<1>2. \A r \in Session : entries'[r] = IF r = s THEN NewEntry ELSE entries[r]
  BY DEF Create, IInv, TypeOK
<1>3. Token' = Token
  BY DEF Create, Token
<1>4. RingIsNewest'
  <2> SUFFICES ASSUME NEW r \in Session, Present(r)'
               PROVE  LET e == entries'[r] IN
                      /\ Len(e.checkpoints) = IF e.latest < Ring THEN e.latest ELSE Ring
                      /\ \A i \in 1 .. Len(e.checkpoints) :
                           e.checkpoints[i].sequence = e.latest - Len(e.checkpoints) + i
    BY DEF RingIsNewest
  <2>1. CASE r = s
    BY <1>1, <1>2, <2>1
  <2>2. CASE r # s
    BY <1>2, <2>2 DEF RingInv, RingIsNewest, Present
  <2> QED
    BY <2>1, <2>2
<1>5. FencingOrder'
  <2> SUFFICES ASSUME NEW r \in Session, Present(r)'
               PROVE  LET e == entries'[r] IN
                      /\ \A i, j \in 1 .. Len(e.checkpoints) :
                           i <= j => e.checkpoints[i].by <= e.checkpoints[j].by
                      /\ e.lease # NoLease =>
                           \A i \in 1 .. Len(e.checkpoints) : e.checkpoints[i].by <= e.lease.token
    BY DEF FencingOrder
  <2>1. CASE r = s
    BY <1>1, <1>2, <2>1
  <2>2. CASE r # s
    BY <1>2, <2>2 DEF RingInv, FencingOrder, Present
  <2> QED
    BY <2>1, <2>2
<1>6. AuthorsIssued'
  BY <1>1, <1>2, <1>3 DEF RingInv, AuthorsIssued, Present
<1> QED
  BY <1>4, <1>5, <1>6 DEF RingInv

LEMMA AcquireRing ==
    ASSUME IInv, RingInv, NEW w \in Worker, NEW s \in Session, NEW ttl \in Ttl,
           Acquire(w, s, ttl)
    PROVE  RingInv'
<1> DEFINE l == [worker |-> w, token |-> Len(grants) + 1, expiresAt |-> now + ttl]
<1>1. entries[s] \in Entry /\ l.token = Len(grants) + 1
  BY DEF Acquire, Present, IInv, TypeOK
<1>2. \A r \in Session : entries'[r] = IF r = s THEN [entries[s] EXCEPT !.lease = l]
                                                 ELSE entries[r]
  BY DEF Acquire, IInv, TypeOK
<1>3. /\ [entries[s] EXCEPT !.lease = l].lease = l
      /\ [entries[s] EXCEPT !.lease = l].checkpoints = entries[s].checkpoints
      /\ [entries[s] EXCEPT !.lease = l].latest = entries[s].latest
  BY <1>1 DEF Entry
<1>4. \A r \in Session : /\ entries'[r].checkpoints = entries[r].checkpoints
                         /\ entries'[r].latest = entries[r].latest
                         /\ Present(r)' => Present(r)
                         /\ r # s => entries'[r] = entries[r]
  BY <1>2, <1>3 DEF Acquire, Present
<1>5. Len(grants) \in Nat /\ Len(grants') = Len(grants) + 1
  <2>1. [worker |-> w, session |-> s, until |-> now + ttl, over |-> FALSE] \in Grant
    BY DEF Grant, IInv, TypeOK
  <2> QED
    BY <2>1, LenProperties, AppendProperties DEF Acquire, IInv, TypeOK
<1>6. Token \subseteq Token'
  BY <1>5 DEF Token
<1> HIDE DEF l
<1>7. RingIsNewest'
  BY <1>4 DEF RingInv, RingIsNewest
<1>8. FencingOrder'
  <2> SUFFICES ASSUME NEW r \in Session, Present(r)'
               PROVE  /\ \A i, j \in 1 .. Len(entries'[r].checkpoints) :
                           i <= j => entries'[r].checkpoints[i].by <= entries'[r].checkpoints[j].by
                      /\ entries'[r].lease # NoLease =>
                           \A i \in 1 .. Len(entries'[r].checkpoints) :
                             entries'[r].checkpoints[i].by <= entries'[r].lease.token
    BY DEF FencingOrder
  <2>1. \A i, j \in 1 .. Len(entries'[r].checkpoints) :
          i <= j => entries'[r].checkpoints[i].by <= entries'[r].checkpoints[j].by
    BY <1>4 DEF RingInv, FencingOrder
  <2>2. CASE r = s
    <3>1. entries'[r].lease.token = Len(grants) + 1
      BY <1>1, <1>2, <1>3, <2>2
    <3>2. \A i \in 1 .. Len(entries[r].checkpoints) : entries[r].checkpoints[i].by \in Token
      BY <1>4 DEF RingInv, AuthorsIssued
    <3>3. \A i \in 1 .. Len(entries[r].checkpoints) :
            entries[r].checkpoints[i].by <= Len(grants) + 1
      BY <1>5, <3>2 DEF Token
    <3> QED
      BY <1>4, <2>1, <3>1, <3>3
  <2>3. CASE r # s
    BY <1>4, <2>3 DEF RingInv, FencingOrder
  <2> QED
    BY <2>2, <2>3
<1>9. AuthorsIssued'
  BY <1>4, <1>6 DEF RingInv, AuthorsIssued
<1> QED
  BY <1>7, <1>8, <1>9 DEF RingInv

\* What the ring holds after a push.
LEMMA RetainElements ==
    ASSUME NEW S, NEW ring \in Seq(S)
    PROVE  /\ Len(Retain(ring)) = IF Len(ring) < Ring THEN Len(ring) ELSE Ring
           /\ \A i \in 1 .. Len(Retain(ring)) :
                /\ i + Len(ring) - Len(Retain(ring)) \in 1 .. Len(ring)
                /\ Retain(ring)[i] = ring[i + Len(ring) - Len(Retain(ring))]
<1>1. Len(ring) \in Nat /\ Ring \in Nat \ {0}
  BY LenProperties, RingAssumption
<1>2. CASE Len(ring) > Ring
  <2> DEFINE m == 1 + Len(ring) - Ring
  <2>1. m \in Int /\ Len(ring) \in Int /\ m <= Len(ring) /\ Len(ring) - m + 1 = Ring
    BY <1>1, <1>2
  <2>2. \A i \in m .. Len(ring) : ring[i] \in S
    BY <1>1, <1>2
  <2>3. Retain(ring) = SubSeq(ring, m, Len(ring))
    BY <1>2 DEF Retain
  <2> HIDE DEF m
  <2>4. Len(Retain(ring)) = Ring
    BY <2>1, <2>2, <2>3, SubSeqProperties
  <2>5. \A i \in 1 .. Ring : Retain(ring)[i] = ring[m + i - 1]
    BY <2>1, <2>2, <2>3, SubSeqProperties
  <2> QED
    BY <1>1, <1>2, <2>4, <2>5 DEF m
<1>3. CASE ~ (Len(ring) > Ring)
  BY <1>1, <1>3 DEF Retain
<1> QED
  BY <1>2, <1>3

LEMMA AppendRing ==
    ASSUME IInv, RingInv, NEW t \in Token, NEW seq \in 1 .. MaxSeq, appendCheckpoint(t, seq)
    PROVE  RingInv'
<1> DEFINE s == grants[t].session
           old == entries[s].checkpoints
           c == [sequence |-> seq, by |-> t]
           pushed == Append(old, c)
           ring == Retain(pushed)
           e == [entries[s] EXCEPT !.checkpoints = ring, !.latest = seq]
<1>1. /\ s \in Session
      /\ Present(s)
      /\ entries[s] \in Entry
      /\ entries[s].lease # NoLease
      /\ entries[s].lease.token = t
  BY TokenFacts, HolderFacts DEF appendCheckpoint
<1>2. /\ old \in Seq(Checkpoint)
      /\ entries[s].latest \in Nat
      /\ seq = entries[s].latest + 1
      /\ t \in Nat
      /\ seq \in Nat
      /\ Len(old) \in Nat
  BY <1>1, BoundsAssumption, LenProperties DEF Entry, appendCheckpoint, Token, IInv, TypeOK
<1>3. c \in Checkpoint /\ c.sequence = seq /\ c.by = t
  BY <1>2 DEF Checkpoint
<1> HIDE DEF c, old
<1>4. /\ pushed \in Seq(Checkpoint)
      /\ Len(pushed) = Len(old) + 1
      /\ \A i \in 1 .. Len(old) : pushed[i] = old[i]
      /\ pushed[Len(old) + 1] = c
  BY <1>2, <1>3, AppendProperties
<1> HIDE DEF pushed
<1>5. /\ Len(ring) = IF Len(pushed) < Ring THEN Len(pushed) ELSE Ring
      /\ \A i \in 1 .. Len(ring) :
           /\ i + Len(pushed) - Len(ring) \in 1 .. Len(pushed)
           /\ ring[i] = pushed[i + Len(pushed) - Len(ring)]
  BY <1>4, RetainElements
<1>6. entries' = [entries EXCEPT ![s] = e] /\ Token' = Token
  BY DEF appendCheckpoint, ring, pushed, c, old, Token
<1> HIDE DEF ring
<1>7. e.lease = entries[s].lease /\ e.checkpoints = ring /\ e.latest = seq
  BY <1>1 DEF Entry
<1> HIDE DEF e
<1>8. \A r \in Session : entries'[r] = IF r = s THEN e ELSE entries[r]
  BY <1>6 DEF IInv, TypeOK
<1>9. /\ Len(old) = IF entries[s].latest < Ring THEN entries[s].latest ELSE Ring
      /\ \A i \in 1 .. Len(old) : old[i].sequence = entries[s].latest - Len(old) + i
  BY <1>1 DEF RingInv, RingIsNewest, old
<1>10. \A i \in 1 .. Len(pushed) : pushed[i].sequence = seq - Len(pushed) + i
  <2> SUFFICES ASSUME NEW i \in 1 .. Len(pushed)
               PROVE  pushed[i].sequence = seq - Len(pushed) + i
    OBVIOUS
  <2>1. CASE i = Len(old) + 1
    BY <1>2, <1>3, <1>4, <2>1
  <2>2. CASE i \in 1 .. Len(old)
    <3>1. pushed[i].sequence = entries[s].latest - Len(old) + i
      BY <1>4, <1>9, <2>2
    <3> QED
      BY <1>2, <1>4, <2>2, <3>1
  <2> QED
    BY <1>2, <1>4, <2>1, <2>2
<1>11. /\ \A i, j \in 1 .. Len(old) : i <= j => old[i].by <= old[j].by
       /\ \A i \in 1 .. Len(old) : old[i].by \in Token /\ old[i].by <= t
  BY <1>1 DEF RingInv, FencingOrder, AuthorsIssued, old
<1>12. /\ \A i, j \in 1 .. Len(pushed) : i <= j => pushed[i].by <= pushed[j].by
       /\ \A i \in 1 .. Len(pushed) : pushed[i].by \in Token /\ pushed[i].by <= t
  <2>1. \A i \in 1 .. Len(pushed) : i \in 1 .. Len(old) \/ i = Len(old) + 1
    BY <1>2, <1>4
  <2>2. \A i \in 1 .. Len(pushed) : pushed[i].by \in Token /\ pushed[i].by <= t
    BY <1>2, <1>3, <1>4, <1>11, <2>1
  <2>3. ASSUME NEW i \in 1 .. Len(pushed), NEW j \in 1 .. Len(pushed), i <= j
        PROVE  pushed[i].by <= pushed[j].by
    <3>1. CASE j = Len(old) + 1
      <4>1. pushed[j].by = t
        BY <1>3, <1>4, <3>1
      <4> QED
        BY <2>2, <4>1
    <3>2. CASE j \in 1 .. Len(old)
      <4>1. i \in 1 .. Len(old)
        BY <1>2, <2>1, <2>3, <3>2
      <4>2. pushed[i] = old[i] /\ pushed[j] = old[j]
        BY <1>4, <3>2, <4>1
      <4> QED
        BY <1>11, <2>3, <3>2, <4>1, <4>2
    <3> QED
      BY <2>1, <3>1, <3>2
  <2> QED
    BY <2>2, <2>3
<1>13. RingIsNewest'
  <2>1. Len(ring) = IF seq < Ring THEN seq ELSE Ring
    <3>1. Len(pushed) = Len(old) + 1 /\ Len(old) \in Nat /\ entries[s].latest \in Nat
      BY <1>2, <1>4
    <3>2. Len(old) = IF entries[s].latest < Ring THEN entries[s].latest ELSE Ring
      BY <1>9
    <3>3. Len(ring) = IF Len(pushed) < Ring THEN Len(pushed) ELSE Ring
      BY <1>5
    <3>4. seq = entries[s].latest + 1 /\ Ring \in Nat
      BY <1>2, RingAssumption
    <3>5. CASE entries[s].latest < Ring
      BY <3>1, <3>2, <3>3, <3>4, <3>5
    <3>6. CASE ~ (entries[s].latest < Ring)
      BY <3>1, <3>2, <3>3, <3>4, <3>6
    <3> QED
      BY <3>5, <3>6
  <2>2. Len(pushed) \in Nat /\ Len(ring) \in Nat
    BY <1>2, <1>4, <1>5, RingAssumption
  <2>3. \A i \in 1 .. Len(ring) : ring[i].sequence = seq - Len(ring) + i
    <3> SUFFICES ASSUME NEW i \in 1 .. Len(ring)
                 PROVE  ring[i].sequence = seq - Len(ring) + i
      OBVIOUS
    <3>1. ring[i].sequence = seq - Len(pushed) + (i + Len(pushed) - Len(ring))
      BY <1>5, <1>10
    <3> QED
      BY <1>2, <2>2, <3>1
  <2> QED
    <3> SUFFICES ASSUME NEW r \in Session, Present(r)'
                 PROVE  LET f == entries'[r] IN
                        /\ Len(f.checkpoints) = IF f.latest < Ring THEN f.latest ELSE Ring
                        /\ \A i \in 1 .. Len(f.checkpoints) :
                             f.checkpoints[i].sequence = f.latest - Len(f.checkpoints) + i
      BY DEF RingIsNewest
    <3>1. CASE r = s
      BY <1>7, <1>8, <2>1, <2>3, <3>1
    <3>2. CASE r # s
      BY <1>8, <3>2 DEF RingInv, RingIsNewest, Present
    <3> QED
      BY <3>1, <3>2
<1>14. FencingOrder'
  <2>1. \A i, j \in 1 .. Len(ring) : i <= j => ring[i].by <= ring[j].by
    <3> SUFFICES ASSUME NEW i \in 1 .. Len(ring), NEW j \in 1 .. Len(ring), i <= j
                 PROVE  ring[i].by <= ring[j].by
      OBVIOUS
    <3>1. i + Len(pushed) - Len(ring) <= j + Len(pushed) - Len(ring)
      BY <1>2, <1>4, <1>5, RingAssumption
    <3> QED
      BY <1>5, <1>12, <3>1
  <2>2. \A i \in 1 .. Len(ring) : ring[i].by <= t
    BY <1>5, <1>12
  <2> QED
    BY <1>1, <1>7, <1>8, <2>1, <2>2 DEF RingInv, FencingOrder, Present
<1>15. AuthorsIssued'
  <2>1. \A i \in 1 .. Len(ring) : ring[i].by \in Token
    BY <1>5, <1>12
  <2> QED
    BY <1>6, <1>7, <1>8, <2>1 DEF RingInv, AuthorsIssued, Present
<1> QED
  BY <1>13, <1>14, <1>15 DEF RingInv

LEMMA RingStep == IInv /\ RingInv /\ [Next]_vars => RingInv'
<1> SUFFICES ASSUME IInv, RingInv, [Next]_vars PROVE RingInv'
  OBVIOUS
<1> USE DEF Present
<1>1. CASE entries' = entries /\ Token' = Token
  BY <1>1, RingKept
<1>2. ASSUME NEW s \in Session, NEW e \in Entry \cup {Absent},
             entries' = [entries EXCEPT ![s] = e], Token' = Token,
             e # Absent => /\ Present(s)
                           /\ e.latest = entries[s].latest
                           /\ e.checkpoints = entries[s].checkpoints
                           /\ e.lease # NoLease =>
                                entries[s].lease # NoLease /\ e.lease.token = entries[s].lease.token
      PROVE  RingInv'
  <2>1. \A r \in Session : entries'[r] = IF r = s THEN e ELSE entries[r]
    BY <1>2 DEF IInv, TypeOK
  <2> QED
    BY <1>2, <2>1, RingKept
<1>3. CASE UNCHANGED vars \/ Tick
  BY <1>1, <1>3 DEF vars, Tick, Token
<1>4. ASSUME NEW s \in Session, NEW w \in Worker, Refetch(w, s) PROVE RingInv'
  <2>1. entries[s].lease \in Lease /\ entries[s].lease.token \in Token
    BY <1>4, LeaseFacts DEF Refetch
  <2>2. [grants[entries[s].lease.token] EXCEPT !.until = entries[s].lease.expiresAt] \in Grant
    BY <2>1, TokenFacts DEF Grant, Lease
  <2> QED
    BY <1>1, <1>4, <2>1, <2>2, GrantUpdate DEF Refetch
<1>5. ASSUME NEW s \in Session, NEW status \in Status, finalize(s, status) PROVE RingInv'
  <2> DEFINE e == [entries[s] EXCEPT !.status = status, !.lease = NoLease]
  <2>1. entries[s] \in Entry
    BY <1>5 DEF finalize, IInv, TypeOK
  <2>2. e \in Entry /\ e.lease = NoLease /\ e.latest = entries[s].latest
        /\ e.checkpoints = entries[s].checkpoints
    BY <2>1 DEF Entry
  <2>3. entries' = [entries EXCEPT ![s] = e] /\ Token' = Token /\ entries[s] # Absent
    BY <1>5, RevokeFacts DEF finalize
  <2> HIDE DEF e
  <2> QED
    BY <1>2, <2>2, <2>3
<1>6. ASSUME NEW s \in Session, destroy(s) PROVE RingInv'
  BY <1>2, <1>6, RevokeFacts DEF destroy
<1>7. ASSUME NEW t \in Token, releaseLease(t) \/ ClearExpired(t) PROVE RingInv'
  <2> DEFINE s == grants[t].session
             e == [entries[s] EXCEPT !.lease = NoLease]
  <2>1. Token' = Token
    <3>1. [grants[t] EXCEPT !.over = TRUE] \in Grant
      BY TokenFacts DEF Grant
    <3> QED
      BY <1>7, <3>1, GrantUpdate DEF releaseLease, ClearExpired, Token
  <2>2. CASE HoldsLease(t)
    <3>1. s \in Session /\ entries[s] \in Entry /\ entries[s] # Absent
      BY <2>2, TokenFacts, HolderFacts
    <3>2. e \in Entry /\ e.lease = NoLease /\ e.latest = entries[s].latest
          /\ e.checkpoints = entries[s].checkpoints
      BY <3>1 DEF Entry
    <3>3. entries' = [entries EXCEPT ![s] = e]
      BY <1>7, <2>2 DEF releaseLease, ClearExpired
    <3> HIDE DEF e
    <3> QED
      BY <1>2, <2>1, <3>1, <3>2, <3>3
  <2>3. CASE ~ HoldsLease(t)
    BY <1>1, <1>7, <2>1, <2>3 DEF releaseLease, ClearExpired
  <2> QED
    BY <2>2, <2>3
<1>8. ASSUME NEW t \in Token, NEW ttl \in Ttl, renewLease(t, ttl) PROVE RingInv'
  <2> DEFINE s == grants[t].session
             l == [entries[s].lease EXCEPT !.expiresAt = now + ttl]
             e == [entries[s] EXCEPT !.lease = l]
  <2>1. /\ s \in Session
        /\ grants[t] \in Grant
        /\ now + ttl \in Nat
        /\ entries[s] \in Entry
        /\ entries[s] # Absent
        /\ entries[s].lease \in Lease
        /\ entries[s].lease # NoLease
    BY <1>8, TokenFacts, HolderFacts DEF renewLease, IInv, TypeOK
  <2>2. l \in Lease /\ l.token = entries[s].lease.token
    BY <2>1 DEF Lease
  <2> HIDE DEF l
  <2>3. e \in Entry /\ e.lease = l /\ e.latest = entries[s].latest
        /\ e.checkpoints = entries[s].checkpoints
    BY <2>1, <2>2 DEF Entry
  <2>4. entries' = [entries EXCEPT ![s] = e]
    BY <1>8 DEF renewLease, l
  <2>5. Token' = Token
    <3>1. [grants[t] EXCEPT !.until = now + ttl] \in Grant
      BY <2>1 DEF Grant
    <3> QED
      BY <1>8, <3>1, GrantUpdate DEF renewLease
  <2> HIDE DEF e
  <2> QED
    BY <1>2, <2>1, <2>2, <2>3, <2>4, <2>5
<1> QED
  BY <1>3, <1>4, <1>5, <1>6, <1>7, <1>8, CreateRing, AcquireRing, AppendRing DEF Next

LEMMA RingInit == Init => RingInv
  BY DEF Init, RingInv, RingIsNewest, FencingOrder, AuthorsIssued, Present

LEMMA RingInvariant == Spec => []RingInv
  BY InitHolds, StepHolds, RingInit, RingStep, PTL DEF Spec

\* The ring holds the newest sequence numbers without gap: every accepted
\* checkpoint got the number after the last one, and retention dropped only the
\* oldest.
THEOREM RingIsNewestHolds == Spec => []RingIsNewest
<1>1. RingInv => RingIsNewest
  BY DEF RingInv
<1> QED
  BY RingInvariant, <1>1, PTL

\* Fencing: authorship in the ring only moves to later fencing tokens, and the
\* current lease is at least as new as every author.
THEOREM FencingOrderHolds == Spec => []FencingOrder
<1>1. RingInv => FencingOrder
  BY DEF RingInv
<1> QED
  BY RingInvariant, <1>1, PTL
-----------------------------------------------------------------------------
(* The in-memory store implements the contract of the port: every step of  *)
(* SessionStore is, under the mapping of SessionStore!Contract, a step of  *)
(* SessionLease or leaves its variables alone.                             *)

\* The contract sees nothing happen to session s.
Same(s) ==
    /\ OwnerOf(s)' = OwnerOf(s)
    /\ NewestOf(s)' = NewestOf(s)
    /\ TrustingIn(s)' = TrustingIn(s)
    /\ HeadOf(s)' = HeadOf(s)

OthersSame(s) == \A r \in Session : r # s => Same(r)

\* The tokens of a session have a newest one, so that NewestOf picks it.
NewestExists ==
    \A s \in Session : IssuedTo(s) # {} =>
        \E t \in IssuedTo(s) : \A u \in IssuedTo(s) : u <= t

LEMMA NewestIsLargest ==
    ASSUME IInv, NewestExists, NEW s \in Session
    PROVE  /\ NewestOf(s) \in 0 .. Len(grants)
           /\ \A u \in IssuedTo(s) : u <= NewestOf(s)
<1>1. Len(grants) \in Nat
  BY LenProperties DEF IInv, TypeOK
<1>2. CASE IssuedTo(s) = {}
  BY <1>1, <1>2 DEF NewestOf
<1>3. CASE IssuedTo(s) # {}
  <2>1. \E m \in IssuedTo(s) : \A k \in IssuedTo(s) : k <= m
    BY <1>3 DEF NewestExists
  <2>2. NewestOf(s) \in IssuedTo(s) /\ \A k \in IssuedTo(s) : k <= NewestOf(s)
    BY <1>3, <2>1 DEF NewestOf
  <2> QED
    BY <1>1, <2>2 DEF IssuedTo, Token
<1> QED
  BY <1>2, <1>3

\* A new token is larger than all before it, and the newest of its session.
LEMMA AcquireNewest ==
    ASSUME IInv, NewestExists, NEW w \in Worker, NEW s \in Session, NEW ttl \in Ttl,
           Acquire(w, s, ttl)
    PROVE  LET t == Len(grants) + 1 IN
           /\ Token' = Token \cup {t} /\ t \notin Token /\ t \in Nat \ {0}
           /\ \A u \in Token : grants'[u] = grants[u] /\ u < t
           /\ grants'[t] = [worker |-> w, session |-> s, until |-> now + ttl, over |-> FALSE]
           /\ IssuedTo(s)' = IssuedTo(s) \cup {t} /\ NewestOf(s)' = t /\ t > NewestOf(s)
           /\ \A r \in Session : r # s => IssuedTo(r)' = IssuedTo(r)
<1> DEFINE g == [worker |-> w, session |-> s, until |-> now + ttl, over |-> FALSE]
<1>1. grants \in Seq(Grant) /\ g \in Grant /\ grants' = Append(grants, g) /\ Len(grants) \in Nat
  BY LenProperties DEF Acquire, IInv, TypeOK, Grant
<1>2. PICK t : t = Len(grants) + 1
  OBVIOUS
<1> HIDE DEF g
<1>3. /\ Len(grants') = t
      /\ grants'[t] = g
      /\ \A u \in 1 .. Len(grants) : grants'[u] = grants[u]
  BY <1>1, <1>2, AppendProperties
<1>4. /\ Token' = Token \cup {t} /\ t \notin Token /\ t \in Nat \ {0}
      /\ \A u \in Token : grants'[u] = grants[u] /\ u < t
  BY <1>1, <1>2, <1>3 DEF Token
<1>5. g.session = s
  BY DEF g
<1>6. IssuedTo(s)' = IssuedTo(s) \cup {t}
  BY <1>3, <1>4, <1>5 DEF IssuedTo
<1>7. \A r \in Session : r # s => IssuedTo(r)' = IssuedTo(r)
  BY <1>3, <1>4, <1>5 DEF IssuedTo
<1>8. \A u \in IssuedTo(s) \cup {t} : u \in Nat /\ u <= t
  BY <1>4 DEF IssuedTo, Token
<1>9. NewestOf(s)' = t
  <2>1. NewestOf(s)' = CHOOSE v \in IssuedTo(s) \cup {t} : \A u \in IssuedTo(s) \cup {t} : u <= v
    BY <1>6 DEF NewestOf
  <2>2. \A v \in IssuedTo(s) \cup {t} : (\A u \in IssuedTo(s) \cup {t} : u <= v) => v = t
    BY <1>8
  <2> QED
    BY <1>8, <2>1, <2>2
<1>10. t > NewestOf(s)
  BY <1>1, <1>2, NewestIsLargest
<1> QED
  BY <1>2, <1>3, <1>4, <1>6, <1>7, <1>9, <1>10 DEF g

-----------------------------------------------------------------------------
(* From what a step does to one session to a step of the contract. *)

LEMMA AsStutter ==
    ASSUME \A s \in Session : Same(s)
    PROVE  UNCHANGED Contract!leaseVars
  BY DEF Same, Contract!leaseVars

LEMMA AsConfirm ==
    ASSUME NEW s \in Session, OthersSame(s), OwnerOf(s) # 0,
           OwnerOf(s)' = OwnerOf(s), NewestOf(s)' = NewestOf(s), HeadOf(s)' = HeadOf(s),
           TrustingIn(s)' = TrustingIn(s) \cup {OwnerOf(s)}
    PROVE  Contract!Confirm(s)
  BY DEF OthersSame, Same, Contract!Confirm

LEMMA AsDisown ==
    ASSUME NEW s \in Session, OthersSame(s),
           NewestOf(s)' = NewestOf(s), HeadOf(s)' = HeadOf(s),
           OwnerOf(s)' = 0, TrustingIn(s)' = {}
    PROVE  Contract!Disown(s)
  BY DEF OthersSame, Same, Contract!Disown

LEMMA AsForget ==
    ASSUME NEW s \in Session, OthersSame(s), NewestOf(s)' = NewestOf(s),
           OwnerOf(s)' = 0, TrustingIn(s)' = {}, HeadOf(s)' = [sequence |-> 0, by |-> 0]
    PROVE  Contract!Forget(s)
  BY DEF OthersSame, Same, Contract!Forget, Contract!NoCheckpoint

LEMMA AsWrite ==
    ASSUME NEW s \in Session, OthersSame(s), OwnerOf(s) # 0,
           OwnerOf(s)' = OwnerOf(s), NewestOf(s)' = NewestOf(s), TrustingIn(s)' = TrustingIn(s),
           HeadOf(s)' = [sequence |-> HeadOf(s).sequence + 1, by |-> OwnerOf(s)]
    PROVE  Contract!Write(s)
  BY DEF OthersSame, Same, Contract!Write

LEMMA AsGrant ==
    ASSUME NEW s \in Session, NEW t, OthersSame(s),
           TrustingIn(s) = {}, t > NewestOf(s),
           OwnerOf(s)' = t, NewestOf(s)' = t, TrustingIn(s)' = {t}, HeadOf(s)' = HeadOf(s)
    PROVE  Contract!Grant(s, t)
  BY DEF OthersSame, Same, Contract!Grant

LEMMA AsLapse ==
    ASSUME \A s \in Session : /\ OwnerOf(s)' = OwnerOf(s)
                              /\ NewestOf(s)' = NewestOf(s)
                              /\ HeadOf(s)' = HeadOf(s)
                              /\ TrustingIn(s)' \subseteq TrustingIn(s)
    PROVE  Contract!Lapse
  BY DEF Contract!Lapse

-----------------------------------------------------------------------------
(* What the steps of the store do to what the contract sees. *)

\* Only the token in the stored lease is trusted, and only while it is alive.
LEMMA OnlyOwnerTrusts ==
    ASSUME IInv, NEW s \in Session, NEW t \in TrustingIn(s)
    PROVE  /\ t \in Token /\ grants[t].session = s /\ HoldsLease(t)
           /\ Present(s) /\ entries[s].lease # NoLease /\ entries[s].lease.token = t
           /\ ~ leaseExpired(entries[s].lease)
<1>1. t \in Token /\ grants[t].session = s /\ Believes(t)
  BY DEF TrustingIn, IssuedTo
<1>2. HoldsLease(t) /\ grants[t] \in Grant
  BY <1>1, TokenFacts
<1>3. /\ Present(s) /\ entries[s].lease # NoLease /\ entries[s].lease.token = t
      /\ entries[s].lease \in Lease /\ grants[t].until <= entries[s].lease.expiresAt
  BY <1>1, <1>2, HolderFacts
<1>4. ~ leaseExpired(entries[s].lease)
  BY <1>1, <1>2, <1>3 DEF Believes, leaseExpired, Grant, Lease, IInv, TypeOK
<1> QED
  BY <1>1, <1>2, <1>3, <1>4

\* The tokens of a session, and the newest of them, depend only on whom the
\* grants were made to.
LEMMA SameTokens ==
    ASSUME Token' = Token, \A t \in Token : grants'[t].session = grants[t].session
    PROVE  \A s \in Session : IssuedTo(s)' = IssuedTo(s) /\ NewestOf(s)' = NewestOf(s)
<1> SUFFICES ASSUME NEW s \in Session
             PROVE  IssuedTo(s)' = IssuedTo(s) /\ NewestOf(s)' = NewestOf(s)
  OBVIOUS
<1>1. IssuedTo(s)' = IssuedTo(s)
  BY DEF IssuedTo
<1> QED
  BY <1>1 DEF NewestOf

\* A session whose entry and whose grants a step leaves alone looks the same.
LEMMA Untouched ==
    ASSUME NEW s \in Session, Token' = Token, now' = now, entries'[s] = entries[s],
           \A t \in Token : grants'[t].session = grants[t].session,
           \A t \in Token : grants[t].session = s => grants'[t] = grants[t]
    PROVE  Same(s)
<1>1. IssuedTo(s)' = IssuedTo(s) /\ NewestOf(s)' = NewestOf(s)
  BY SameTokens
<1>2. TrustingIn(s)' = TrustingIn(s)
  BY <1>1 DEF TrustingIn, IssuedTo, Believes
<1>3. OwnerOf(s)' = OwnerOf(s) /\ HeadOf(s)' = HeadOf(s)
  BY DEF OwnerOf, HeadOf, Present
<1> QED
  BY <1>1, <1>2, <1>3 DEF Same

LEMMA CreateRefines ==
    ASSUME IInv, NEW s \in Session, Create(s)
    PROVE  UNCHANGED Contract!leaseVars
<1>1. Token' = Token /\ now' = now /\ grants' = grants
  BY DEF Create, Token
<1>2. \A r \in Session : r # s => Same(r)
  BY <1>1, Untouched DEF Create, IInv, TypeOK
<1>3. entries[s] = Absent /\ entries'[s] = NewEntry /\ NewEntry # Absent
  <2>1. NewEntry \in Entry
    BY EmptySeq DEF NewEntry, Entry, Status
  <2> QED
    BY <2>1 DEF Create, Present, IInv, TypeOK
<1>4. OwnerOf(s)' = OwnerOf(s) /\ HeadOf(s)' = HeadOf(s)
  <2>1. NewEntry.lease = NoLease /\ ~ (NewEntry.latest > 0)
    BY DEF NewEntry
  <2>2. OwnerOf(s) = 0 /\ OwnerOf(s)' = 0
    BY <1>3, <2>1 DEF OwnerOf, Present
  <2>3. HeadOf(s)' = HeadOf(s)
    BY <1>3, <2>1 DEF HeadOf, Present
  <2> QED
    BY <2>2, <2>3
<1>5. IssuedTo(s)' = IssuedTo(s) /\ NewestOf(s)' = NewestOf(s)
  BY <1>1, SameTokens
<1>6. TrustingIn(s)' = TrustingIn(s)
  BY <1>1, <1>5 DEF TrustingIn, Believes
<1> QED
  BY <1>2, <1>4, <1>5, <1>6, AsStutter DEF Same

LEMMA TickRefines ==
    ASSUME IInv, Tick PROVE Contract!Lapse
<1>1. Token' = Token
  BY DEF Tick, Token
<1>2. \A s \in Session : IssuedTo(s)' = IssuedTo(s) /\ NewestOf(s)' = NewestOf(s)
  BY <1>1, SameTokens DEF Tick
<1>3. \A s \in Session : OwnerOf(s)' = OwnerOf(s) /\ HeadOf(s)' = HeadOf(s)
  BY DEF Tick, OwnerOf, HeadOf, Present
<1>4. \A s \in Session : TrustingIn(s)' \subseteq TrustingIn(s)
  <2> SUFFICES ASSUME NEW s \in Session, NEW t \in TrustingIn(s)' PROVE t \in TrustingIn(s)
    OBVIOUS
  <2>1. t \in IssuedTo(s) /\ t \in Token /\ Believes(t)'
    BY <1>2 DEF TrustingIn, IssuedTo
  <2>2. grants[t] \in Grant
    BY <2>1, TokenFacts
  <2>3. Believes(t)
    BY <2>1, <2>2 DEF Believes, Tick, Grant, IInv, TypeOK
  <2> QED
    BY <2>1, <2>3 DEF TrustingIn
<1> QED
  BY <1>2, <1>3, <1>4, AsLapse

\* To be told of the lease again is to trust in it, unless it was given back.
LEMMA ToldAgain ==
    ASSUME IInv, NEW s \in Session, NEW t \in IssuedTo(s), NEW g \in Grant,
           grants' = [grants EXCEPT ![t] = g], g.session = s, g.over = grants[t].over,
           now' = now, now < g.until,
           OwnerOf(s) = t, OwnerOf(s)' = t, HeadOf(s)' = HeadOf(s),
           \A r \in Session : r # s => entries'[r] = entries[r]
    PROVE  Contract!Confirm(s) \/ UNCHANGED Contract!leaseVars
<1>1. t \in Token /\ t # 0 /\ grants[t].session = s
  BY DEF IssuedTo, Token
<1>2. /\ Token' = Token
      /\ \A u \in Token : grants'[u] = IF u = t THEN g ELSE grants[u]
  BY <1>1, GrantUpdate
<1>3. \A u \in Token : grants'[u].session = grants[u].session
  BY <1>1, <1>2
<1>4. OthersSame(s)
  BY <1>1, <1>2, <1>3, Untouched DEF OthersSame
<1>5. IssuedTo(s)' = IssuedTo(s) /\ NewestOf(s)' = NewestOf(s)
  BY <1>2, <1>3, SameTokens
<1>6. \A u \in Token : u # t => (Believes(u)' <=> Believes(u))
  BY <1>2 DEF Believes
<1>7. CASE grants[t].over
  <2>1. ~ Believes(t) /\ ~ Believes(t)'
    BY <1>1, <1>2, <1>7 DEF Believes
  <2>2. TrustingIn(s)' = TrustingIn(s)
    BY <1>5, <1>6, <2>1 DEF TrustingIn, IssuedTo
  <2> QED
    BY <1>4, <1>5, <2>2, AsStutter DEF OthersSame, Same
<1>8. CASE ~ grants[t].over
  <2>1. Believes(t)'
    BY <1>1, <1>2, <1>8 DEF Believes
  <2>2. TrustingIn(s)' = TrustingIn(s) \cup {t}
    BY <1>5, <1>6, <2>1 DEF TrustingIn, IssuedTo
  <2> QED
    BY <1>1, <1>4, <1>5, <2>2, AsConfirm
<1> QED
  BY <1>7, <1>8

LEMMA RefetchRefines ==
    ASSUME IInv, NEW w \in Worker, NEW s \in Session, Refetch(w, s)
    PROVE  Contract!Confirm(s) \/ UNCHANGED Contract!leaseVars
<1> DEFINE l == entries[s].lease
<1>1. /\ l \in Lease /\ l # NoLease /\ Present(s) /\ ~ leaseExpired(l)
      /\ entries' = entries /\ now' = now
  BY LeaseFacts DEF Refetch
<1>2. PICK t \in Token : t = l.token /\ grants[t].session = s
  BY LeaseFacts DEF Refetch
<1>3. PICK g : g = [grants[t] EXCEPT !.until = l.expiresAt]
  OBVIOUS
<1>4. g \in Grant /\ g.session = s /\ g.over = grants[t].over /\ g.until = l.expiresAt
  BY <1>1, <1>2, <1>3, TokenFacts DEF Grant, Lease
<1>5. grants' = [grants EXCEPT ![t] = g]
  BY <1>2, <1>3 DEF Refetch
<1>6. now < g.until
  BY <1>1, <1>4 DEF leaseExpired, Lease, IInv, TypeOK
<1>7. OwnerOf(s) = t /\ OwnerOf(s)' = OwnerOf(s) /\ HeadOf(s)' = HeadOf(s)
  BY <1>1, <1>2 DEF OwnerOf, HeadOf, Present
<1>8. t \in IssuedTo(s)
  BY <1>2 DEF IssuedTo
<1> QED
  BY <1>1, <1>4, <1>5, <1>6, <1>7, <1>8, ToldAgain

LEMMA RenewRefines ==
    ASSUME IInv, NEW s \in Session, NEW t \in IssuedTo(s), NEW ttl \in Ttl, renewLease(t, ttl)
    PROVE  Contract!Confirm(s) \/ UNCHANGED Contract!leaseVars
<1>1. t \in Token /\ grants[t].session = s
  BY DEF IssuedTo
<1>2. /\ grants[t] \in Grant /\ Present(s) /\ entries[s] \in Entry
      /\ entries[s].lease \in Lease /\ entries[s].lease # NoLease /\ entries[s].lease.token = t
      /\ now \in Nat /\ ttl \in Nat \ {0} /\ now' = now
  BY <1>1, TokenFacts, HolderFacts DEF renewLease, IInv, TypeOK
<1>3. PICK g : g = [grants[t] EXCEPT !.until = now + ttl]
  OBVIOUS
<1>4. g \in Grant /\ g.session = s /\ g.over = grants[t].over /\ g.until = now + ttl
  BY <1>1, <1>2, <1>3 DEF Grant
<1>5. grants' = [grants EXCEPT ![t] = g]
  BY <1>3 DEF renewLease
<1>6. PICK l : l = [entries[s].lease EXCEPT !.expiresAt = now + ttl]
  OBVIOUS
<1>7. l \in Lease /\ l # NoLease /\ l.token = t
  BY <1>2, <1>6 DEF Lease
<1>8. PICK e : e = [entries[s] EXCEPT !.lease = l]
  OBVIOUS
<1>9. e \in Entry /\ e # Absent /\ e.lease = l /\ e.latest = entries[s].latest
      /\ e.checkpoints = entries[s].checkpoints
  BY <1>2, <1>7, <1>8 DEF Entry
<1>10. entries' = [entries EXCEPT ![s] = e]
  BY <1>1, <1>6, <1>8 DEF renewLease
<1>11. entries'[s] = e /\ \A r \in Session : r # s => entries'[r] = entries[r]
  BY <1>10 DEF IInv, TypeOK
<1>12. OwnerOf(s) = t /\ OwnerOf(s)' = t
  BY <1>2, <1>7, <1>9, <1>11 DEF OwnerOf, Present
<1>13. HeadOf(s)' = HeadOf(s)
  BY <1>2, <1>9, <1>11 DEF HeadOf, Present
<1>14. now < g.until
  BY <1>2, <1>4
<1>15. \A r \in Session : r # s => entries'[r] = entries[r]
  BY <1>11
<1> QED
  BY <1>2, <1>4, <1>5, <1>12, <1>13, <1>14, <1>15, ToldAgain

\* A step after which nobody trusts in a lease of session s.
LEMMA NobodyTrusts ==
    ASSUME NEW s \in Session, Token' = Token, now' = now,
           \A r \in Session : r # s => entries'[r] = entries[r],
           \A t \in Token : grants'[t].session = grants[t].session,
           \A t \in Token : grants[t].session # s => grants'[t] = grants[t],
           \A t \in Token : grants[t].session = s => ~ Believes(t)'
    PROVE  OthersSame(s) /\ NewestOf(s)' = NewestOf(s) /\ TrustingIn(s)' = {}
<1>1. OthersSame(s)
  BY Untouched DEF OthersSame
<1>2. IssuedTo(s)' = IssuedTo(s) /\ NewestOf(s)' = NewestOf(s)
  BY SameTokens
<1>3. TrustingIn(s)' = {}
  BY <1>2 DEF TrustingIn, IssuedTo
<1> QED
  BY <1>1, <1>2, <1>3

\* The stored lease is taken out of an entry.
LEMMA LeaseGone ==
    ASSUME IInv, NEW s \in Session, Present(s),
           NEW e \in Entry, e.lease = NoLease, e.latest = entries[s].latest,
           e.checkpoints = entries[s].checkpoints, entries' = [entries EXCEPT ![s] = e]
    PROVE  /\ OwnerOf(s)' = 0 /\ HeadOf(s)' = HeadOf(s)
           /\ \A r \in Session : r # s => entries'[r] = entries[r]
<1>1. entries'[s] = e /\ e # Absent /\ \A r \in Session : r # s => entries'[r] = entries[r]
  BY DEF IInv, TypeOK
<1>2. OwnerOf(s)' = 0
  BY <1>1 DEF OwnerOf
<1>3. HeadOf(s)' = HeadOf(s)
  BY <1>1 DEF HeadOf, Present
<1> QED
  BY <1>1, <1>2, <1>3

LEMMA ClearExpiredRefines ==
    ASSUME IInv, NEW s \in Session, NEW t \in IssuedTo(s), ClearExpired(t)
    PROVE  Contract!Disown(s)
<1>1. t \in Token /\ grants[t].session = s
  BY DEF IssuedTo
<1>2. /\ Present(s) /\ entries[s] \in Entry /\ leaseExpired(entries[s].lease)
      /\ Token' = Token /\ grants' = grants /\ now' = now
  BY <1>1, HolderFacts DEF ClearExpired, Token
<1>3. PICK e : e = [entries[s] EXCEPT !.lease = NoLease]
  OBVIOUS
<1>4. e \in Entry /\ e.lease = NoLease /\ e.latest = entries[s].latest
      /\ e.checkpoints = entries[s].checkpoints
  BY <1>2, <1>3 DEF Entry
<1>5. entries' = [entries EXCEPT ![s] = e]
  BY <1>1, <1>3 DEF ClearExpired
<1>6. /\ OwnerOf(s)' = 0 /\ HeadOf(s)' = HeadOf(s)
      /\ \A r \in Session : r # s => entries'[r] = entries[r]
  BY <1>2, <1>4, <1>5, LeaseGone
<1>7. \A u \in Token : grants[u].session = s => ~ Believes(u)'
  <2> SUFFICES ASSUME NEW u \in Token, grants[u].session = s, Believes(u) PROVE FALSE
    BY <1>2 DEF Believes
  <2>1. u \in TrustingIn(s)
    BY DEF TrustingIn, IssuedTo
  <2> QED
    BY <1>2, <2>1, OnlyOwnerTrusts
<1> QED
  BY <1>2, <1>6, <1>7, NobodyTrusts, AsDisown

LEMMA ReleaseRefines ==
    ASSUME IInv, NEW s \in Session, NEW t \in IssuedTo(s), releaseLease(t)
    PROVE  Contract!Disown(s) \/ UNCHANGED Contract!leaseVars
<1>1. t \in Token /\ grants[t].session = s /\ now' = now
  BY DEF IssuedTo, releaseLease
<1>2. PICK g : g = [grants[t] EXCEPT !.over = TRUE]
  OBVIOUS
<1>3. g \in Grant /\ g.session = s /\ g.over
  BY <1>1, <1>2, TokenFacts DEF Grant
<1>4. grants' = [grants EXCEPT ![t] = g]
  BY <1>2 DEF releaseLease
<1>5. /\ Token' = Token
      /\ \A u \in Token : grants'[u] = IF u = t THEN g ELSE grants[u]
  BY <1>1, <1>3, <1>4, GrantUpdate
<1>6. ~ Believes(t)' /\ \A u \in Token : u # t => (Believes(u)' <=> Believes(u))
  BY <1>1, <1>3, <1>5 DEF Believes
<1>7. /\ \A u \in Token : grants'[u].session = grants[u].session
      /\ \A u \in Token : grants[u].session # s => grants'[u] = grants[u]
  BY <1>1, <1>3, <1>5
<1>8. CASE HoldsLease(t)
  <2>1. Present(s) /\ entries[s] \in Entry /\ entries[s].lease.token = t
    BY <1>1, <1>8, HolderFacts
  <2>2. PICK e : e = [entries[s] EXCEPT !.lease = NoLease]
    OBVIOUS
  <2>3. e \in Entry /\ e.lease = NoLease /\ e.latest = entries[s].latest
        /\ e.checkpoints = entries[s].checkpoints
    BY <2>1, <2>2 DEF Entry
  <2>4. entries' = [entries EXCEPT ![s] = e]
    BY <1>1, <1>8, <2>2 DEF releaseLease
  <2>5. /\ OwnerOf(s)' = 0 /\ HeadOf(s)' = HeadOf(s)
        /\ \A r \in Session : r # s => entries'[r] = entries[r]
    BY <2>1, <2>3, <2>4, LeaseGone
  <2>6. \A u \in Token : grants[u].session = s => ~ Believes(u)'
    <3> SUFFICES ASSUME NEW u \in Token, grants[u].session = s, u # t, Believes(u) PROVE FALSE
      BY <1>6
    <3>1. u \in TrustingIn(s)
      BY DEF TrustingIn, IssuedTo
    <3> QED
      BY <2>1, <3>1, OnlyOwnerTrusts
  <2> QED
    BY <1>1, <1>5, <1>7, <2>5, <2>6, NobodyTrusts, AsDisown
<1>9. CASE ~ HoldsLease(t)
  <2>1. entries' = entries
    BY <1>9 DEF releaseLease
  <2>2. ~ Believes(t)
    BY <1>1, <1>9, TokenFacts
  <2>3. \A r \in Session : IssuedTo(r)' = IssuedTo(r) /\ NewestOf(r)' = NewestOf(r)
    BY <1>5, <1>7, SameTokens
  <2>4. \A r \in Session : TrustingIn(r)' = TrustingIn(r)
    BY <1>6, <2>2, <2>3 DEF TrustingIn, IssuedTo
  <2>5. \A r \in Session : OwnerOf(r)' = OwnerOf(r) /\ HeadOf(r)' = HeadOf(r)
    BY <2>1 DEF OwnerOf, HeadOf, Present
  <2> QED
    BY <2>3, <2>4, <2>5, AsStutter DEF Same
<1> QED
  BY <1>8, <1>9

\* Revocation does not change whom a grant was made to.
LEMMA RevokedSession ==
    ASSUME IInv, NEW s \in Session, Present(s), Revoke(s)
    PROVE  \A u \in Token : grants'[u].session = grants[u].session
<1>1. CASE entries[s].lease = NoLease
  BY <1>1 DEF Revoke
<1>2. CASE entries[s].lease # NoLease
  <2>1. PICK t \in Token : t = entries[s].lease.token
    BY <1>2, LeaseFacts
  <2>2. PICK g : g = [grants[t] EXCEPT !.over = TRUE]
    OBVIOUS
  <2>3. g \in Grant /\ g.session = grants[t].session
    BY <2>1, <2>2, TokenFacts DEF Grant
  <2>4. grants' = [grants EXCEPT ![t] = g]
    BY <1>2, <2>1, <2>2 DEF Revoke
  <2> QED
    BY <2>1, <2>3, <2>4, GrantUpdate
<1> QED
  BY <1>1, <1>2

LEMMA FinalizeRefines ==
    ASSUME IInv, NEW s \in Session, NEW status \in Status, finalize(s, status)
    PROVE  Contract!Disown(s)
<1>1. Present(s) /\ entries[s] \in Entry /\ now' = now
  BY DEF finalize, Present, IInv, TypeOK
<1>2. PICK e : e = [entries[s] EXCEPT !.status = status, !.lease = NoLease]
  OBVIOUS
<1>3. e \in Entry /\ e.lease = NoLease /\ e.latest = entries[s].latest
      /\ e.checkpoints = entries[s].checkpoints
  BY <1>1, <1>2 DEF Entry
<1>4. entries' = [entries EXCEPT ![s] = e]
  BY <1>2 DEF finalize
<1>5. /\ OwnerOf(s)' = 0 /\ HeadOf(s)' = HeadOf(s)
      /\ \A r \in Session : r # s => entries'[r] = entries[r]
  BY <1>1, <1>3, <1>4, LeaseGone
<1>6. /\ Token' = Token
      /\ \A u \in Token : grants[u].session # s => grants'[u] = grants[u]
      /\ \A u \in Token : grants[u].session = s => ~ Believes(u)'
  BY <1>1, RevokeFacts DEF finalize
<1>7. \A u \in Token : grants'[u].session = grants[u].session
  BY <1>1, RevokedSession DEF finalize
<1> QED
  BY <1>1, <1>5, <1>6, <1>7, NobodyTrusts, AsDisown

LEMMA DestroyRefines ==
    ASSUME IInv, NEW s \in Session, destroy(s)
    PROVE  Contract!Forget(s)
<1>1. Present(s) /\ now' = now
  BY DEF destroy
<1>2. entries'[s] = Absent /\ \A r \in Session : r # s => entries'[r] = entries[r]
  BY DEF destroy, IInv, TypeOK
<1>3. OwnerOf(s)' = 0 /\ HeadOf(s)' = [sequence |-> 0, by |-> 0]
  BY <1>2 DEF OwnerOf, HeadOf, Present
<1>4. /\ Token' = Token
      /\ \A u \in Token : grants[u].session # s => grants'[u] = grants[u]
      /\ \A u \in Token : grants[u].session = s => ~ Believes(u)'
  BY <1>1, RevokeFacts DEF destroy
<1>5. \A u \in Token : grants'[u].session = grants[u].session
  BY <1>1, RevokedSession DEF destroy
<1> QED
  BY <1>1, <1>2, <1>3, <1>4, <1>5, NobodyTrusts, AsForget

\* Nobody trusts in a lease when a new one is granted.
LEMMA AcquireRefines ==
    ASSUME IInv, NewestExists, NEW w \in Worker, NEW s \in Session, NEW ttl \in Ttl,
           Acquire(w, s, ttl)
    PROVE  \E t \in 1 .. MaxGrants : Contract!Grant(s, t)
<1>1. PICK t : t = Len(grants) + 1
  OBVIOUS
<1>2. /\ Token' = Token \cup {t} /\ t \notin Token /\ t \in Nat \ {0}
      /\ \A u \in Token : grants'[u] = grants[u]
      /\ grants'[t] = [worker |-> w, session |-> s, until |-> now + ttl, over |-> FALSE]
      /\ IssuedTo(s)' = IssuedTo(s) \cup {t} /\ NewestOf(s)' = t /\ t > NewestOf(s)
      /\ \A r \in Session : r # s => IssuedTo(r)' = IssuedTo(r)
  BY <1>1, AcquireNewest
<1>3. t \in 1 .. MaxGrants
  BY <1>1, <1>2, LenProperties DEF Acquire, IInv, TypeOK
<1>4. TrustingIn(s) = {}
  <2> SUFFICES ASSUME NEW u \in TrustingIn(s) PROVE FALSE
    OBVIOUS
  <2> QED
    BY OnlyOwnerTrusts DEF Acquire
<1>5. Present(s) /\ entries[s] \in Entry /\ now \in Nat /\ ttl \in Nat \ {0} /\ now' = now
  BY DEF Acquire, Present, IInv, TypeOK
<1>6. PICK l : l = [worker |-> w, token |-> t, expiresAt |-> now + ttl]
  OBVIOUS
<1>7. l \in Lease /\ l # NoLease /\ l.token = t
  BY <1>2, <1>5, <1>6 DEF Lease
<1>8. PICK e : e = [entries[s] EXCEPT !.lease = l]
  OBVIOUS
<1>9. e \in Entry /\ e # Absent /\ e.lease = l /\ e.latest = entries[s].latest
      /\ e.checkpoints = entries[s].checkpoints
  BY <1>5, <1>7, <1>8 DEF Entry
<1>10. entries' = [entries EXCEPT ![s] = e]
  BY <1>1, <1>6, <1>8 DEF Acquire
<1>11. entries'[s] = e /\ \A r \in Session : r # s => entries'[r] = entries[r]
  BY <1>10 DEF IInv, TypeOK
<1>12. OwnerOf(s)' = t
  BY <1>7, <1>9, <1>11 DEF OwnerOf, Present
<1>13. HeadOf(s)' = HeadOf(s)
  BY <1>5, <1>9, <1>11 DEF HeadOf, Present
<1>14. Believes(t)'
  BY <1>2, <1>5 DEF Believes
<1>15. \A u \in Token : Believes(u)' <=> Believes(u)
  BY <1>2, <1>5 DEF Believes
<1>16. TrustingIn(s)' = {t}
  <2>1. \A u \in IssuedTo(s) : ~ Believes(u)'
    BY <1>4, <1>15 DEF TrustingIn, IssuedTo
  <2> QED
    BY <1>2, <1>14, <2>1 DEF TrustingIn
<1>17. OthersSame(s)
  <2> SUFFICES ASSUME NEW r \in Session, r # s PROVE Same(r)
    BY DEF OthersSame
  <2>1. IssuedTo(r)' = IssuedTo(r) /\ NewestOf(r)' = NewestOf(r)
    <3>1. IssuedTo(r)' = IssuedTo(r)
      BY <1>2
    <3> QED
      BY <3>1 DEF NewestOf
  <2>2. TrustingIn(r)' = TrustingIn(r)
    BY <1>15, <2>1 DEF TrustingIn, IssuedTo
  <2>3. OwnerOf(r)' = OwnerOf(r) /\ HeadOf(r)' = HeadOf(r)
    BY <1>11 DEF OwnerOf, HeadOf, Present
  <2> QED
    BY <2>1, <2>2, <2>3 DEF Same
<1>18. Contract!Grant(s, t)
  BY <1>2, <1>4, <1>12, <1>13, <1>16, <1>17, AsGrant
<1> QED
  BY <1>3, <1>18

\* The last element of the ring is the one that was pushed last.
LEMMA LastRetained ==
    ASSUME NEW S, NEW ring \in Seq(S), NEW c \in S
    PROVE  LET kept == Retain(Append(ring, c)) IN kept[Len(kept)] = c
<1>1. PICK pushed : pushed = Append(ring, c)
  OBVIOUS
<1>2. pushed \in Seq(S) /\ Len(pushed) = Len(ring) + 1 /\ pushed[Len(pushed)] = c
  BY <1>1, AppendProperties
<1>3. Len(ring) \in Nat /\ Ring \in Nat \ {0}
  BY LenProperties
<1>4. /\ Len(Retain(pushed)) = IF Len(pushed) < Ring THEN Len(pushed) ELSE Ring
      /\ \A i \in 1 .. Len(Retain(pushed)) :
           Retain(pushed)[i] = pushed[i + Len(pushed) - Len(Retain(pushed))]
  BY <1>2, RetainElements
<1>5. PICK n : n = Len(Retain(pushed))
  OBVIOUS
<1>6. n \in 1 .. n /\ n + Len(pushed) - n = Len(pushed)
  BY <1>2, <1>3, <1>4, <1>5
<1>7. Retain(pushed)[n] = pushed[Len(pushed)]
  BY <1>4, <1>5, <1>6
<1> QED
  BY <1>1, <1>2, <1>5, <1>7

LEMMA AppendRefines ==
    ASSUME IInv, RingInv, NEW s \in Session, NEW t \in IssuedTo(s), NEW seq \in 1 .. MaxSeq,
           appendCheckpoint(t, seq)
    PROVE  Contract!Write(s)
<1>1. t \in Token /\ grants[t].session = s /\ t \in Nat \ {0}
  BY DEF IssuedTo, Token
<1>2. /\ Present(s) /\ entries[s] \in Entry
      /\ entries[s].lease # NoLease /\ entries[s].lease.token = t
      /\ seq = entries[s].latest + 1 /\ seq \in Nat \ {0}
      /\ Token' = Token /\ grants' = grants /\ now' = now
  BY <1>1, HolderFacts DEF appendCheckpoint, Token
<1>3. PICK c : c = [sequence |-> seq, by |-> t]
  OBVIOUS
<1>4. c \in Checkpoint /\ entries[s].checkpoints \in Seq(Checkpoint) /\ entries[s].latest \in Nat
  BY <1>1, <1>2, <1>3 DEF Checkpoint, Entry
<1>5. PICK kept : kept = Retain(Append(entries[s].checkpoints, c))
  OBVIOUS
<1>6. kept[Len(kept)] = c /\ kept \in Seq(Checkpoint)
  <2>1. kept[Len(kept)] = c
    BY <1>4, <1>5, LastRetained
  <2>2. Append(entries[s].checkpoints, c) \in Seq(Checkpoint)
    BY <1>4, AppendProperties
  <2>3. kept \in Seq(Checkpoint)
    BY <1>5, <2>2, RetainType
  <2> QED
    BY <2>1, <2>3
<1>7. PICK e : e = [entries[s] EXCEPT !.checkpoints = kept, !.latest = seq]
  OBVIOUS
<1>8. e \in Entry /\ e # Absent /\ e.lease = entries[s].lease /\ e.latest = seq
      /\ e.checkpoints = kept
  BY <1>2, <1>6, <1>7 DEF Entry
<1>9. entries' = [entries EXCEPT ![s] = e]
  BY <1>1, <1>3, <1>5, <1>7 DEF appendCheckpoint
<1>10. entries'[s] = e /\ \A r \in Session : r # s => entries'[r] = entries[r]
  BY <1>9 DEF IInv, TypeOK
<1>11. OthersSame(s)
  BY <1>2, <1>10, Untouched DEF OthersSame
<1>12. IssuedTo(s)' = IssuedTo(s) /\ NewestOf(s)' = NewestOf(s)
  BY <1>2, SameTokens
<1>13. TrustingIn(s)' = TrustingIn(s)
  BY <1>2, <1>12 DEF TrustingIn, Believes
<1>14. OwnerOf(s) = t /\ OwnerOf(s)' = t
  BY <1>2, <1>8, <1>10 DEF OwnerOf, Present
<1>15. HeadOf(s)' = c
  BY <1>2, <1>6, <1>8, <1>10 DEF HeadOf, Present
<1>16. HeadOf(s).sequence = entries[s].latest
  <2>1. CASE entries[s].latest > 0
    <3>1. PICK n : n = Len(entries[s].checkpoints)
      OBVIOUS
    <3>2. /\ n = IF entries[s].latest < Ring THEN entries[s].latest ELSE Ring
          /\ \A i \in 1 .. n : entries[s].checkpoints[i].sequence = entries[s].latest - n + i
      BY <1>2, <3>1 DEF RingInv, RingIsNewest
    <3>3. n \in Nat \ {0}
      BY <1>4, <2>1, <3>2
    <3>4. n \in 1 .. n /\ entries[s].latest - n + n = entries[s].latest
      BY <1>4, <3>3
    <3>5. entries[s].checkpoints[n].sequence = entries[s].latest
      BY <3>2, <3>4
    <3> QED
      BY <1>2, <2>1, <3>1, <3>5 DEF HeadOf
  <2>2. CASE ~ (entries[s].latest > 0)
    BY <1>4, <2>2 DEF HeadOf
  <2> QED
    BY <2>1, <2>2
<1>17. HeadOf(s)' = [sequence |-> HeadOf(s).sequence + 1, by |-> OwnerOf(s)]
  BY <1>2, <1>3, <1>14, <1>15, <1>16
<1> QED
  BY <1>1, <1>11, <1>12, <1>13, <1>14, <1>17, AsWrite

-----------------------------------------------------------------------------
(* The theorem. *)

\* Only Acquire hands out a token.
LEMMA TokensKept ==
    ASSUME IInv, [Next]_vars,
           ~ \E s \in Session, w \in Worker, ttl \in Ttl : Acquire(w, s, ttl)
    PROVE  \A s \in Session : IssuedTo(s)' = IssuedTo(s)
<1> SUFFICES Token' = Token /\ \A t \in Token : grants'[t].session = grants[t].session
  BY SameTokens
<1>1. CASE grants' = grants
  BY <1>1 DEF Token
<1>2. ASSUME NEW t \in Token, NEW g, g.session = grants[t].session, g \in Grant,
             grants' = [grants EXCEPT ![t] = g]
      PROVE  Token' = Token /\ \A u \in Token : grants'[u].session = grants[u].session
  <2>1. Token' = Token /\ \A u \in Token : grants'[u] = IF u = t THEN g ELSE grants[u]
    BY <1>2, GrantUpdate
  <2> QED
    BY <1>2, <2>1
<1>3. ASSUME NEW w \in Worker, NEW s \in Session, Refetch(w, s)
      PROVE  Token' = Token /\ \A u \in Token : grants'[u].session = grants[u].session
  <2>1. PICK t \in Token : t = entries[s].lease.token /\ entries[s].lease \in Lease
    BY <1>3, LeaseFacts DEF Refetch
  <2>2. PICK g : g = [grants[t] EXCEPT !.until = entries[s].lease.expiresAt]
    OBVIOUS
  <2>3. g \in Grant /\ g.session = grants[t].session
    BY <2>1, <2>2, TokenFacts DEF Grant, Lease
  <2>4. grants' = [grants EXCEPT ![t] = g]
    BY <1>3, <2>1, <2>2 DEF Refetch
  <2> QED
    BY <1>2, <2>3, <2>4
<1>4. ASSUME NEW t \in Token, releaseLease(t)
      PROVE  Token' = Token /\ \A u \in Token : grants'[u].session = grants[u].session
  <2>1. PICK g : g = [grants[t] EXCEPT !.over = TRUE]
    OBVIOUS
  <2>2. g \in Grant /\ g.session = grants[t].session
    BY <2>1, TokenFacts DEF Grant
  <2> QED
    BY <1>2, <1>4, <2>1, <2>2 DEF releaseLease
<1>5. ASSUME NEW t \in Token, NEW ttl \in Ttl, renewLease(t, ttl)
      PROVE  Token' = Token /\ \A u \in Token : grants'[u].session = grants[u].session
  <2>1. PICK g : g = [grants[t] EXCEPT !.until = now + ttl]
    OBVIOUS
  <2>2. now + ttl \in Nat
    BY DEF IInv, TypeOK
  <2>3. g \in Grant /\ g.session = grants[t].session
    BY <2>1, <2>2, TokenFacts DEF Grant
  <2> QED
    BY <1>2, <1>5, <2>1, <2>3 DEF renewLease
<1>6. ASSUME NEW s \in Session, NEW status \in Status, finalize(s, status)
      PROVE  Token' = Token /\ \A u \in Token : grants'[u].session = grants[u].session
  BY <1>6, RevokeFacts, RevokedSession DEF finalize
<1>7. ASSUME NEW s \in Session, destroy(s)
      PROVE  Token' = Token /\ \A u \in Token : grants'[u].session = grants[u].session
  BY <1>7, RevokeFacts, RevokedSession DEF destroy
<1>8. CASE Tick \/ UNCHANGED vars \/ \E s \in Session : Create(s)
  BY <1>1, <1>8 DEF Tick, vars, Create
<1>9. ASSUME NEW t \in Token, ClearExpired(t) \/ \E seq \in 1 .. MaxSeq : appendCheckpoint(t, seq)
      PROVE  Token' = Token /\ \A u \in Token : grants'[u].session = grants[u].session
  BY <1>1, <1>9 DEF ClearExpired, appendCheckpoint
<1> QED
  BY <1>3, <1>4, <1>5, <1>6, <1>7, <1>8, <1>9 DEF Next

LEMMA NewestStep ==
    ASSUME IInv, NewestExists, [Next]_vars PROVE NewestExists'
<1>1. ASSUME NEW s \in Session, NEW w \in Worker, NEW ttl \in Ttl, Acquire(w, s, ttl)
      PROVE  NewestExists'
  <2>1. PICK t : t = Len(grants) + 1
    OBVIOUS
  <2>2. /\ IssuedTo(s)' = IssuedTo(s) \cup {t} /\ t \in Nat
        /\ \A u \in Token : u < t
        /\ \A r \in Session : r # s => IssuedTo(r)' = IssuedTo(r)
    BY <1>1, <2>1, AcquireNewest
  <2>3. \A u \in IssuedTo(s)' : u <= t
    BY <2>2 DEF IssuedTo, Token
  <2> QED
    BY <2>2, <2>3 DEF NewestExists
<1>2. CASE ~ \E s \in Session, w \in Worker, ttl \in Ttl : Acquire(w, s, ttl)
  BY <1>2, TokensKept DEF NewestExists
<1> QED
  BY <1>1, <1>2

\* Initially nothing is leased, and the contract starts like that.
LEMMA InitRefines == Init => Contract!LeaseInit /\ NewestExists
<1> SUFFICES ASSUME Init PROVE Contract!LeaseInit /\ NewestExists
  OBVIOUS
<1>1. \A s \in Session : IssuedTo(s) = {}
  <2>1. Len(grants) = 0
    BY EmptySeq DEF Init
  <2> QED
    BY <2>1 DEF IssuedTo, Token
<1>2. \A s \in Session : TrustingIn(s) = {} /\ NewestOf(s) = 0
  BY <1>1 DEF TrustingIn, NewestOf
<1>3. \A s \in Session : OwnerOf(s) = 0 /\ HeadOf(s) = [sequence |-> 0, by |-> 0]
  BY DEF Init, OwnerOf, HeadOf, Present
<1> QED
  BY <1>1, <1>2, <1>3 DEF NewestExists, Contract!LeaseInit, Contract!NoCheckpoint

\* Every step of the store is a step of the contract or changes nothing in it.
LEMMA StepRefines ==
    ASSUME IInv, RingInv, NewestExists, [Next]_vars
    PROVE  [Contract!LeaseNext]_(Contract!leaseVars)
<1> USE DEF Contract!LeaseNext
<1>1. ASSUME NEW s \in Session, Create(s) PROVE UNCHANGED Contract!leaseVars
  BY <1>1, CreateRefines
<1>2. ASSUME NEW s \in Session, NEW w \in Worker, Refetch(w, s)
      PROVE  [Contract!LeaseNext]_(Contract!leaseVars)
  BY <1>2, RefetchRefines
<1>3. ASSUME NEW s \in Session, NEW w \in Worker, NEW ttl \in Ttl, Acquire(w, s, ttl)
      PROVE  [Contract!LeaseNext]_(Contract!leaseVars)
  BY <1>3, AcquireRefines
<1>4. ASSUME NEW s \in Session, NEW status \in Status, finalize(s, status)
      PROVE  [Contract!LeaseNext]_(Contract!leaseVars)
  BY <1>4, FinalizeRefines
<1>5. ASSUME NEW s \in Session, destroy(s) PROVE [Contract!LeaseNext]_(Contract!leaseVars)
  BY <1>5, DestroyRefines
<1>6. ASSUME NEW t \in Token, releaseLease(t) PROVE [Contract!LeaseNext]_(Contract!leaseVars)
  <2>1. PICK s \in Session : t \in IssuedTo(s)
    BY TokenFacts DEF IssuedTo
  <2> QED
    BY <1>6, <2>1, ReleaseRefines
<1>7. ASSUME NEW t \in Token, NEW ttl \in Ttl, renewLease(t, ttl)
      PROVE  [Contract!LeaseNext]_(Contract!leaseVars)
  <2>1. PICK s \in Session : t \in IssuedTo(s)
    BY TokenFacts DEF IssuedTo
  <2> QED
    BY <1>7, <2>1, RenewRefines
<1>8. ASSUME NEW t \in Token, ClearExpired(t) PROVE [Contract!LeaseNext]_(Contract!leaseVars)
  <2>1. PICK s \in Session : t \in IssuedTo(s)
    BY TokenFacts DEF IssuedTo
  <2> QED
    BY <1>8, <2>1, ClearExpiredRefines
<1>9. ASSUME NEW t \in Token, NEW seq \in 1 .. MaxSeq, appendCheckpoint(t, seq)
      PROVE  [Contract!LeaseNext]_(Contract!leaseVars)
  <2>1. PICK s \in Session : t \in IssuedTo(s)
    BY TokenFacts DEF IssuedTo
  <2> QED
    BY <1>9, <2>1, AppendRefines
<1>10. CASE Tick
  BY <1>10, TickRefines
<1>11. CASE UNCHANGED vars
  <2>1. /\ \A s \in Session : OwnerOf(s)' = OwnerOf(s) /\ HeadOf(s)' = HeadOf(s)
        /\ \A s \in Session : IssuedTo(s)' = IssuedTo(s)
    BY <1>11 DEF vars, OwnerOf, HeadOf, Present, IssuedTo, Token
  <2>2. \A s \in Session : NewestOf(s)' = NewestOf(s) /\ TrustingIn(s)' = TrustingIn(s)
    <3> SUFFICES ASSUME NEW s \in Session
                 PROVE  NewestOf(s)' = NewestOf(s) /\ TrustingIn(s)' = TrustingIn(s)
      OBVIOUS
    <3>1. IssuedTo(s)' = IssuedTo(s)
      BY <2>1
    <3>2. NewestOf(s)' = NewestOf(s)
      BY <3>1 DEF NewestOf
    <3>3. TrustingIn(s)' = TrustingIn(s)
      BY <1>11, <3>1 DEF vars, TrustingIn, Believes
    <3> QED
      BY <3>2, <3>3
  <2> QED
    BY <2>1, <2>2, AsStutter DEF Same
<1> QED
  BY <1>1, <1>2, <1>3, <1>4, <1>5, <1>6, <1>7, <1>8, <1>9, <1>10, <1>11 DEF Next

\* The store keeps the contract of the port: leases are granted only when nobody
\* trusts in an old one, tokens only grow, only the owner writes, and a write is
\* the next checkpoint (resume, renewLease, appendCheckpoint, finalize, destroy).
THEOREM ContractImplemented == Spec => ImplementsContract
<1>1. Init => IInv /\ RingInv /\ NewestExists /\ Contract!LeaseInit
  BY InitHolds, RingInit, InitRefines
<1>2. IInv /\ RingInv /\ NewestExists /\ [Next]_vars => IInv' /\ RingInv' /\ NewestExists'
  BY StepHolds, RingStep, NewestStep
<1>3. IInv /\ RingInv /\ NewestExists /\ [Next]_vars
        => [Contract!LeaseNext]_(Contract!leaseVars)
  BY StepRefines
<1> QED
  BY <1>1, <1>2, <1>3, PTL DEF Spec, ImplementsContract, Contract!LeaseSpec

=============================================================================
