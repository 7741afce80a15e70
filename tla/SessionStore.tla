---------------------------- MODULE SessionStore ----------------------------
(***************************************************************************)
(* The session store of the reference adapter                              *)
(* (runtime/src/sessions/session-store/in-memory-session-store.ts).  The   *)
(* bodies of its operations contain no await, so each one is one step.     *)
(*                                                                         *)
(* A session is an entry that holds its snapshot (here: status and         *)
(* latestCheckpointSequence), a ring of checkpoints and at most one lease. *)
(* Time is the natural number `now'; a lease is dead from the instant its  *)
(* expiry is reached.                                                      *)
(*                                                                         *)
(* `grants' is what the callers know: grants[t] is the answer the store    *)
(* gave for fencing token t, with the expiry the caller last heard of.     *)
(* Tokens are numbered in the order in which newFencingToken made them;    *)
(* the store itself never compares two tokens except for equality.         *)
(***************************************************************************)
EXTENDS Naturals, Sequences

CONSTANTS
    Session,     \* session ids
    Worker,      \* worker ids
    Ttl,         \* lease durations a caller may ask for
    Ring,        \* checkpointRingSize
    MaxTime,     \* bound on the clock
    MaxGrants,   \* bound on the number of fencing tokens issued
    MaxSeq,      \* bound on the checkpoints of a session
    Absent,      \* "no such session"
    NoLease      \* "lease: null"

ASSUME TtlAssumption == Ttl \subseteq Nat \ {0}
ASSUME RingAssumption == Ring \in Nat \ {0}
ASSUME BoundsAssumption == MaxTime \in Nat /\ MaxGrants \in Nat /\ MaxSeq \in Nat

VARIABLES
    entries,     \* the Map of sessions
    grants,      \* the fencing tokens handed out, with what their holder knows
    now          \* the clock

vars == <<entries, grants, now>>

Token == 1 .. Len(grants)

Status == {"running", "completed", "failed"}

Lease == [worker : Worker, token : Nat, expiresAt : Nat]

\* `by' is the fencing token the checkpoint was accepted under.
Checkpoint == [sequence : Nat, by : Nat]

Entry == [status : Status, latest : Nat, checkpoints : Seq(Checkpoint),
          lease : Lease \cup {NoLease}]

\* until: the expiry last told to the holder.  over: the holder gave the lease
\* back, or lost it to finalize or destroy.
Grant == [worker : Worker, session : Session, until : Nat, over : BOOLEAN]

NewEntryWithoutDefault ==
    [status |-> "running", latest |-> Absent, checkpoints |-> <<>>, lease |-> NoLease]

NewEntry == [status |-> "running", latest |-> 0, checkpoints |-> <<>>, lease |-> NoLease]

TypeOK ==
    /\ entries \in [Session -> Entry \cup {Absent}]
    /\ grants \in Seq(Grant)
    /\ now \in Nat

Init ==
    /\ entries = [s \in Session |-> Absent]
    /\ grants = <<>>
    /\ now = 0

Present(s) == entries[s] # Absent

OneTooEarly(lease) == lease.expiresAt <= now + 1

leaseExpired(lease) == lease.expiresAt <= now

AnyLease(t) ==
    LET e == entries[grants[t].session]
    IN  e # Absent /\ e.lease # NoLease

\* The lease that fencing token t would be checked against.
HoldsLease(t) ==
    LET e == entries[grants[t].session]
    IN  e # Absent /\ e.lease # NoLease /\ e.lease.token = t

-----------------------------------------------------------------------------

Create(s) ==
    /\ ~ Present(s)
    /\ entries' = [entries EXCEPT ![s] = NewEntry]
    /\ UNCHANGED <<grants, now>>

\* resume, same worker, live lease: the existing token is returned again.
Refetch(w, s) ==
    /\ Present(s)
    /\ entries[s].lease # NoLease
    /\ ~ leaseExpired(entries[s].lease)
    /\ entries[s].lease.worker = w
    /\ grants' = [grants EXCEPT ![entries[s].lease.token].until = entries[s].lease.expiresAt]
    /\ UNCHANGED <<entries, now>>

\* resume, no lease or a dead one: a new token for `ttl'.
Acquire(w, s, ttl) ==
    /\ Len(grants) < MaxGrants
    /\ Present(s)
    /\ entries[s].lease # NoLease => leaseExpired(entries[s].lease)
    /\ entries' = [entries EXCEPT ![s].lease =
                     [worker |-> w, token |-> Len(grants) + 1, expiresAt |-> now + ttl]]
    /\ grants' = Append(grants,
                   [worker |-> w, session |-> s, until |-> now + ttl, over |-> FALSE])
    /\ UNCHANGED now

\* The caller forgets its token whether or not the store still knew it.
releaseLease(t) ==
    /\ entries' = IF HoldsLease(t)
                  THEN [entries EXCEPT ![grants[t].session].lease = NoLease]
                  ELSE entries
    /\ grants' = [grants EXCEPT ![t].over = TRUE]
    /\ UNCHANGED now

renewLease(t, ttl) ==
    /\ HoldsLease(t)
    /\ ~ leaseExpired(entries[grants[t].session].lease)
    /\ entries' = [entries EXCEPT ![grants[t].session].lease.expiresAt = now + ttl]
    /\ grants' = [grants EXCEPT ![t].until = now + ttl]
    /\ UNCHANGED now

\* renewLease and appendCheckpoint both clear a lease they find expired.
ClearExpired(t) ==
    /\ HoldsLease(t)
    /\ leaseExpired(entries[grants[t].session].lease)
    /\ entries' = [entries EXCEPT ![grants[t].session].lease = NoLease]
    /\ UNCHANGED <<grants, now>>

RetainOneMore(ring) ==
    IF Len(ring) > Ring + 1 THEN SubSeq(ring, Len(ring) - Ring, Len(ring)) ELSE ring

\* What is left of the ring after a push.
Retain(ring) == IF Len(ring) > Ring THEN SubSeq(ring, 1 + Len(ring) - Ring, Len(ring)) ELSE ring

appendCheckpoint(t, seq) ==
    LET s == grants[t].session IN
    /\ HoldsLease(t)
    /\ ~ leaseExpired(entries[s].lease)
    /\ seq = entries[s].latest + 1
    /\ entries' = [entries EXCEPT
         ![s].checkpoints = Retain(Append(@, [sequence |-> seq, by |-> t])),
         ![s].latest = seq]
    /\ UNCHANGED <<grants, now>>

\* Revocation is what finalize and destroy do to the holder of a lease.
Revoke(s) ==
    grants' = IF entries[s].lease = NoLease THEN grants
              ELSE [grants EXCEPT ![entries[s].lease.token].over = TRUE]

finalize(s, status) ==
    /\ Present(s)
    /\ entries' = [entries EXCEPT ![s].status = status, ![s].lease = NoLease]
    /\ Revoke(s)
    /\ UNCHANGED now

destroy(s) ==
    /\ Present(s)
    /\ entries' = [entries EXCEPT ![s] = Absent]
    /\ Revoke(s)
    /\ UNCHANGED now

Tick ==
    /\ now < MaxTime
    /\ now' = now + 1
    /\ UNCHANGED <<entries, grants>>

Next ==
    \/ \E s \in Session :
         \/ Create(s)
         \/ \E w \in Worker : Refetch(w, s) \/ \E ttl \in Ttl : Acquire(w, s, ttl)
         \/ \E status \in Status : finalize(s, status)
         \/ destroy(s)
    \/ \E t \in Token :
         \/ releaseLease(t)
         \/ \E ttl \in Ttl : renewLease(t, ttl)
         \/ ClearExpired(t)
         \/ \E seq \in 1 .. MaxSeq : appendCheckpoint(t, seq)
    \/ Tick

Spec == Init /\ [][Next]_vars

-----------------------------------------------------------------------------

\* A holder that has not given the lease back, nor lost it to finalize, and
\* whose lease has not run out by what it was told.
Believes(t) == ~ grants[t].over /\ now < grants[t].until

\* Two callers never both have reason to think they own a session: whatever
\* mixture of resumes, renewals, expiries and releases led here, a token whose
\* told expiry lies ahead is the one the store accepts (contract I-2 of
\* ports/session-store.ts).
LeaseExclusion == \A t \in Token : Believes(t) => HoldsLease(t)

\* The ring holds the newest sequences, without gap, up to the snapshot's
\* latestCheckpointSequence, and drops one only when it is full (contract I-4).
RingIsNewest ==
    \A s \in Session : Present(s) =>
        LET e == entries[s] IN
        /\ Len(e.checkpoints) = IF e.latest < Ring THEN e.latest ELSE Ring
        /\ \A i \in 1 .. Len(e.checkpoints) :
             e.checkpoints[i].sequence = e.latest - Len(e.checkpoints) + i

\* Fencing (contract I-3): once a later token has written to a session, no
\* earlier token writes again, so authorship in the ring only moves forward,
\* and the current lease is the newest writer there can be.
FencingOrder ==
    \A s \in Session : Present(s) =>
        LET e == entries[s] IN
        /\ \A i, j \in 1 .. Len(e.checkpoints) :
             i <= j => e.checkpoints[i].by <= e.checkpoints[j].by
        /\ e.lease # NoLease =>
             \A i \in 1 .. Len(e.checkpoints) : e.checkpoints[i].by <= e.lease.token

\* What each holder knows is about a real lease: the current lease of a session
\* carries an issued token of its own worker, and outlives what the holder was
\* told.
LeaseIssued ==
    \A s \in Session : Present(s) /\ entries[s].lease # NoLease =>
        LET l == entries[s].lease IN
        /\ l.token \in Token
        /\ grants[l.token].session = s
        /\ grants[l.token].worker = l.worker
        /\ grants[l.token].until <= l.expiresAt

ASSUME AbsenceAssumption == NoLease \notin Lease /\ Absent \notin Entry

\* Every checkpoint in a ring was written under an issued token.
AuthorsIssued ==
    \A s \in Session : Present(s) =>
        \A i \in 1 .. Len(entries[s].checkpoints) : entries[s].checkpoints[i].by \in Token

IInv == TypeOK /\ LeaseIssued /\ LeaseExclusion

\* The contract this store implements, and what its variables are here: the
\* stored token, the newest token handed out, the tokens whose holders believe in
\* them, and the last checkpoint of the ring.
IssuedTo(s) == {t \in Token : grants[t].session = s}

OwnerOf(s) == IF Present(s) /\ entries[s].lease # NoLease THEN entries[s].lease.token ELSE 0

NewestOf(s) ==
    IF IssuedTo(s) = {} THEN 0
    ELSE CHOOSE t \in IssuedTo(s) : \A u \in IssuedTo(s) : u <= t

TrustingIn(s) == {t \in IssuedTo(s) : Believes(t)}

HeadOf(s) ==
    IF Present(s) /\ entries[s].latest > 0
    THEN entries[s].checkpoints[Len(entries[s].checkpoints)]
    ELSE [sequence |-> 0, by |-> 0]

Contract == INSTANCE SessionLease WITH
    TokenId <- 1 .. MaxGrants,
    owner <- [s \in Session |-> OwnerOf(s)],
    issued <- [s \in Session |-> NewestOf(s)],
    trusting <- [s \in Session |-> TrustingIn(s)],
    head <- [s \in Session |-> HeadOf(s)]

\* Every step of the store is a step of the contract, or leaves it alone.
ImplementsContract == Contract!LeaseSpec

RingInv == RingIsNewest /\ FencingOrder /\ AuthorsIssued

=============================================================================
