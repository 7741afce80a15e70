------------------------- MODULE CortexSessionStore -------------------------
(***************************************************************************)
(* The session store kept in an app's key-value storage                    *)
(* (agent-runtime/src/cortex/session-store.ts).  The storage offers get,   *)
(* put and delete of one key, and every operation of the store is a get,   *)
(* a decision, and then awaited writes: another caller, in this process or *)
(* another, may run between any two of them.                               *)
(*                                                                         *)
(* A call is therefore two kinds of steps: the first reads the envelope,   *)
(* takes every decision and fixes the writes still to do; `Perform' does   *)
(* the next of them.  A process may die between two writes.                *)
(*                                                                         *)
(* One session is modelled: sessions share no key.                         *)
(***************************************************************************)
EXTENDS Naturals, Sequences, FiniteSets

CONSTANTS
    Caller,      \* the flows of control that call the store
    Creator,     \* the one that creates the session (its id is fresh)
    Worker(_),   \* the worker id a caller presents
    Ttl, Ring,
    Serial,      \* TRUE: no call starts while another is under way
    MaxTime, MaxGrants, MaxSeq,
    Absent, NoLease

ASSUME SerialAssumption == Serial \in BOOLEAN
ASSUME CortexAssumption ==
    /\ Ttl \subseteq Nat \ {0} /\ Ring \in Nat \ {0}
    /\ MaxTime \in Nat /\ MaxGrants \in Nat /\ MaxSeq \in Nat

VARIABLES
    envelope,    \* the value under the session's key
    stored,      \* checkpoint key -> the checkpoint under it
    grants,      \* fencing tokens made, and what their holders know
    now,
    call         \* per caller: the writes it still has to do

vars == <<envelope, stored, grants, now, call>>

Token == 1 .. Len(grants)
Status == {"running", "completed", "failed"}
Lease == [worker : {Worker(c) : c \in Caller}, token : Nat, expiresAt : Nat]
Checkpoint == [sequence : Nat, by : Nat]

\* checkpointSequences, each with the token that wrote it (which the code does
\* not keep).
Envelope == [status : Status, latest : Nat, checkpoints : Seq(Checkpoint),
             lease : Lease \cup {NoLease}]

ASSUME AbsenceAssumption == Absent \notin Envelope /\ NoLease \notin Lease

Grant == [worker : {Worker(c) : c \in Caller}, until : Nat, over : BOOLEAN]

\* A write of one key, with what the caller learns when it is the last:
\* `tell' is the token whose expiry it is told, 0 for none.
Write ==
    [kind : {"snapshot"}, value : Envelope \cup {Absent}, tell : Nat]
      \cup [kind : {"checkpoint"}, value : Checkpoint]
      \cup [kind : {"evict", "drop"}, value : Nat]

TypeOK ==
    /\ envelope \in Envelope \cup {Absent}
    /\ DOMAIN stored \subseteq Nat /\ stored \in [DOMAIN stored -> Checkpoint]
    /\ grants \in Seq(Grant)
    /\ now \in Nat
    /\ call \in [Caller -> Seq(Write)]

Init ==
    /\ envelope = Absent
    /\ stored = [k \in {} |-> 0]
    /\ grants = <<>>
    /\ now = 0
    /\ call = [c \in Caller |-> <<>>]

leaseExpired(lease) == lease.expiresAt <= now

\* A caller reads the envelope and goes on with `writes'.
Start(c, writes) ==
    /\ call[c] = <<>>
    /\ Serial => \A d \in Caller : call[d] = <<>>
    /\ call' = [call EXCEPT ![c] = writes]
    /\ UNCHANGED <<envelope, stored, now>>

Put(value, tell) == [kind |-> "snapshot", value |-> value, tell |-> tell]

Save(checkpoint) == [kind |-> "checkpoint", value |-> checkpoint]

Evict(checkpoint) == [kind |-> "evict", value |-> checkpoint.sequence]

Drop(checkpoint) == [kind |-> "drop", value |-> checkpoint.sequence]

\* The envelope as read, without its lease.
Unleased == [envelope EXCEPT !.lease = NoLease]

LeaseFor(worker, t, expiresAt) == [worker |-> worker, token |-> t, expiresAt |-> expiresAt]

AnyLease(t) == envelope # Absent /\ envelope.lease # NoLease

HoldsLease(t) ==
    /\ envelope # Absent
    /\ envelope.lease # NoLease
    /\ envelope.lease.token = t

\* The tokens a caller may present: those made for its worker.
TokensOf(c) == {t \in Token : grants[t].worker = Worker(c) /\ grants[t].until > 0}

-----------------------------------------------------------------------------

NewEnvelope == [status |-> "running", latest |-> 0, checkpoints |-> <<>>, lease |-> NoLease]

create(c) ==
    /\ c = Creator
    /\ envelope = Absent
    /\ Start(c, <<Put(NewEnvelope, 0)>>)
    /\ UNCHANGED grants

\* resume with a live lease of the same worker only reads.
resumeRefetch(c) ==
    /\ call[c] = <<>>
    /\ Serial => \A d \in Caller : call[d] = <<>>
    /\ envelope # Absent
    /\ envelope.lease # NoLease
    /\ ~ leaseExpired(envelope.lease)
    /\ envelope.lease.worker = Worker(c)
    /\ grants' = [grants EXCEPT ![envelope.lease.token] =
                    [worker |-> Worker(c), until |-> envelope.lease.expiresAt, over |-> FALSE]]
    /\ UNCHANGED <<envelope, stored, now, call>>

\* resume with no lease, or a dead one: the new token is made before the put.
resumeAcquire(c, ttl) ==
    /\ Len(grants) < MaxGrants
    /\ envelope # Absent
    /\ envelope.lease # NoLease => leaseExpired(envelope.lease)
    /\ Start(c, <<Put([envelope EXCEPT !.lease = LeaseFor(Worker(c), Len(grants) + 1, now + ttl)],
                      Len(grants) + 1)>>)
    /\ grants' = Append(grants, [worker |-> Worker(c), until |-> 0, over |-> FALSE])

\* The holder of a token knows that its lease is over.
GiveUp(t) ==
    grants' = [grants EXCEPT ![t] =
                 [worker |-> grants[t].worker, until |-> grants[t].until, over |-> TRUE]]

\* The caller gives its token up as it calls, whatever the store finds.
releaseLease(c, t) ==
    /\ t \in TokensOf(c)
    /\ Start(c, IF HoldsLease(t) THEN <<Put(Unleased, 0)>> ELSE <<>>)
    /\ GiveUp(t)

renewLease(c, t, ttl) ==
    /\ t \in TokensOf(c)
    /\ HoldsLease(t)
    /\ Start(c, IF leaseExpired(envelope.lease)
                THEN <<Put(Unleased, 0)>>
                ELSE <<Put([envelope EXCEPT !.lease = LeaseFor(@.worker, t, now + ttl)], t)>>)
    /\ UNCHANGED grants

Appended(t) == Append(envelope.checkpoints, [sequence |-> envelope.latest + 1, by |-> t])

Evictions(ring) ==
    IF Len(ring) > Ring THEN <<Evict(Head(ring))>> ELSE <<>>

Kept(ring) == IF Len(ring) > Ring THEN Tail(ring) ELSE ring

Extended(ring, checkpoint) ==
    [envelope EXCEPT !.latest = checkpoint.sequence, !.checkpoints = Kept(ring)]

EnvelopeFirst(ring, checkpoint) ==
    <<Put(Extended(ring, checkpoint), 0)>> \o <<Save(checkpoint)>> \o Evictions(ring)

\* Three writes: the checkpoint, the eviction of the oldest when the ring is
\* full, and the envelope that names the new one.  The envelope is the one read,
\* lease and status included.
AppendWrites(ring, checkpoint) ==
    <<Save(checkpoint)>> \o Evictions(ring) \o <<Put(Extended(ring, checkpoint), 0)>>

appendCheckpoint(c, t) ==
    /\ t \in TokensOf(c)
    /\ HoldsLease(t)
    /\ ~ leaseExpired(envelope.lease)
    /\ envelope.latest < MaxSeq
    /\ Start(c, AppendWrites(Appended(t), [sequence |-> envelope.latest + 1, by |-> t]))
    /\ UNCHANGED grants

\* What finalize and destroy, called by the worker that holds the session, mean
\* to its lease.
Revoke ==
    IF envelope.lease = NoLease THEN UNCHANGED grants ELSE GiveUp(envelope.lease.token)

finalize(c, status) ==
    /\ envelope # Absent
    /\ Start(c, <<Put([Unleased EXCEPT !.status = status], 0)>>)
    /\ Revoke

\* The checkpoints the envelope names, in their order, and then the envelope.
destroy(c) ==
    /\ envelope # Absent
    /\ Start(c, [i \in 1 .. Len(envelope.checkpoints) |-> Drop(envelope.checkpoints[i])]
                \o <<Put(Absent, 0)>>)
    /\ Revoke

-----------------------------------------------------------------------------

putSnapshot(c) ==
    LET write == Head(call[c]) IN
    /\ write.kind = "snapshot"
    /\ envelope' = write.value
    /\ grants' = IF write.tell = 0 THEN grants
                 ELSE [grants EXCEPT ![write.tell] =
                         [worker |-> grants[write.tell].worker,
                          until |-> write.value.lease.expiresAt,
                          over |-> grants[write.tell].over]]
    /\ UNCHANGED stored

putCheckpoint(c) ==
    LET write == Head(call[c]) IN
    /\ write.kind = "checkpoint"
    /\ stored' = [k \in DOMAIN stored \cup {write.value.sequence} |->
                    IF k = write.value.sequence THEN write.value ELSE stored[k]]
    /\ UNCHANGED <<envelope, grants>>

evict(c) ==
    LET write == Head(call[c]) IN
    /\ write.kind = "evict"
    /\ stored' = [k \in DOMAIN stored \ {write.value} |-> stored[k]]
    /\ UNCHANGED <<envelope, grants>>

\* A destroy goes on when the storage refuses to delete a checkpoint: the error is
\* swallowed and the checkpoint stays.
drop(c) ==
    LET write == Head(call[c]) IN
    /\ write.kind = "drop"
    /\ \/ stored' = [k \in DOMAIN stored \ {write.value} |-> stored[k]]
       \/ UNCHANGED stored
    /\ UNCHANGED <<envelope, grants>>

\* The next write of a call reaches the storage.
Perform(c) ==
    /\ call[c] # <<>>
    /\ putSnapshot(c) \/ putCheckpoint(c) \/ evict(c) \/ drop(c)
    /\ call' = [call EXCEPT ![c] = Tail(@)]
    /\ UNCHANGED now

\* The process dies with the call under way, or a write fails and its error ends
\* the call.
Crash(c) ==
    /\ call[c] # <<>>
    /\ call' = [call EXCEPT ![c] = <<>>]
    /\ UNCHANGED <<envelope, stored, grants, now>>

Tick ==
    /\ now < MaxTime
    /\ now' = now + 1
    /\ UNCHANGED <<envelope, stored, grants, call>>

Next ==
    \/ \E c \in Caller :
         \/ create(c) \/ resumeRefetch(c) \/ destroy(c) \/ Perform(c) \/ Crash(c)
         \/ \E ttl \in Ttl : resumeAcquire(c, ttl)
         \/ \E status \in Status \ {"running"} : finalize(c, status)
         \/ \E t \in Token :
              \/ releaseLease(c, t) \/ appendCheckpoint(c, t)
              \/ \E ttl \in Ttl : renewLease(c, t, ttl)
    \/ Tick

Spec == Init /\ [][Next]_vars

-----------------------------------------------------------------------------

Believes(t) == ~ grants[t].over /\ now < grants[t].until

\* Contract I-2: while a caller may think the session is its own, no caller of
\* another worker may think so too.
LeaseExclusion ==
    \A t, u \in Token : Believes(t) /\ Believes(u) => grants[t].worker = grants[u].worker

\* Contract I-3: a checkpoint becomes the session's newest only while its author
\* holds the session's lease.
OnlyHolderAppends ==
    [][ (envelope # Absent /\ envelope' # Absent /\ envelope'.latest > envelope.latest)
          => /\ envelope.lease # NoLease
             /\ envelope.lease.token = envelope'.checkpoints[Len(envelope'.checkpoints)].by ]_vars

\* Contract I-4, and "latestCheckpointSequence updated atomically": short of a
\* destroy, the newest checkpoint of a session is never forgotten again.
CheckpointsKept ==
    [][ (envelope # Absent /\ envelope' # Absent) => envelope'.latest >= envelope.latest ]_vars

\* A session marked terminal is not running again later.
TerminalStays ==
    [][ (envelope # Absent /\ envelope.status # "running" /\ envelope' # Absent)
          => envelope'.status # "running" ]_vars

Holds(checkpoint) ==
    /\ checkpoint.sequence \in DOMAIN stored
    /\ stored[checkpoint.sequence] = checkpoint

\* The envelope names a newest checkpoint that a resume would not find, or under
\* whose key it would find another one.
LatestLost ==
    /\ envelope # Absent
    /\ envelope.latest > 0
    /\ ~ Holds(envelope.checkpoints[Len(envelope.checkpoints)])

Destroying == \E c \in Caller : call[c] # <<>> /\ Head(call[c]).kind = "drop"

\* The newest checkpoint of a session can be read back as it was appended, wherever
\* a call was cut short and whatever an earlier session of the id has left behind:
\* only a destroy's own deletes lose it.  A ring of one is excluded, for there an
\* append evicts the newest checkpoint before the envelope names the next.
LatestReadable ==
    [][ (Ring > 1 /\ LatestLost') => (LatestLost \/ Destroying) ]_vars

\* destroy removes "a session and all its checkpoints".
DestroyedIsGone ==
    envelope = Absent /\ (\A c \in Caller : call[c] = <<>>) => DOMAIN stored = {}

\* The contract this store implements, and what its variables are here: the token
\* in the envelope, the newest token a caller was told of, the tokens whose holders
\* believe in them, and the last checkpoint the envelope names.
Owner == IF envelope # Absent /\ envelope.lease # NoLease THEN envelope.lease.token ELSE 0

Told == {t \in Token : grants[t].until > 0}

Issued == IF Told = {} THEN 0 ELSE CHOOSE t \in Told : \A u \in Told : u <= t

Trusting == {t \in Token : Believes(t)}

Newest ==
    IF envelope # Absent /\ envelope.latest > 0
    THEN envelope.checkpoints[Len(envelope.checkpoints)]
    ELSE [sequence |-> 0, by |-> 0]

Contract == INSTANCE SessionLease WITH
    Session <- {"session"},
    TokenId <- 1 .. MaxGrants,
    owner <- [s \in {"session"} |-> Owner],
    issued <- [s \in {"session"} |-> Issued],
    trusting <- [s \in {"session"} |-> Trusting],
    head <- [s \in {"session"} |-> Newest]

\* With one call at a time the store keeps the contract, crashes included.
ImplementsContract == Contract!LeaseSpec

-----------------------------------------------------------------------------
(* What the proofs rest on. *)

OneCall == \A c, d \in Caller : call[c] # <<>> /\ call[d] # <<>> => c = d

\* The envelope's put is the last write of a call.
SnapshotLast ==
    \A c \in Caller : \A i \in 1 .. Len(call[c]) :
        call[c][i].kind = "snapshot" <=> i = Len(call[c])

\* The holder of the lease in the envelope was told its expiry, and nobody but the
\* holder believes in a lease.
LeaseTold ==
    envelope # Absent /\ envelope.lease # NoLease =>
        LET t == envelope.lease.token IN
        /\ t \in Told
        /\ grants[t].worker = envelope.lease.worker
        /\ grants[t].until = envelope.lease.expiresAt

OwnerTrusted == \A t \in Token : Believes(t) => HoldsLease(t)

TokensInOrder == Told # {} => \E t \in Told : \A u \in Told : u <= t

\* The ring is in order and ends with the newest checkpoint.
RingInOrder ==
    envelope # Absent =>
        LET ring == envelope.checkpoints IN
        /\ envelope.latest = 0 <=> Len(ring) = 0
        /\ Len(ring) > 0 => ring[Len(ring)].sequence = envelope.latest
        /\ \A i, j \in 1 .. Len(ring) : i < j => ring[i].sequence < ring[j].sequence

\* What the put that ends a call does to the envelope it will find.
SameRing(v) ==
    /\ envelope # Absent /\ v # Absent
    /\ v.latest = envelope.latest /\ v.checkpoints = envelope.checkpoints

Creates(put) == put.tell = 0 /\ envelope = Absent /\ put.value = NewEnvelope

Clears(put) ==
    /\ put.tell = 0 /\ Trusting = {}
    /\ put.value = Absent \/ (SameRing(put.value) /\ put.value.lease = NoLease)

Leases(put) ==
    /\ SameRing(put.value)
    /\ put.value.lease # NoLease /\ put.value.lease.token = put.tell /\ put.tell \in Token
    /\ put.value.lease.worker = grants[put.tell].worker /\ put.value.lease.expiresAt > 0
    /\ \/ /\ put.tell = Len(grants) /\ put.tell <= MaxGrants
          /\ grants[put.tell].until = 0 /\ Trusting = {}
       \/ envelope.lease # NoLease /\ envelope.lease.token = put.tell

Adds(put) ==
    /\ put.tell = 0
    /\ envelope # Absent /\ envelope.lease # NoLease
    /\ put.value = Extended(Appended(envelope.lease.token),
                            [sequence |-> envelope.latest + 1, by |-> envelope.lease.token])

PutSound ==
    \A c \in Caller : call[c] # <<>> =>
        LET put == call[c][Len(call[c])] IN
        Creates(put) \/ Clears(put) \/ Leases(put) \/ Adds(put)

LeaseInv ==
    /\ TypeOK /\ OneCall /\ SnapshotLast /\ LeaseTold /\ OwnerTrusted /\ TokensInOrder
    /\ RingInOrder /\ PutSound

\* The checkpoint an append of the lease's holder adds.
Added == [sequence |-> envelope.latest + 1, by |-> envelope.lease.token]

\* A checkpoint is saved before the envelope names it.
SavesFirst(writes) ==
    /\ \A m \in 1 .. Len(writes) : writes[m].kind = "checkpoint" =>
         Adds(writes[Len(writes)]) /\ writes[m].value = Added
    /\ (writes # <<>> /\ Adds(writes[Len(writes)])) =>
         Holds(Added) \/ \E m \in 1 .. Len(writes) : writes[m].kind = "checkpoint"

\* What an append evicts is older than the newest checkpoint.
EvictsOlder(writes) ==
    \A m \in 1 .. Len(writes) : (Ring > 1 /\ writes[m].kind = "evict") =>
        envelope # Absent /\ writes[m].value < envelope.latest

\* A call that deletes what the envelope names ends by deleting the envelope.
DropsAll(writes) ==
    \A m \in 1 .. Len(writes) :
        writes[m].kind = "drop" => writes[Len(writes)].value = Absent

ReadInv ==
    \A c \in Caller : SavesFirst(call[c]) /\ EvictsOlder(call[c]) /\ DropsAll(call[c])

IInv == LeaseInv /\ ReadInv

=============================================================================
