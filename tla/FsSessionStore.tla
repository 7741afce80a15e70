--------------------------- MODULE FsSessionStore ---------------------------
(***************************************************************************)
(* The session store kept in two files of the bridge's disk                *)
(* (bridge/src/domains/sessions/fs-session-store.ts): snapshot.json, which *)
(* also holds the lease, and checkpoints.jsonl.  Its bodies are            *)
(* synchronous, so a call is one step, and the calls of two processes are  *)
(* taken not to overlap (the store's own "single-host limitation"; what an *)
(* overlap does is the subject of CortexSessionStore).  What remains is    *)
(* that a process may die between the two files: the actions named Dies... *)
(* are the calls of which only the first file was written.                 *)
(*                                                                         *)
(* One session.  A lease has so many ticks left; `dead' are the tokens     *)
(* whose lease names the pid of a process that is gone.                    *)
(*                                                                         *)
(* This module has no Next: ResumeProtocol drives it.                      *)
(***************************************************************************)
EXTENDS Naturals, Sequences

CONSTANTS
    Process,     \* the worker processes, each with a worker id of its own
    RingSize,    \* checkpointRingSize
    MaxSeq,      \* bound on the sequences
    MaxTokens,   \* bound on the fencing tokens made
    Absent, NoLease

ASSUME RingSizeAssumption == RingSize \in Nat \ {0}

VARIABLES
    snapshot,    \* snapshot.json
    ring,        \* checkpoints.jsonl
    made,        \* the number of fencing tokens made
    dead         \* the tokens whose lease holds the pid of a dead process

storeVars == <<snapshot, ring, made, dead>>

Lease == [worker : Process, token : Nat, left : Nat]
Checkpoint == [sequence : Nat, by : Nat]
Snapshot == [status : {"running", "completed"}, latest : Nat, lease : Lease \cup {NoLease}]

ASSUME StoreAssumption ==
    /\ MaxSeq \in Nat /\ MaxTokens \in Nat
    /\ Absent \notin Snapshot /\ NoLease \notin Lease

StoreTypeOK ==
    /\ snapshot \in Snapshot \cup {Absent}
    /\ ring \in Seq(Checkpoint)
    /\ made \in 0 .. MaxTokens
    /\ dead \subseteq 1 .. made

StoreInit ==
    /\ snapshot = Absent
    /\ ring = <<>>
    /\ made = 0
    /\ dead = {}

leaseExpired(lease) == lease.left = 0

AnyDeath(lease) == leaseExpired(lease) \/ dead # {}

\* Why a lease may be taken over: it ran out, or its process is gone.
Stale(lease) == leaseExpired(lease) \/ lease.token \in dead

HoldsLease(t) ==
    /\ snapshot # Absent
    /\ snapshot.lease # NoLease
    /\ snapshot.lease.token = t

Unleased == [snapshot EXCEPT !.lease = NoLease]

NewSnapshot == [status |-> "running", latest |-> 0, lease |-> NoLease]

create ==
    /\ snapshot = Absent
    /\ snapshot' = NewSnapshot
    /\ ring' = <<>>
    /\ UNCHANGED <<made, dead>>

\* The process dies after it wrote snapshot.json, before it empties the other.
DiesCreating ==
    /\ snapshot = Absent
    /\ snapshot' = NewSnapshot
    /\ UNCHANGED <<ring, made, dead>>

\* resume by the worker of a live lease changes no file.
refetch(p) ==
    /\ snapshot # Absent
    /\ snapshot.lease # NoLease
    /\ ~ Stale(snapshot.lease)
    /\ snapshot.lease.worker = p
    /\ UNCHANGED storeVars

acquire(p, ttl) ==
    /\ made < MaxTokens
    /\ snapshot # Absent
    /\ snapshot.lease # NoLease => Stale(snapshot.lease)
    /\ made' = made + 1
    /\ snapshot' = [snapshot EXCEPT !.lease =
                      [worker |-> p, token |-> made + 1, left |-> ttl]]
    /\ UNCHANGED <<ring, dead>>

releaseLease(t) ==
    /\ snapshot' = IF HoldsLease(t) THEN Unleased ELSE snapshot
    /\ UNCHANGED <<ring, made, dead>>

\* A lease that is found expired is cleared; one of another token is let be.
Renewed(t, ttl) ==
    snapshot' = IF ~ HoldsLease(t) THEN snapshot
                ELSE IF leaseExpired(snapshot.lease) THEN Unleased
                ELSE [snapshot EXCEPT !.lease.left = ttl]

renewLease(t, ttl) == Renewed(t, ttl) /\ UNCHANGED <<ring, made, dead>>

\* What the checkpoint sink takes for the next sequence: one more than
\* loadLatestCheckpoint finds in the file.
NextSequence == IF ring = <<>> THEN 1 ELSE ring[Len(ring)].sequence + 1

\* appendCheckpoint accepts it under a live lease of token t.
Accepts(t) ==
    /\ HoldsLease(t)
    /\ ~ leaseExpired(snapshot.lease)
    /\ NextSequence = snapshot.latest + 1

TrimmedFirst(checkpoints) ==
    IF Len(checkpoints) > RingSize THEN SubSeq(checkpoints, 1, RingSize) ELSE checkpoints

Trimmed(checkpoints) ==
    IF Len(checkpoints) > RingSize
    THEN SubSeq(checkpoints, Len(checkpoints) - RingSize + 1, Len(checkpoints))
    ELSE checkpoints

WritesRing(t) ==
    /\ Accepts(t)
    /\ NextSequence <= MaxSeq
    /\ ring' = Trimmed(Append(ring, [sequence |-> NextSequence, by |-> t]))

appendCheckpoint(t) ==
    /\ WritesRing(t)
    /\ snapshot' = [snapshot EXCEPT !.latest = NextSequence]
    /\ UNCHANGED <<made, dead>>

\* The process dies between the two files of an append.
DiesAppending(t) == WritesRing(t) /\ UNCHANGED <<snapshot, made>>

\* A refused append clears a lease that has run out.
appendRefused(t) ==
    /\ ~ Accepts(t)
    /\ snapshot' = IF HoldsLease(t) /\ leaseExpired(snapshot.lease) THEN Unleased ELSE snapshot
    /\ UNCHANGED <<ring, made, dead>>

finalize ==
    /\ snapshot # Absent
    /\ snapshot' = [Unleased EXCEPT !.status = "completed"]
    /\ UNCHANGED <<ring, made, dead>>

\* Each file is removed if its unlink works; one that fails is swallowed, and the
\* file stays with what is in it.
destroy ==
    /\ snapshot' \in {Absent, snapshot}
    /\ ring' \in {<<>>, ring}
    /\ UNCHANGED <<made, dead>>

DiesDestroying ==
    /\ snapshot' = Absent
    /\ UNCHANGED <<ring, made>>

=============================================================================
