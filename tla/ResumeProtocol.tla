--------------------------- MODULE ResumeProtocol ---------------------------
(***************************************************************************)
(* Processes that resume a session, keep its lease and add checkpoints     *)
(* (runtime/src/sessions/session-store/resume.ts), over the file-system    *)
(* store.  performResume takes the lease, rehydrates the budget, replays   *)
(* events, and only then starts the heartbeat that renews the lease; each  *)
(* of these may fail, and nobody gives the lease back then.  The heartbeat *)
(* ignores whether a renewal worked.                                       *)
(*                                                                         *)
(* The caller of performResume is not in the repository: that a turn adds  *)
(* checkpoints the way the checkpoint sink does, and in the end stops the  *)
(* heartbeat and releases, finalizes or destroys, is how the port says it  *)
(* is to be used.                                                          *)
(***************************************************************************)
EXTENDS FsSessionStore

CONSTANTS
    Ttl,         \* leaseTtlMs, in ticks
    MinBeat, MaxBeat,  \* the clamp of the heartbeat's interval
    FencedEnd,   \* TRUE: only a process that still holds the lease ends the session
    MaxCrashes   \* bound: how often processes die

ASSUME BeatAssumption ==
    /\ Ttl \in Nat \ {0} /\ MaxCrashes \in Nat /\ FencedEnd \in BOOLEAN
    /\ MinBeat \in Nat \ {0} /\ MaxBeat \in Nat /\ MinBeat <= MaxBeat

VARIABLES
    phase,       \* where each process stands in performResume
    handle,      \* the fencing token it works with, 0 for none
    told,        \* ticks until the expiry it was last told
    timer,       \* the heartbeat's interval timer: the token it renews, ticks to go
    late,        \* the turn began with a third of the lease left, or less
    crashes

vars == <<snapshot, ring, made, dead, phase, handle, told, timer, late, crashes>>
workerVars == <<phase, handle, told, timer, late, crashes>>

NoTimer == [token |-> 0, wait |-> 0]

TypeOK ==
    /\ StoreTypeOK
    /\ phase \in [Process -> {"idle", "setup", "turn"}]
    /\ handle \in [Process -> 0 .. made]
    /\ told \in [Process -> 0 .. Ttl]
    /\ timer \in [Process -> [token : 0 .. made, wait : Nat]]
    /\ late \in [Process -> BOOLEAN]
    /\ crashes \in 0 .. MaxCrashes

Init ==
    /\ StoreInit
    /\ phase = [p \in Process |-> "idle"]
    /\ handle = [p \in Process |-> 0]
    /\ told = [p \in Process |-> 0]
    /\ timer = [p \in Process |-> NoTimer]
    /\ late = [p \in Process |-> FALSE]
    /\ crashes = 0

\* heartbeatMs: a third of the lease, within bounds.
Clamped(ms) == IF ms < MinBeat THEN MinBeat ELSE IF ms > MaxBeat THEN MaxBeat ELSE ms

IntervalIsTtl == Ttl

Interval == Clamped(Ttl \div 3)

-----------------------------------------------------------------------------

Create(p) ==
    /\ phase[p] = "idle"
    /\ create
    /\ UNCHANGED workerVars

\* store.resume, answered with token t and an expiry in `left' ticks.
Resumed(p, t, left) ==
    /\ phase[p] = "idle"
    /\ phase' = [phase EXCEPT ![p] = "setup"]
    /\ handle' = [handle EXCEPT ![p] = t]
    /\ told' = [told EXCEPT ![p] = left]
    /\ UNCHANGED <<timer, late, crashes>>

Acquire(p) == acquire(p, Ttl) /\ Resumed(p, made + 1, Ttl)

Refetch(p) == refetch(p) /\ Resumed(p, snapshot.lease.token, snapshot.lease.left)

TimerFor(t) == [token |-> t, wait |-> Interval]

FailsAfterBeat(p) ==
    /\ phase[p] = "setup"
    /\ phase' = [phase EXCEPT ![p] = "idle"]
    /\ handle' = [handle EXCEPT ![p] = 0]
    /\ told' = [told EXCEPT ![p] = 0]
    /\ timer' = [timer EXCEPT ![p] = TimerFor(handle[p])]
    /\ UNCHANGED <<snapshot, ring, made, dead, late, crashes>>

\* The budget or the replay throws: the caller gets the error and no handle.
SetupFails(p) ==
    /\ phase[p] = "setup"
    /\ phase' = [phase EXCEPT ![p] = "idle"]
    /\ handle' = [handle EXCEPT ![p] = 0]
    /\ told' = [told EXCEPT ![p] = 0]
    /\ UNCHANGED <<snapshot, ring, made, dead, timer, late, crashes>>

\* Budget and replay are done, however long they took: the heartbeat starts.
SetupDone(p) ==
    /\ phase[p] = "setup"
    /\ phase' = [phase EXCEPT ![p] = "turn"]
    /\ timer' = [timer EXCEPT ![p] = TimerFor(handle[p])]
    /\ late' = [late EXCEPT ![p] = 3 * told[p] <= Ttl]
    /\ UNCHANGED <<snapshot, ring, made, dead, handle, told, crashes>>

\* The interval timer calls renewLease and swallows its failure.
Beat(p) ==
    /\ timer[p].token # 0
    /\ timer[p].wait = 0
    /\ renewLease(timer[p].token, Ttl)
    /\ timer' = [timer EXCEPT ![p] = TimerFor(@.token)]
    /\ told' = IF HoldsLease(timer[p].token) /\ ~ leaseExpired(snapshot.lease)
               THEN [told EXCEPT ![p] = Ttl] ELSE told
    /\ UNCHANGED <<phase, handle, late, crashes>>

\* A checkpoint of the turn.
AddCheckpoint(p) ==
    /\ phase[p] = "turn"
    /\ appendCheckpoint(handle[p]) \/ appendRefused(handle[p])
    /\ UNCHANGED workerVars

Stopped(p) ==
    /\ phase[p] = "turn"
    /\ phase' = [phase EXCEPT ![p] = "idle"]
    /\ handle' = [handle EXCEPT ![p] = 0]
    /\ told' = [told EXCEPT ![p] = 0]
    /\ timer' = [timer EXCEPT ![p] = NoTimer]
    /\ late' = [late EXCEPT ![p] = FALSE]

\* The turn is over: heartbeat.stop, then the lease is given back, or the
\* session is marked, or it is removed.  finalize and destroy take no token.
Release(p) == Stopped(p) /\ releaseLease(handle[p]) /\ UNCHANGED crashes

MayEnd(p) == FencedEnd => HoldsLease(handle[p])

Finalize(p) == Stopped(p) /\ MayEnd(p) /\ finalize /\ UNCHANGED crashes

Destroy(p) == Stopped(p) /\ MayEnd(p) /\ destroy /\ UNCHANGED crashes

-----------------------------------------------------------------------------

\* The process is gone, with its timer; its pid is free.  It starts again.
Dies(p) ==
    /\ crashes < MaxCrashes
    /\ crashes' = crashes + 1
    /\ phase' = [phase EXCEPT ![p] = "idle"]
    /\ handle' = [handle EXCEPT ![p] = 0]
    /\ told' = [told EXCEPT ![p] = 0]
    /\ timer' = [timer EXCEPT ![p] = NoTimer]
    /\ late' = [late EXCEPT ![p] = FALSE]

\* The leases that hold p's pid: those it acquired.
PidOf(p) ==
    IF snapshot # Absent /\ snapshot.lease # NoLease /\ snapshot.lease.worker = p
    THEN {snapshot.lease.token} ELSE {}

Crash(p) ==
    /\ Dies(p)
    /\ dead' = dead \cup PidOf(p)
    /\ UNCHANGED <<snapshot, ring, made>>

\* It dies in the middle of one of its calls.
CutShort(p, what) ==
    /\ Dies(p)
    /\ dead' = dead \cup PidOf(p)
    /\ \/ what = "append" /\ phase[p] = "turn" /\ DiesAppending(handle[p])
       \/ what = "destroy" /\ phase[p] = "turn" /\ MayEnd(p) /\ DiesDestroying
       \/ what = "create" /\ phase[p] = "idle" /\ DiesCreating

Less(n) == IF n = 0 THEN 0 ELSE n - 1

\* Time passes; no due timer is passed over.
Tick ==
    /\ \A p \in Process : timer[p].token # 0 => timer[p].wait > 0
    /\ snapshot' = IF snapshot # Absent /\ snapshot.lease # NoLease
                   THEN [snapshot EXCEPT !.lease.left = Less(@)] ELSE snapshot
    /\ told' = [p \in Process |-> Less(told[p])]
    /\ timer' = [p \in Process |-> [timer[p] EXCEPT !.wait = Less(@)]]
    /\ UNCHANGED <<ring, made, dead, phase, handle, late, crashes>>

Next ==
    \/ \E p \in Process :
         \/ Create(p) \/ Acquire(p) \/ Refetch(p) \/ SetupFails(p) \/ SetupDone(p)
         \/ Beat(p) \/ AddCheckpoint(p) \/ Release(p) \/ Finalize(p) \/ Destroy(p)
         \/ Crash(p) \/ \E what \in {"create", "append", "destroy"} : CutShort(p, what)
    \/ Tick

Spec == Init /\ [][Next]_vars

\* Time passes and interval timers fire.
FairSpec == Spec /\ WF_vars(Tick) /\ \A p \in Process : WF_vars(Beat(p))

-----------------------------------------------------------------------------

\* A turn that began in time owns its session to the end: the heartbeat of a
\* process that is alive keeps the lease from running out, and nobody else takes
\* or ends it (resume.ts step 5, contract I-2).
TurnKeepsLease ==
    \A p \in Process : (phase[p] = "turn" /\ ~ late[p]) =>
        HoldsLease(handle[p]) /\ ~ leaseExpired(snapshot.lease)

\* Fencing (contract I-3) survives crashes and reclaimed pids: the authors of the
\* checkpoints in the file come in the order of their tokens, and none is newer
\* than the lease.
FencingOrder ==
    /\ \A i, j \in 1 .. Len(ring) : i <= j => ring[i].by <= ring[j].by
    /\ snapshot # Absent /\ snapshot.lease # NoLease =>
         \A i \in 1 .. Len(ring) : ring[i].by <= snapshot.lease.token

\* Next to the newest acknowledged checkpoint, what a resume hands out is an older
\* one or none, or is further ahead than the one checkpoint that is not acknowledged
\* yet.
Strays ==
    /\ snapshot # Absent
    /\ NextSequence \notin {snapshot.latest + 1, snapshot.latest + 2}

\* A session begins, or is removed, and only one of its two files follows.
HalfCreated == snapshot = Absent /\ snapshot' # Absent /\ ring # <<>> /\ ring' = ring

HalfDestroyed == snapshot' = snapshot /\ ring # <<>> /\ ring' = <<>>

\* What resume hands out is the newest acknowledged checkpoint, or the one after it
\* when a death cut an append short: never an older one, however full the ring and
\* whoever took the session over.  Only a create or a destroy that got half-way can
\* leave a session for which this fails.
NeverOlder == [][ Strays' => (Strays \/ HalfCreated \/ HalfDestroyed) ]_vars

\* The lease of the session names a token nobody works with: its process died, or
\* failed in performResume.
Orphaned ==
    /\ snapshot # Absent
    /\ snapshot.lease # NoLease
    /\ \A p \in Process : handle[p] # snapshot.lease.token

\* A lease that nobody gave back runs out, so that the session can be resumed.
OrphanLapses == Orphaned ~> (~ Orphaned \/ leaseExpired(snapshot.lease))

\* The session takes further checkpoints from the process that holds it, whatever
\* crashed before.
AppendsGoOn == snapshot # Absent => NextSequence = snapshot.latest + 1

\* What the contract sees of the session.
Owner == IF snapshot # Absent /\ snapshot.lease # NoLease THEN snapshot.lease.token ELSE 0

Trusting == {handle[p] : p \in {q \in Process : told[q] > 0}}

Newest ==
    IF snapshot = Absent \/ snapshot.latest = 0 \/ ring = <<>> THEN [sequence |-> 0, by |-> 0]
    ELSE ring[CHOOSE i \in 1 .. Len(ring) : ring[i].sequence = snapshot.latest]

Contract == INSTANCE SessionLease WITH
    Session <- {"session"},
    TokenId <- 1 .. MaxTokens,
    owner <- [s \in {"session"} |-> Owner],
    issued <- [s \in {"session"} |-> made],
    trusting <- [s \in {"session"} |-> Trusting],
    head <- [s \in {"session"} |-> Newest]

\* The file-system store, driven by the resume protocol, keeps the lease contract,
\* crashes between its two files included.
ImplementsContract == Contract!LeaseSpec

-----------------------------------------------------------------------------
(* what the proofs rest on *)

\* The lease in the file is of a token that was made.
LeaseSound ==
    snapshot # Absent /\ snapshot.lease # NoLease =>
        snapshot.lease.token \in 1 .. made /\ snapshot.lease.left \in 0 .. Ttl

\* Who has no handle has been told nothing.  A lease names the process that works
\* with its token, and lasts as long as that process was told.
HandlesMatch ==
    \A p \in Process :
        /\ handle[p] = 0 <=> phase[p] = "idle"
        /\ phase[p] = "idle" => told[p] = 0
        /\ timer[p].token # 0 => phase[p] = "turn" /\ timer[p].token = handle[p]
        /\ HoldsLease(handle[p]) =>
             snapshot.lease.worker = p /\ snapshot.lease.left = told[p] /\ handle[p] \notin dead

\* A process that was told of a lease has it.
ToldIsTrue == \A p \in Process : told[p] > 0 => HoldsLease(handle[p])

LeaseInv == TypeOK /\ LeaseSound /\ HandlesMatch /\ ToldIsTrue

\* The heartbeat of a turn that began in time comes before the lease runs out.
BeatInTime ==
    \A p \in Process : (phase[p] = "turn" /\ ~ late[p]) =>
        timer[p].token = handle[p] /\ told[p] > timer[p].wait

\* The file holds checkpoints in the order of their sequences.
RingInOrder == \A i, j \in 1 .. Len(ring) : i < j => ring[i].sequence < ring[j].sequence

\* The acknowledged checkpoint is the last of them, or the last but one, unless they
\* were removed.
LatestInRing ==
    (snapshot # Absent /\ snapshot.latest # 0 /\ ring # <<>>) =>
        \E i \in 1 .. Len(ring) : ring[i].sequence = snapshot.latest /\ i + 1 >= Len(ring)

IInv == LeaseInv /\ BeatInTime /\ RingInOrder /\ LatestInRing

=============================================================================
