-------------------------- MODULE SessionRecovery --------------------------
(***************************************************************************)
(* The bridge around its session pool: events of the pool make the         *)
(* checkpoint sink (runtime/src/event-bus/session-checkpoint-sink.ts) save *)
(* a session after a debounce, the persistence store                       *)
(* (bridge/src/domains/sessions/session-persistence.ts) writes its index   *)
(* after another, and a bridge that starts puts back into its pool what    *)
(* the index holds (bridge/src/startup-recovery.ts).  Timers of the bridge *)
(* (server-entry.ts) look for stale and dead sessions; a stop kills every  *)
(* session and leaves both debounces the time to end (200 ms each, exit    *)
(* after 500); a crash leaves the file as it is.                           *)
(*                                                                         *)
(* A kill does not end the claude process that answers a prompt, and such  *)
(* a process may outlive its bridge.  Native discovery (external: the pid  *)
(* files of claude) tells the recovery which sessions have a live one; it  *)
(* restores those whatever the index says of them.                         *)
(***************************************************************************)
EXTENDS SessionPool

CONSTANTS
    Parents,     \* bound: sessions that spawn others
    Resumable,   \* bound: sessions somebody resumes
    Persistent,  \* sessions spawned without a time limit
    MaxBoots     \* bound: restarts

ASSUME RecoveryAssumption ==
    /\ Parents \subseteq Id /\ Resumable \subseteq Id /\ Persistent \subseteq Id /\ MaxBoots \in Nat

VARIABLES
    phase,       \* of the bridge
    timers,      \* pendingTimers of the checkpoint sink
    index,       \* the persistence store's map of sessions
    flush,       \* its debounced write: nothing to write, due, or failed
    disk,        \* session-index.jsonl
    boots,
    native,      \* the sessions that the recovery restored because of a live process
    ended        \* not kept by the code: the sessions killed by a request or a stop of
                 \* which the file has, or will have, word

bridgeVars == <<phase, timers, index, flush, disk, boots, native, ended>>
vars == <<poolVars, bridgeVars>>

Record == [live : BOOLEAN, parent : Id \union {Absent}]

TypeOK ==
    /\ PoolTypeOK
    /\ phase \in {"starting", "up", "stopping", "down"}
    /\ timers \subseteq Id
    /\ index \in [Id -> Record \union {Absent}] /\ disk \in [Id -> Record \union {Absent}]
    /\ flush \in {"clean", "due", "failed"}
    /\ boots \in 0 .. MaxBoots
    /\ native \subseteq Id /\ ended \subseteq Id

ASSUME RecordAssumption == Absent \notin Record

Init ==
    /\ PoolInit
    /\ phase = "starting"
    /\ timers = {}
    /\ index = [id \in Id |-> Absent]
    /\ flush = "clean"
    /\ disk = [id \in Id |-> Absent]
    /\ boots = 0
    /\ native = {}
    /\ ended = {}

-----------------------------------------------------------------------------
(* what the routes and timers of the bridge do, with the events they emit *)

\* Requests are served before the recovery has run.
Serving == phase \in {"starting", "up"}

\* onEvent of the sink: the debounce of these sessions begins anew.
Notified(ids) == timers' = timers \union ids

Quiet == UNCHANGED bridgeVars

\* The ids that somebody names as a parent.
Named ==
    {sessions[x].parent : x \in {y \in Id : sessions[y] # Absent}}
        \union {opening[x].parent : x \in {y \in Id : opening[y] # Absent}}
        \union {index[x].parent : x \in {y \in Id : index[y] # Absent}}
        \union {disk[x].parent : x \in {y \in Id : disk[y] # Absent}}

\* POST /sessions: a session of an id that is drawn for it, which nobody knows yet,
\* perhaps of a parent.
Spawn(id, parent) ==
    /\ Serving
    /\ sessions[id] = Absent /\ index[id] = Absent /\ disk[id] = Absent /\ id \notin ended
    /\ id # parent /\ id \notin Named
    /\ Begin(id, parent, id \notin Persistent)
    /\ Quiet

\* POST /sessions/history/:id/resume: a session the index knows, whatever has become of it.
Resume(id) ==
    /\ Serving
    /\ id \in Resumable
    /\ index[id] # Absent
    /\ Begin(id, Absent, TRUE)
    /\ Quiet

SpawnFails(id) == Serving /\ OpenFails(id) /\ Quiet

Spawned(id) ==
    /\ Serving
    /\ Register(id)
    /\ Notified({id})
    /\ ended' = ended \ {id}
    /\ UNCHANGED <<phase, index, flush, disk, boots, native>>

PromptRequest(id) == Serving /\ Prompt(id) /\ Quiet

\* The route emits session.prompt.completed; an initial prompt has no route.
PromptEnds(id, asked) ==
    /\ RunEnds(id)
    /\ Notified(IF asked THEN {id} ELSE {})
    /\ UNCHANGED <<phase, index, flush, disk, boots, native, ended>>

KillRequest(id) ==
    /\ Serving
    /\ Present(id)
    /\ Kill({id})
    /\ Notified({id})
    /\ ended' = ended \union {id}
    /\ UNCHANGED <<phase, index, flush, disk, boots, native>>

\* session.stale is no event the sink listens to.
StaleCheck == phase = "up" /\ checkStale /\ Quiet

\* A killed session may be gone before its debounce has ended: its death is not saved.
Cleanup ==
    /\ phase = "up"
    /\ removeDead
    /\ ended' = ended \ {id \in timers : Present(id) /\ ~Present(id)'}
    /\ UNCHANGED <<phase, timers, index, flush, disk, boots, native>>

Passes == Tick /\ Quiet

-----------------------------------------------------------------------------
(* the checkpoint sink and the persistence store *)

RecordOf(id) == [live |-> sessions[id].status # "dead", parent |-> sessions[id].parent]

CheckpointAlive(id) ==
    /\ id \in timers
    /\ timers' = timers \ {id}
    /\ index' = IF id \in Live THEN [index EXCEPT ![id] = RecordOf(id)] ELSE index
    /\ flush' = IF id \in Live THEN "due" ELSE flush
    /\ UNCHANGED <<poolVars, phase, disk, boots, native, ended>>

\* A debounce ends: poolList, and save of what is found.
Checkpoint(id) ==
    /\ id \in timers
    /\ timers' = timers \ {id}
    /\ index' = IF Present(id) THEN [index EXCEPT ![id] = RecordOf(id)] ELSE index
    /\ flush' = IF Present(id) THEN "due" ELSE flush
    /\ UNCHANGED <<poolVars, phase, disk, boots, native, ended>>

\* The store's timer: the whole index goes to a temporary file and is renamed.
flushToDisk ==
    /\ flush = "due"
    /\ flush' = "clean"
    /\ disk' = index
    /\ UNCHANGED <<poolVars, phase, timers, index, boots, native, ended>>

\* The write fails and is logged; the next save makes the store try again.
FlushFails ==
    /\ flush = "due"
    /\ flush' = "failed"
    /\ UNCHANGED <<poolVars, phase, timers, index, disk, boots, native, ended>>

-----------------------------------------------------------------------------
(* stop, crash, start *)

\* gracefulShutdown, once no request is open: kills all that live.  A run left now
\* is that of an initial prompt.
Stop ==
    /\ phase = "up"
    /\ \A id \in Id : opening[id] = Absent
    /\ phase' = "stopping"
    /\ Kill(Live)
    /\ Notified(Live)
    /\ ended' = ended \union Live
    /\ UNCHANGED <<index, flush, disk, boots, native>>

\* What was not written when the process ended, its successor cannot know.
Known == IF flush = "clean" THEN {id \in ended : id \in timers => ~Present(id)} ELSE {}

Unread == [id \in Id |-> Absent]

\* The maps and the timers are gone.
Gone ==
    /\ lose
    /\ phase' = "down"
    /\ timers' = {}
    /\ index' = Unread
    /\ flush' = "clean"
    /\ native' = {}
    /\ ended' = Known
    /\ UNCHANGED <<disk, boots>>

Exit == phase = "stopping" /\ timers = {} /\ flush # "due" /\ Gone

Crash == phase # "down" /\ boots < MaxBoots /\ Gone

\* The next process reads the file, once, and goes on without if it cannot.  The
\* events it replays from the log start debounces of sessions they are about; that
\* of a session without a record finds nothing.
Boot ==
    /\ phase = "down"
    /\ boots < MaxBoots
    /\ phase' = "starting"
    /\ boots' = boots + 1
    /\ index' \in {disk, Unread}
    /\ timers' \in SUBSET {id \in Id : index'[id] # Absent}
    /\ UNCHANGED <<poolVars, flush, disk, native, ended>>

RecoverableAnyway(found) == {id \in Id : index[id] # Absent}

Recoverable(found) == {id \in Id : index[id] # Absent /\ (index[id].live \/ id \in found)}

\* runStartupRecovery: restoreSession skips what the pool has.  Discovery, which may
\* fail, finds the live processes of some sessions.
Recover(found) ==
    /\ phase = "starting"
    /\ phase' = "up"
    /\ restore({id \in Recoverable(found) : ~Present(id)}, index)
    /\ native' = {id \in found : index[id] # Absent /\ ~Present(id)}
    /\ ended' = ended \ native'
    /\ UNCHANGED <<timers, index, flush, disk, boots>>

Next ==
    \/ \E id \in Id, p \in Parents \union {Absent} : Spawn(id, p)
    \/ \E id \in Id : Resume(id)
    \/ \E id \in Id : SpawnFails(id)
    \/ \E id \in Id : Spawned(id)
    \/ \E id \in Id : PromptRequest(id)
    \/ \E id \in Id, asked \in BOOLEAN : PromptEnds(id, asked)
    \/ \E id \in Id : KillRequest(id)
    \/ StaleCheck
    \/ Cleanup
    \/ Passes
    \/ \E id \in Id : Checkpoint(id)
    \/ flushToDisk
    \/ FlushFails
    \/ Stop
    \/ Exit
    \/ Crash
    \/ Boot
    \/ \E found \in SUBSET Id : Recover(found)

Spec == Init /\ [][Next]_vars

\* Timers fire, time passes, and a bridge that starts comes to its recovery; nothing
\* is assumed of agents and requests.
FairSpec ==
    /\ Spec
    /\ WF_vars(Passes) /\ WF_vars(StaleCheck) /\ WF_vars(Cleanup)
    /\ \A id \in Id : WF_vars(Checkpoint(id))
    /\ WF_vars(flushToDisk \/ FlushFails) /\ WF_vars(Exit)
    /\ WF_vars(\E found \in SUBSET Id : Recover(found))

-----------------------------------------------------------------------------

(* When the debounces of a session are over, the file holds it as the pool *)
(* has it, dead if it was killed: however its events, saves and flushes    *)
(* fell, whatever the checkpoint found under its id, and whether or not    *)
(* the process could read the file when it began.  Only a session that the *)
(* recovery brought back because of a live process may be dead in the file *)
(* and ready in the pool: restoreSession tells nobody.                     *)
QuietMeansSaved ==
    \A id \in Id : Present(id) /\ id \notin timers /\ flush = "clean" =>
        /\ disk[id] # Absent /\ disk[id].parent = sessions[id].parent
        /\ id \in Live => disk[id].live \/ id \in native
        /\ id \in ended => ~disk[id].live

(* A session that was killed comes back, in this process or after any      *)
(* restart, only if somebody resumes it, if discovery finds a process of   *)
(* it, or if its death did not get to the file: it was removed before its  *)
(* checkpoint, or the bridge ended before its debounces did or could not   *)
(* write.                                                                  *)
KilledStaysKilled == Live \intersect ended = {}

(* Automatic kills hit sessions nobody uses: none in the middle of a       *)
(* prompt.                                                                 *)
BusyIsActive ==
    [][\A id \in Live : StaleCheck /\ id \in Dead' => ~sessions[id].runs]_vars

(* At rest the file takes no session for live that is not: the code does   *)
(* not keep it, for a time limit's kill is not saved, and one on request   *)
(* is not when the session is removed before its checkpoint.               *)
NoGhosts ==
    phase = "up" /\ timers = {} /\ flush = "clean" =>
        \A id \in Id : disk[id] # Absent /\ disk[id].live => id \in Live

(* A session with a time limit leaves the pool, dead or replaced, unless   *)
(* requests for it never end.                                             *)
Busy(id) == PromptRequest(id) \/ KillRequest(id) \/ Spawned(id)
Reclaimed ==
    \A id \in Id :
        \/ []<><<Busy(id)>>_vars
        \/ (Present(id) /\ sessions[id].watched) ~> ~Present(id)

(* The pool does not stay full for ever without anybody using it.          *)
RoomAgain == []<>HasRoom \/ \E id \in Id : []<><<Busy(id)>>_vars

-----------------------------------------------------------------------------
(* what the proofs rest on *)

(* A create that nobody came in behind has room.                           *)
RoomIsLeft ==
    \A id \in Id : opening[id] # Absent /\ ~opening[id].crossed => HasRoom

(* With nothing to write, the file has what is in the index, which is      *)
(* empty if it could not be read.                                          *)
FileIsIndex ==
    flush = "clean" => \A id \in Id : index[id] # Absent => disk[id] = index[id]

(* Of a session whose debounce is over the index knows where it is from,   *)
(* and that it lives, unless it came back with its process.                *)
IndexKnows ==
    \A id \in Id : Present(id) /\ id \notin timers =>
        /\ index[id] # Absent /\ index[id].parent = sessions[id].parent
        /\ id \in Live => index[id].live \/ id \in native

(* A killed session waits, still there, for its checkpoint, or neither the *)
(* index nor, with nothing to write, the file takes it for live.           *)
NotLive(record) == record = Absent \/ ~record.live

KillIsKept ==
    \A id \in ended :
        \/ id \in timers /\ Present(id)
        \/ NotLive(index[id]) /\ (flush = "clean" => NotLive(disk[id]))

(* Without a process there are no sessions and nothing is left to write;   *)
(* and none has come back with its process before the recovery has run.    *)
DownIsEmpty ==
    /\ phase = "down" => flush = "clean" /\ \A id \in Id : ~Present(id)
    /\ phase \in {"starting", "down"} => native = {}

IInv ==
    /\ TypeOK
    /\ DownIsEmpty
    /\ RoomIsLeft
    /\ FileIsIndex
    /\ IndexKnows
    /\ KillIsKept
    /\ KilledStaysKilled

(* In a chain that is whole a session has a parent in the pool, of the     *)
(* same chain, but for the root, whose parent is not there; and so it will *)
(* be with one that is on its way.                                         *)
InChain(x, s) ==
    s.origin \in broken \/ IF s.origin = x THEN ~Present(s.parent)
                           ELSE Present(s.parent) /\ sessions[s.parent].origin = s.origin

Linked ==
    \A x \in Id : /\ Present(x) => InChain(x, sessions[x])
                  /\ opening[x] # Absent => InChain(x, opening[x])

(* A whole chain that has agents has its root.                             *)
RootThere == \A r \in Id \ broken : Family(r) # {} => Present(r) /\ sessions[r].origin = r

(* The parents of whole chains never lead in a circle.                     *)
Below(x) == Present(x) /\ sessions[x].origin \notin broken \union {x}

Grounded ==
    \A C \in SUBSET Id : C # {} => \E x \in C : Below(x) => sessions[x].parent \notin C

ChainInv ==
    /\ Linked
    /\ RootThere
    /\ Grounded
    /\ ChainBudget
=============================================================================
