---------------------------- MODULE SessionPool ----------------------------
(***************************************************************************)
(* The pool of agent sessions (runtime/src/sessions/pool.ts) and the print *)
(* sessions in it (print-session.ts): creation with capacity and the       *)
(* budget of a chain, prompts in turn, kill, time limits, removal of the   *)
(* dead.                                                                   *)
(*                                                                         *)
(* create checks everything before it waits (for spawn_delay_ms or for the *)
(* provider) and registers the session after; a create that waits for      *)
(* nothing is the two steps with nothing in between.  A session keeps no   *)
(* process between prompts: it runs while a prompt is being answered, and  *)
(* a kill does not end that.                                               *)
(*                                                                         *)
(* Left out: nicknames, worktrees, diagnostics, cognitive sessions, the    *)
(* stale flag, which is only shown, and the depth check, which trusts the  *)
(* depth its caller states.                                                *)
(***************************************************************************)
EXTENDS Integers, FiniteSets

CONSTANTS
    Id,          \* session ids
    MaxSessions, \* maxSessions of the pool
    MaxAgents,   \* max_agents of every chain's budget
    KillAfter,   \* kill_timeout_ms, in ticks
    Ttl,         \* deadSessionTtlMs, in ticks
    MaxWaiting,  \* bound: prompts that wait in a session's queue
    Absent

ASSUME PoolAssumption ==
    /\ IsFiniteSet(Id) /\ Absent \notin Id
    /\ MaxSessions \in Nat /\ MaxAgents \in Nat /\ MaxWaiting \in Nat
    /\ KillAfter \in Nat /\ Ttl \in Nat

VARIABLES
    sessions,    \* the pool's maps, one record per session
    opening,     \* creates that have passed their checks and wait
    broken       \* not kept by the code: roots of chains that are not whole

poolVars == <<sessions, opening, broken>>

Idle == IF KillAfter > Ttl THEN KillAfter ELSE Ttl + 1   \* ticks beyond which nothing changes

Session == [status : {"ready", "working", "dead"}, runs : BOOLEAN, waiting : 0 .. MaxWaiting,
            since : 0 .. Idle, watched : BOOLEAN,
            parent : Id \union {Absent}, spawned : 0 .. MaxAgents, origin : Id]
Opening == [watched : BOOLEAN, parent : Id \union {Absent}, spawned : 0 .. MaxAgents,
            origin : Id, crossed : BOOLEAN]

ASSUME AbsenceAssumption == Absent \notin Session \union Opening

PoolTypeOK ==
    /\ sessions \in [Id -> Session \union {Absent}]
    /\ opening \in [Id -> Opening \union {Absent}]
    /\ broken \subseteq Id

PoolInit ==
    /\ sessions = [id \in Id |-> Absent]
    /\ opening = [id \in Id |-> Absent]
    /\ broken = {}

Present(x) == x \in Id /\ sessions[x] # Absent
Live == {id \in Id : Present(id) /\ sessions[id].status # "dead"}
Dead == {id \in Id : Present(id) /\ sessions[id].status = "dead"}

-----------------------------------------------------------------------------
(* create *)

\* getRootBudget: up the chain as far as the pool knows the parents.
Root(id) ==
    LET up[n \in 0 .. Cardinality(Id)] ==
            IF n = 0 THEN id
            ELSE IF Present(sessions[up[n - 1]].parent) THEN sessions[up[n - 1]].parent ELSE up[n - 1]
    IN  up[Cardinality(Id)]

\* The session whose record holds the budget that counts for an agent of parent.
BudgetHolder(parent) == IF Present(Root(parent)) THEN Root(parent) ELSE parent

RoomForOneMore == Cardinality(Live) <= MaxSessions

HasRoom == Cardinality(Live) < MaxSessions

BudgetLeft(parent) == Present(parent) => sessions[BudgetHolder(parent)].spawned < MaxAgents

CountedLater(parent) == sessions

\* The new agent counts in the budget of its chain before anything is awaited.
Counted(parent) ==
    IF Present(parent) THEN [sessions EXCEPT ![BudgetHolder(parent)].spawned = @ + 1] ELSE sessions

\* The checks and the budget, up to the first await; the agent takes a copy of the count.
Begin(id, parent, watched) ==
    /\ opening[id] = Absent
    /\ HasRoom
    /\ BudgetLeft(parent)
    /\ sessions' = Counted(parent)
    /\ opening' = [opening EXCEPT ![id] =
         [watched |-> watched, parent |-> parent, crossed |-> FALSE,
          spawned |-> IF Present(parent) THEN sessions'[BudgetHolder(parent)].spawned ELSE 0,
          origin |-> IF Present(parent) THEN sessions[parent].origin ELSE id]]
    /\ UNCHANGED broken

\* The provider cannot be made: create throws.  What the budget has counted stays counted.
OpenFails(id) ==
    /\ opening[id] # Absent
    /\ opening' = [opening EXCEPT ![id] = Absent]
    /\ UNCHANGED <<sessions, broken>>

NewSession(o) ==
    [status |-> "ready", runs |-> FALSE, waiting |-> 0, since |-> 0, watched |-> o.watched,
     parent |-> o.parent, spawned |-> o.spawned, origin |-> o.origin]

\* Every create under way has checked a pool that changes now.
Crossed(open) ==
    [id \in Id |-> IF open[id] = Absent THEN Absent ELSE [open[id] EXCEPT !.crossed = TRUE]]

\* The agents that a chain has, and those on their way.
Family(r) ==
    {x \in Id \ {r} : \/ Present(x) /\ sessions[x].origin = r
                      \/ opening[x] # Absent /\ opening[x].origin = r}

\* The chains that lose a member with these sessions.
Cut(ids) ==
    {r \in Id : /\ \E id \in ids : Present(id) /\ sessions[id].origin = r
                /\ Family(r) # {}}

\* The roots that have a parent in the pool after all: the agents that count in
\* its budget from now on are of their chain as well.
Joined(pool, open) ==
    {r \in Id : \E s \in {pool[r], open[r]} \ {Absent} :
                   s.origin = r /\ s.parent \in Id /\ pool[s.parent] # Absent}

\* After the await the session enters the maps.  An initial prompt is a prompt right after.
Register(id) ==
    /\ opening[id] # Absent
    /\ LET o == opening[id] IN
       /\ sessions' = [sessions EXCEPT ![id] = NewSession(o)]
       /\ opening' = Crossed([opening EXCEPT ![id] = Absent])
    /\ broken' = broken \union Cut({id}) \union Joined(sessions', opening')

-----------------------------------------------------------------------------
(* prompts: one at a time per session, in a queue of its own *)

Starts(s) == [s EXCEPT !.status = "working", !.runs = TRUE, !.since = 0]

Prompted(s) == IF s.runs THEN [s EXCEPT !.waiting = @ + 1] ELSE Starts(s)

Prompt(id) ==
    /\ id \in Live
    /\ sessions[id].runs => sessions[id].waiting < MaxWaiting
    /\ sessions' = [sessions EXCEPT ![id] = Prompted(@)]
    /\ UNCHANGED <<opening, broken>>

\* What waited is refused when the session has died meanwhile.
Ended(s) ==
    IF s.status = "dead" THEN [s EXCEPT !.runs = FALSE, !.waiting = 0, !.since = 0]
    ELSE IF s.waiting > 0 THEN [Starts(s) EXCEPT !.waiting = @ - 1]
    ELSE [s EXCEPT !.runs = FALSE, !.status = "ready", !.since = 0]

RunEnds(id) ==
    /\ Present(id) /\ sessions[id].runs
    /\ sessions' = [sessions EXCEPT ![id] = Ended(@)]
    /\ UNCHANGED <<opening, broken>>

-----------------------------------------------------------------------------
(* the ends of sessions *)

Killed(s) == [s EXCEPT !.status = "dead"]

Kill(ids) ==
    /\ sessions' = [id \in Id |-> IF id \in ids THEN Killed(sessions[id]) ELSE sessions[id]]
    /\ UNCHANGED <<opening, broken>>

\* Inactive for too long: killed, also in the middle of a prompt.
Checked(s) ==
    IF s # Absent /\ s.status # "dead" /\ s.watched /\ s.since >= KillAfter THEN Killed(s) ELSE s

checkStale ==
    /\ sessions' = [id \in Id |-> Checked(sessions[id])]
    /\ UNCHANGED <<opening, broken>>

\* The time of death is not kept: lastActivityAt stands for it.
Removable == {id \in Dead : sessions[id].since > Ttl}

removeDead ==
    /\ Removable # {}
    /\ sessions' = [id \in Id |-> IF id \in Removable THEN Absent ELSE sessions[id]]
    /\ broken' = broken \union Cut(Removable)
    /\ UNCHANGED opening

\* restoreSession: no time limit, a fresh budget.
Restored(snap, id) ==
    [status |-> "ready", runs |-> FALSE, waiting |-> 0, since |-> 0, watched |-> FALSE,
     parent |-> snap.parent, spawned |-> 0, origin |-> id]

restore(ids, snaps) ==
    /\ sessions' = [id \in Id |-> IF id \in ids THEN Restored(snaps[id], id) ELSE sessions[id]]
    /\ opening' = IF ids = {} THEN opening ELSE Crossed(opening)
    /\ broken' = broken \union Joined(sessions', opening')

Tick ==
    /\ \E id \in Id : Present(id) /\ sessions[id].since < Idle
    /\ sessions' = [id \in Id |-> IF Present(id) /\ sessions[id].since < Idle
                                  THEN [sessions[id] EXCEPT !.since = @ + 1]
                                  ELSE sessions[id]]
    /\ UNCHANGED <<opening, broken>>

\* The process ends: its maps are gone.
lose ==
    /\ sessions' = [id \in Id |-> Absent]
    /\ opening' = [id \in Id |-> Absent]
    /\ broken' = {}

-----------------------------------------------------------------------------

(* The pool enforces a maximum number of sessions that are not dead,       *)
(* though create counts before it waits: a create takes the pool beyond    *)
(* maxSessions only if another session came in behind its check.           *)
CapUnlessCrossed ==
    [][\A id \in Id :
         opening[id] # Absent /\ ~opening[id].crossed /\ opening'[id] = Absent
             => Cardinality(Live') <= MaxSessions \/ Live' = Live]_poolVars

(* The same without exceptions: what the header of createPool says.        *)
CapacityKept == Cardinality(Live) <= MaxSessions

(* The budget of a chain counts every agent of it before it is there, in   *)
(* whatever order creates begin, fail and register; so, while the chain    *)
(* is whole, it has never more agents than max_agents.  A chain is not     *)
(* whole when it has lost a member, or has been joined to another by a     *)
(* parent that came in, resumed or restored, behind its child.             *)
ChainBudget ==
    \A r \in Id : Present(r) /\ sessions[r].origin = r /\ r \notin broken =>
        Cardinality(Family(r)) <= sessions[r].spawned

(* The same also for chains that are not whole.                            *)
WholeBudget ==
    \A r \in Id : Present(r) /\ sessions[r].origin = r =>
        Cardinality(Family(r)) <= sessions[r].spawned
=============================================================================
