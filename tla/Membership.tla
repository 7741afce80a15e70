----------------------------- MODULE Membership -----------------------------
(***************************************************************************)
(* The membership of a cluster of bridges (cluster/src/membership/         *)
(* membership.ts), with the way a bridge starts and stops it and takes its *)
(* messages in (bridge/src/domains/cluster/core.ts and routes.ts).         *)
(*                                                                         *)
(* Every node keeps a view of its peers: a status and the age of the last  *)
(* news, in ticks of the heartbeat period.  Three timers of a node ping    *)
(* the peers, sweep the view, and broadcast it.  A message is a request    *)
(* that reaches a running peer at once, or is lost.  All clocks agree.     *)
(*                                                                         *)
(* The bridge's route for a broadcast does not call the package's own      *)
(* mergeState but handleJoin for every node named: SyncByJoin.             *)
(***************************************************************************)
EXTENDS Naturals, FiniteSets

CONSTANTS
    Node,
    Found,         \* the nodes that discovery knows of
    SyncByJoin,    \* TRUE: as the bridge's route; FALSE: as the package
    SyncEvery,     \* heartbeat periods between two broadcasts
    SuspectAfter, DeadAfter, GcAfter,
    Lossy,         \* TRUE: messages to running nodes may be lost
    Boots,         \* bound: how often each node starts
    Stopping,      \* the nodes that may crash or leave
    Draining,      \* the nodes that an operator may drain and resume
    Unknown

ClusterParameters ==
    /\ IsFiniteSet(Node) /\ Found \subseteq Node
    /\ Stopping \subseteq Node /\ Draining \subseteq Node
    /\ {SyncByJoin, Lossy} \subseteq BOOLEAN
    /\ {SyncEvery, SuspectAfter, DeadAfter, GcAfter, Boots} \subseteq Nat \ {0}
    /\ Unknown \notin [status : {"alive", "suspect", "dead", "draining"}, age : Nat]

ASSUME MembershipAssumption == ClusterParameters

VARIABLES
    nodePhase, \* each node: down, up, or leaving
    status,    \* what a node says of itself
    peers,     \* the view of each node
    wait,      \* ticks until each timer of a node fires
    toTell,    \* peers that a leaving node has yet to tell
    heardOff,  \* nodes that were told that a node leaves, since it last started
    boots

clusterVars == <<nodePhase, status, peers, wait, toTell, heardOff, boots>>

Period == [ping |-> 1, sweep |-> 1, sync |-> SyncEvery]
Timer == DOMAIN Period
MaxAge == GcAfter + 1

Entry == [status : {"alive", "suspect", "dead", "draining"}, age : 0 .. MaxAge]

ClusterTypeOK ==
    /\ nodePhase \in [Node -> {"down", "up", "leaving"}]
    /\ status \in [Node -> {"alive", "draining"}]
    /\ peers \in [Node -> [Node -> Entry \cup {Unknown}]]
    /\ \A n \in Node : peers[n][n] = Unknown
    /\ \A n \in Node, t \in Timer : wait[n][t] \in 0 .. Period[t]
    /\ toTell \in [Node -> SUBSET Node]
    /\ heardOff \in [Node -> SUBSET Node]
    /\ boots \in [Node -> 0 .. Boots]

Nobody == [p \in Node |-> Unknown]

ClusterInit ==
    /\ nodePhase = [n \in Node |-> "down"]
    /\ status = [n \in Node |-> "alive"]
    /\ peers = [n \in Node |-> Nobody]
    /\ wait = [n \in Node |-> Period]
    /\ toTell = [n \in Node |-> {}]
    /\ heardOff = [n \in Node |-> {}]
    /\ boots = [n \in Node |-> 0]

-----------------------------------------------------------------------------
(* What a message does to a view. *)

RunningNode(n) == nodePhase[n] # "down"

Known(n) == {p \in Node : peers[n][p] # Unknown}

FreshEntry == [status |-> "alive", age |-> 0]

Joined(view, p) == [view EXCEPT ![p] = FreshEntry]

Left(view, p) == [view EXCEPT ![p] = Unknown]

\* A heartbeat brings a suspect back, a dead peer not.
Heartbeat(view, p) ==
    IF view[p] = Unknown THEN view
    ELSE [view EXCEPT ![p] = [status |-> IF @.status = "suspect" THEN "alive" ELSE @.status,
                              age |-> 0]]

AlwaysMerged(mine, theirs) == theirs

\* mergeState, for one node: the later news wins.
Merged(mine, theirs) ==
    IF mine = Unknown \/ theirs.age < mine.age THEN theirs ELSE mine

SyncedWithoutSender(m, n) ==
    [q \in Node |->
        IF q = m \/ q \notin Known(n) THEN peers[m][q]
        ELSE IF SyncByJoin THEN FreshEntry ELSE Merged(peers[m][q], peers[n][q])]

\* Node m takes in the broadcast of node n, whose news of itself is the latest.
\* Other news of one tick counts as simultaneous.
Synced(m, n) ==
    [q \in Node |->
        CASE q = m \/ q \notin Known(n) \cup {n} -> peers[m][q]
          [] q = n -> [status |-> IF SyncByJoin THEN "alive" ELSE status[n], age |-> 0]
          [] OTHER -> IF SyncByJoin THEN FreshEntry ELSE Merged(peers[m][q], peers[n][q])]

\* The running nodes among `to' that a message reaches.
Reached(to) ==
    LET there == {p \in to : RunningNode(p)} IN IF Lossy THEN SUBSET there ELSE {there}

WithStatus(n, statuses) == {p \in Known(n) : peers[n][p].status \in statuses}

-----------------------------------------------------------------------------
(* A node's life. *)

\* start: with an empty view, the node sends a join to those it discovers.
StartNode(n) ==
    /\ nodePhase[n] = "down"
    /\ boots[n] < Boots
    /\ boots' = [boots EXCEPT ![n] = @ + 1]
    /\ nodePhase' = [nodePhase EXCEPT ![n] = "up"]
    /\ status' = [status EXCEPT ![n] = "alive"]
    /\ wait' = [wait EXCEPT ![n] = Period]
    /\ heardOff' = [heardOff EXCEPT ![n] = {}]
    /\ \E reached \in Reached(Found \ {n}) :
         peers' = [m \in Node |-> IF m = n THEN Nobody
                                  ELSE IF m \in reached THEN Joined(peers[m], n) ELSE peers[m]]
    /\ UNCHANGED toTell

\* stop: the peers thought to be there are told one by one, and only then the
\* timers end.
Leave(n) ==
    /\ nodePhase[n] = "up"
    /\ n \in Stopping
    /\ nodePhase' = [nodePhase EXCEPT ![n] = "leaving"]
    /\ toTell' = [toTell EXCEPT ![n] = WithStatus(n, {"alive", "suspect"})]
    /\ UNCHANGED <<status, peers, wait, heardOff, boots>>

TellLeave(n, p) ==
    /\ p \in toTell[n]
    /\ toTell' = [toTell EXCEPT ![n] = @ \ {p}]
    /\ \E reached \in Reached({p}) :
         /\ peers' = [m \in Node |-> IF m \in reached THEN Left(peers[m], n) ELSE peers[m]]
         /\ heardOff' = [heardOff EXCEPT ![n] = @ \cup reached]
    /\ UNCHANGED <<nodePhase, status, wait, boots>>

EndNode(n) ==
    /\ nodePhase' = [nodePhase EXCEPT ![n] = "down"]
    /\ peers' = [peers EXCEPT ![n] = Nobody]
    /\ status' = [status EXCEPT ![n] = "alive"]
    /\ wait' = [wait EXCEPT ![n] = Period]
    /\ toTell' = [toTell EXCEPT ![n] = {}]
    /\ UNCHANGED <<heardOff, boots>>

Gone(n) == nodePhase[n] = "leaving" /\ toTell[n] = {} /\ EndNode(n)

Crash(n) == nodePhase[n] = "up" /\ n \in Stopping /\ EndNode(n)

\* setStatus, by the routes drain and resume.
SetStatus(n, s) ==
    /\ nodePhase[n] = "up"
    /\ n \in Draining
    /\ status' = [status EXCEPT ![n] = s]
    /\ UNCHANGED <<nodePhase, peers, wait, toTell, heardOff, boots>>

-----------------------------------------------------------------------------
(* The timers. *)

Fires(n, t) ==
    /\ RunningNode(n)
    /\ wait[n][t] = 0
    /\ wait' = [wait EXCEPT ![n][t] = Period[t]]
    /\ UNCHANGED <<nodePhase, status, toTell, heardOff, boots>>

\* sendHeartbeats
SendHeartbeats(n) ==
    /\ Fires(n, "ping")
    /\ \E reached \in Reached(WithStatus(n, {"alive", "suspect", "draining"})) :
         peers' = [m \in Node |-> IF m \in reached THEN Heartbeat(peers[m], n) ELSE peers[m]]

\* broadcastState
BroadcastState(n) ==
    /\ Fires(n, "sync")
    /\ \E reached \in Reached(WithStatus(n, {"alive", "suspect"})) :
         peers' = [m \in Node |-> IF m \in reached THEN Synced(m, n) ELSE peers[m]]

SweptTooEarly(entry) ==
    IF entry = Unknown THEN Unknown ELSE
    CASE entry.status = "alive" /\ entry.age >= SuspectAfter -> [entry EXCEPT !.status = "suspect"]
      [] entry.status = "suspect" /\ entry.age > DeadAfter -> [entry EXCEPT !.status = "dead"]
      [] entry.status = "dead" /\ entry.age > GcAfter -> Unknown
      [] OTHER -> entry

\* One step per sweep: to suspect, to dead, out of the view.
Swept(entry) ==
    IF entry = Unknown THEN Unknown ELSE
    CASE entry.status = "alive" /\ entry.age > SuspectAfter -> [entry EXCEPT !.status = "suspect"]
      [] entry.status = "suspect" /\ entry.age > DeadAfter -> [entry EXCEPT !.status = "dead"]
      [] entry.status = "dead" /\ entry.age > GcAfter -> Unknown
      [] OTHER -> entry

Sweep(n) ==
    /\ Fires(n, "sweep")
    /\ peers' = [peers EXCEPT ![n] = [p \in Node |-> Swept(@[p])]]

\* The time of a heartbeat period passes; no due timer is passed over.
Tick ==
    /\ \E n \in Node : RunningNode(n)
    /\ \A n \in Node, t \in Timer : RunningNode(n) => wait[n][t] > 0
    /\ wait' = [n \in Node |-> [t \in Timer |->
                   IF RunningNode(n) THEN wait[n][t] - 1 ELSE wait[n][t]]]
    /\ peers' = [n \in Node |-> [p \in Node |->
                   IF peers[n][p] = Unknown THEN Unknown
                   ELSE [peers[n][p] EXCEPT !.age = IF @ < MaxAge THEN @ + 1 ELSE @]]]
    /\ UNCHANGED <<nodePhase, status, toTell, heardOff, boots>>

Timers(n) == SendHeartbeats(n) \/ BroadcastState(n) \/ Sweep(n)

Telling(n) == Gone(n) \/ \E p \in Node : TellLeave(n, p)

ClusterNext ==
    \/ \E n \in Node : \/ StartNode(n) \/ Leave(n) \/ Crash(n) \/ Telling(n) \/ Timers(n)
                       \/ \E s \in {"alive", "draining"} : SetStatus(n, s)
    \/ Tick

ClusterSpec == ClusterInit /\ [][ClusterNext]_clusterVars

\* Time passes, timers fire, and a node that leaves goes.
ClusterFairSpec ==
    /\ ClusterSpec
    /\ WF_clusterVars(Tick)
    /\ \A n \in Node : WF_clusterVars(Telling(n)) /\ WF_clusterVars(SendHeartbeats(n))
                       /\ WF_clusterVars(BroadcastState(n)) /\ WF_clusterVars(Sweep(n))

-----------------------------------------------------------------------------

\* getCandidates: the peers a node may route work to.
Routable(n) == WithStatus(n, {"alive"})

\* While no message is lost, no running node is ever taken for suspect or dead:
\* heartbeat, broadcast and timeouts fit together, for a newcomer too, who pings
\* a peer only after it has heard a broadcast.
NoFalseSuspicion ==
    \A n, p \in Node : (nodePhase[n] = "up" /\ nodePhase[p] = "up" /\ p \in Known(n))
                          => peers[n][p].status \in {"alive", "draining"}

\* Nodes that run for long enough know each other, whoever discovered whom.
Converges ==
    \A n, p \in Node :
        (n # p /\ <>[](nodePhase[n] = "up") /\ <>[](nodePhase[p] = "up"))
            => <>[](p \in Known(n))

\* A peer that is gone for good stops being a candidate for work: it goes from
\* alive to suspect, dead and removed.
Detected ==
    \A n, p \in Node : (<>[](nodePhase[p] = "down")) => <>[](p \notin Routable(n))

\* A peer once found dead is not alive again while it is down.
DeadStaysDead ==
    [][ \A n, p \in Node :
          ({nodePhase[p], nodePhase'[p]} = {"down"} /\ p \in WithStatus(n, {"dead"}))
              => p \notin Routable(n)' ]_clusterVars

\* Work is not routed to a node that keeps draining, by any peer, once the news
\* is around.
DrainHeeded ==
    \A n, p \in Node : (<>[](status[p] = "draining")) => <>[](p \notin Routable(n))

\* A node that was told of a departure has removed the peer, and it stays so.
LeftIsRemoved ==
    \A n, p \in Node : (nodePhase[p] = "down" /\ n \in heardOff[p] /\ RunningNode(n)) => p \notin Known(n)

-----------------------------------------------------------------------------
(* What the proofs rest on. *)

\* Nothing is lost, broadcasts are taken in as the bridge does, suspicion comes
\* later than a broadcast, and whoever may have been forgotten by a node that
\* still runs is discovered by it when it comes back.
Unhurried ==
    /\ ~Lossy /\ SyncByJoin
    /\ SyncEvery < SuspectAfter
    /\ Stopping = {} \/ Found = Node

\* Only a node that leaves has peers to tell.
TellersLeave == \A n \in Node : toTell[n] # {} => nodePhase[n] = "leaving"

\* Where no node stops, nobody leaves, and a node that has not started is unknown.
UnknownUntilUp ==
    Stopping = {} => \A p \in Node :
        /\ nodePhase[p] # "leaving"
        /\ nodePhase[p] = "down" => \A n \in Node : p \notin Known(n)

\* News of a running peer is renewed in time: by its next ping if it knows the
\* node, and else by the node's next broadcast, from which it learns of the node.
NewsInTime(n, p) ==
    /\ peers[n][p].status = "alive"
    /\ IF n \in Known(p) THEN peers[n][p].age + wait[p].ping <= SyncEvery + 1
                         ELSE peers[n][p].age + wait[n].sync <= SyncEvery

RunnersHeard ==
    \A n, p \in Node : (nodePhase[n] = "up" /\ nodePhase[p] = "up" /\ p \in Known(n)) => NewsInTime(n, p)

ClusterInv == ClusterTypeOK /\ TellersLeave /\ UnknownUntilUp /\ RunnersHeard

=============================================================================
