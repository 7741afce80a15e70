-------------------------- MODULE StrategyExecutor --------------------------
(***************************************************************************)
(* The execution of a strategy: a graph of nodes run level by level, in    *)
(* chunks of maxParallel, with gates that send a node back for another     *)
(* attempt, human approvals over the event bus, nodes that call another    *)
(* strategy, oversight, and the bridge's record of it all                  *)
(* (methodts/src/strategy/dag-executor.ts, runtime/src/strategy/           *)
(* human-approval-resolver.ts, bridge/.../strategy-routes.ts).             *)
(*                                                                         *)
(* A run is one call of execute.  It is named by the nodes that lead to    *)
(* it: <<>> is the run the bridge started, Append(r, n) the one that node  *)
(* n of run r called.  Strategies have disjoint sets of nodes.             *)
(*                                                                         *)
(* Left out: what nodes say and read beyond who produced it, costs other   *)
(* than one per call of a model, the order within a level (any chunk of    *)
(* the pending nodes may be next), and the event log.                      *)
(***************************************************************************)
EXTENDS Naturals, Sequences, SequencesExt, FiniteSetsExt

CONSTANTS
    Strategy, Node, Name,
    NodesOf,      \* [Strategy -> SUBSET Node]
    DependsOn,    \* [Node -> SUBSET Node]
    Calls,        \* [Node -> Strategy \cup {NoStrategy}]: the strategy nodes
    Gate,         \* [Node -> {"none", "check", "human"}]
    Retries,      \* [Node -> Nat]: max_retries
    Refreshes,    \* the nodes with refresh_context
    Inputs, Outputs,  \* [Node -> SUBSET Name]
    Escalation,   \* [Strategy -> Nat]: "gate_failures >= N on same step", 0 for no rule
    MaxParallel,
    MaxDepth,     \* bound on the nesting of runs
    NoStrategy, Nobody

ASSUME StrategyAssumption ==
    /\ IsFiniteSet(Node)
    /\ NodesOf \in [Strategy -> SUBSET Node]
    /\ DependsOn \in [Node -> SUBSET Node]
    /\ Calls \in [Node -> Strategy \cup {NoStrategy}]
    /\ Retries \in [Node -> Nat]
    /\ {Inputs, Outputs} \subseteq [Node -> SUBSET Name]
    /\ Escalation \in [Strategy -> Nat]
    /\ MaxParallel \in Nat \ {0}
    /\ NoStrategy \notin Strategy /\ Nobody \notin Node

VARIABLES
    runs,         \* the runs under way, and the root's when it is over
    chain,        \* executionChain, shared by all of them
    sessions,     \* how many session ids were made
    asked,        \* the requests for approval a human may still answer
    entry,        \* the status in the bridge's table of executions
    aborted,      \* it was set by the abort route
    spent,        \* history: what the runs' nodes have cost, lost or not
    forked,       \* history: a strategy was called while another one ran beside it
    misjudged     \* history: a call was refused as a cycle and was none

vars == <<runs, chain, sessions, asked, entry, aborted, spent, forked, misjudged>>

Settled == {"completed", "failed", "gate_failed"}
Over == {"completed", "failed", "suspended"}

\* A node that has not started.  `seen' are the producers of its input bundle,
\* `asks' is the session of its last request for approval, and `approved' the run and
\* the attempt of the request whose approval it got.
NoApproval == [born |-> 0, attempt |-> 0]
Pending ==
    [status |-> "pending", attempt |-> 0, cost |-> 0, seen |-> {}, asks |-> 0, approved |-> NoApproval]

State ==
    [status : {"pending", "running", "calling", "inside", "asking"} \cup Settled,
     attempt : Nat, cost : Nat, seen : SUBSET Node, asks : Nat, approved : [born : Nat, attempt : Nat]]

Run ==
    [strategy : Strategy, status : {"running", "gating"} \cup Over, passed : SUBSET Node,
     chunk : SUBSET Node, node : [Node -> State], store : [Name -> Node \cup {Nobody}],
     cost : Nat, born : Nat \ {0}, session : Nat \ {0}]

TypeOK ==
    /\ DOMAIN runs \subseteq Seq(Node)
    /\ \A r \in DOMAIN runs : runs[r] \in Run
    /\ chain \in Seq(Strategy)
    /\ sessions \in Nat
    /\ \A q \in asked : q \in [session : 1 .. sessions, node : Node, born : Nat, attempt : Nat]
    /\ entry \in {"none", "running"} \cup Over
    /\ aborted \in BOOLEAN /\ spent \in Nat /\ forked \in BOOLEAN /\ misjudged \in BOOLEAN

Init ==
    /\ runs = [r \in {} |-> 0]
    /\ chain = <<>>
    /\ sessions = 0
    /\ asked = {}
    /\ entry = "none"
    /\ aborted = FALSE
    /\ spent = 0
    /\ forked = FALSE
    /\ misjudged = FALSE

-----------------------------------------------------------------------------

Status(r, n) == runs[r].node[n].status

\* The level under way: topologicalSort peels off the nodes without open
\* dependencies.
Level(run) == {n \in NodesOf[run.strategy] \ run.passed : DependsOn[n] \subseteq run.passed}

PendingIn(run) == {n \in Level(run) : run.node[n].status = "pending"}

Smaller(i, j) == IF i < j THEN i ELSE j

\* The producers of the artifacts in n's input bundle: of every artifact of such
\* a name, declared dependency or not.
Bundle(run, n) == {run.store[x] : x \in Inputs[n]} \ {Nobody}

\* The nodes of a chunk start together, their inputs read at once.
Started(run, chunk) ==
    [run EXCEPT
        !.chunk = chunk,
        !.node = [n \in Node |->
            IF n \notin chunk THEN run.node[n]
            ELSE [Pending EXCEPT !.status = IF Calls[n] = NoStrategy THEN "running" ELSE "calling",
                                 !.attempt = 1, !.seen = Bundle(run, n)]]]

Chunk(run) ==
    {c \in SUBSET PendingIn(run) :
        Cardinality(c) = Smaller(MaxParallel, Cardinality(PendingIn(run)))}

CostOf(node, chunk) == SumFunctionOnSet([n \in Node |-> node[n].cost], chunk)

\* The costs of the chunk that has settled.
Billed(run) == [run EXCEPT !.cost = @ + CostOf(run.node, run.chunk), !.chunk = {}]

FreshRun(s, id) ==
    [strategy |-> s, status |-> "running", passed |-> {}, chunk |-> {},
     node |-> [n \in Node |-> Pending], store |-> [x \in Name |-> Nobody],
     cost |-> 0, born |-> id, session |-> id]

\* The map of runs with r's replaced or added.
Put(rs, r, run) == [q \in DOMAIN rs \cup {r} |-> IF q = r THEN run ELSE rs[q]]

\* POST /strategies/execute
Execute(s) ==
    /\ entry = "none"
    /\ entry' = "running"
    /\ chain' = <<s>>
    /\ sessions' = 1
    /\ \E c \in Chunk(FreshRun(s, 1)) : runs' = Put(runs, <<>>, Started(FreshRun(s, 1), c))
    /\ UNCHANGED <<asked, aborted, spent, forked, misjudged>>

-----------------------------------------------------------------------------

At(r, n, status) ==
    /\ r \in DOMAIN runs
    /\ n \in runs[r].chunk
    /\ Status(r, n) = status

SetNode(run, n, state) == [run EXCEPT !.node[n] = state]

Failed(run, n) ==
    SetNode(run, n, [run.node[n] EXCEPT
        !.status = "failed", !.cost = IF Gate[n] = "none" THEN 0 ELSE @])

\* The node is done: its outputs go into the store, and refresh_context changes
\* the session.
Completed(run, n, id) ==
    [SetNode(run, n, [run.node[n] EXCEPT !.status = "completed"]) EXCEPT
        !.store = [x \in Name |-> IF x \in Outputs[n] THEN n ELSE run.store[x]],
        !.session = id]

ForgetsCost(run, n) ==
    IF run.node[n].attempt <= Retries[n]
    THEN SetNode(run, n, [run.node[n] EXCEPT !.attempt = @ + 1, !.cost = 0,
                            !.status = IF Calls[n] = NoStrategy THEN "running" ELSE "calling"])
    ELSE SetNode(run, n, [run.node[n] EXCEPT !.status = "gate_failed"])

\* The gate has not let it pass: another attempt, as long as there are retries.
SentBack(run, n) ==
    IF run.node[n].attempt <= Retries[n]
    THEN SetNode(run, n, [run.node[n] EXCEPT !.attempt = @ + 1,
                            !.status = IF Calls[n] = NoStrategy THEN "running" ELSE "calling"])
    ELSE SetNode(run, n, [run.node[n] EXCEPT !.status = "gate_failed"])

NextSession(n) == IF n \in Refreshes THEN sessions + 1 ELSE sessions

SessionAfter(run, n) == IF n \in Refreshes THEN sessions + 1 ELSE run.session

Passes(rs, r, n) ==
    /\ runs' = Put(rs, r, Completed(rs[r], n, SessionAfter(rs[r], n)))
    /\ sessions' = NextSession(n)

FailsGate(rs, r, n) == runs' = Put(rs, r, SentBack(rs[r], n)) /\ UNCHANGED sessions

\* A request names the session of the run at this moment, and the node waits for a
\* response under that session, whatever the run's session is by then.  Which run and
\* attempt it was made for is history.
Asking(run, n) ==
    SetNode(run, n, [run.node[n] EXCEPT !.status = "asking", !.asks = run.session])

Request(run, n) ==
    [session |-> run.session, node |-> n, born |-> run.born, attempt |-> run.node[n].attempt]

\* The gates are evaluated on what the node has produced.
Judged(rs, r, n) ==
    \/ Gate[n] # "human" /\ Passes(rs, r, n) /\ UNCHANGED asked
    \/ Gate[n] = "check" /\ FailsGate(rs, r, n) /\ UNCHANGED asked
    \/ /\ Gate[n] = "human"
       /\ runs' = Put(rs, r, Asking(rs[r], n))
       /\ asked' = asked \cup {Request(rs[r], n)}
       /\ UNCHANGED sessions

AddCost(run, n, cost) == [run EXCEPT !.node[n].cost = @ + cost]

\* The model, script, index or app behind a node answers.
Answers(r, n) ==
    /\ At(r, n, "running")
    /\ spent' = spent + 1
    /\ Judged(Put(runs, r, AddCost(runs[r], n, 1)), r, n)
    /\ UNCHANGED <<chain, entry, aborted, forked, misjudged>>

\* Or it throws: no gate is asked, and no retry made.
Throws(r, n) ==
    /\ At(r, n, "running") \/ At(r, n, "calling")
    /\ runs' = Put(runs, r, Failed(runs[r], n))
    /\ UNCHANGED <<chain, sessions, asked, entry, aborted, spent, forked, misjudged>>

SameGate(r, q) == TRUE

\* A response is for the gate whose request was made in the session that it names.
SameSession(r, q) == q.session = runs[r].node[q.node].asks

Approve(r, q) ==
    [runs[r] EXCEPT !.node[q.node].approved = [born |-> q.born, attempt |-> q.attempt]]

\* A human answers a request, now or after it timed out.  The response reaches
\* the gate that waits under that session and name, or nobody.
Respond(q, approves) ==
    LET waiting == {r \in DOMAIN runs : At(r, q.node, "asking") /\ SameSession(r, q)}
    IN  /\ asked' = asked \ {q}
        /\ \/ waiting = {} /\ UNCHANGED <<runs, sessions>>
           \/ \E r \in waiting :
                \/ approves /\ Passes(Put(runs, r, Approve(r, q)), r, q.node)
                \/ ~ approves /\ FailsGate(runs, r, q.node)
        /\ UNCHANGED <<chain, entry, aborted, spent, forked, misjudged>>

TimesOutOnce(r, n) ==
    /\ At(r, n, "asking")
    /\ runs[r].node[n].attempt = 1
    /\ FailsGate(runs, r, n)
    /\ UNCHANGED <<chain, asked, entry, aborted, spent, forked, misjudged>>

TimesOut(r, n) ==
    /\ At(r, n, "asking")
    /\ FailsGate(runs, r, n)
    /\ UNCHANGED <<chain, asked, entry, aborted, spent, forked, misjudged>>

-----------------------------------------------------------------------------

\* The strategies of the runs that r is part of, r's own included.
Ancestors(r) == {runs[q].strategy : q \in {p \in DOMAIN runs : IsPrefix(p, r)}}

OnlyCaller(s) == chain # <<>> /\ s = Last(chain)

InChain(s) == \E i \in 1 .. Len(chain) : chain[i] = s

\* A run is under way that r is not part of.
Beside(r) == \E q \in DOMAIN runs : ~ IsPrefix(q, r)

\* A strategy node finds the strategy it calls and runs it.
Call(r, n) ==
    LET child == FreshRun(Calls[n], sessions + 1)
        called == [runs[r] EXCEPT !.node[n].status = "inside"]
    IN  /\ At(r, n, "calling")
        /\ ~ InChain(Calls[n])
        /\ Len(r) < MaxDepth
        /\ chain' = Append(chain, Calls[n])
        /\ sessions' = sessions + 1
        /\ \E c \in Chunk(child) :
             runs' = Put(Put(runs, r, called), Append(r, n), Started(child, c))
        /\ forked' = (forked \/ Beside(r))
        /\ UNCHANGED <<asked, entry, aborted, spent, misjudged>>

\* The strategy is in the chain already: the node fails.
Refuse(r, n) ==
    /\ At(r, n, "calling")
    /\ InChain(Calls[n])
    /\ runs' = Put(runs, r, Failed(runs[r], n))
    /\ misjudged' = (misjudged \/ Calls[n] \notin Ancestors(r))
    /\ forked' = (forked \/ Beside(r))
    /\ UNCHANGED <<chain, sessions, asked, entry, aborted, spent>>

-----------------------------------------------------------------------------

AnySettled(r) ==
    /\ r \in DOMAIN runs
    /\ runs[r].status = "running"
    /\ \E n \in runs[r].chunk : Status(r, n) \in Settled

\* All nodes of the chunk have settled.
ChunkDone(r) ==
    /\ r \in DOMAIN runs
    /\ runs[r].status = "running"
    /\ \A n \in runs[r].chunk : Status(r, n) \in Settled

NextChunk(r) ==
    /\ ChunkDone(r)
    /\ PendingIn(runs[r]) # {}
    /\ \E c \in Chunk(runs[r]) : runs' = Put(runs, r, Started(Billed(runs[r]), c))
    /\ UNCHANGED <<chain, sessions, asked, entry, aborted, spent, forked, misjudged>>

LevelDone(r) == ChunkDone(r) /\ PendingIn(runs[r]) = {}

\* retries of a node's result: a node that threw reports none.
Reported(state) ==
    IF state.status \in {"completed", "gate_failed"} THEN state.attempt - 1 ELSE 0

\* A rule to escalate has fired by the end of a level.
Escalates(run) ==
    /\ Escalation[run.strategy] > 0
    /\ \E n \in NodesOf[run.strategy] : Reported(run.node[n]) >= Escalation[run.strategy]

Advanced(run) == [Billed(run) EXCEPT !.passed = @ \cup Level(run)]

NextLevel(r) ==
    LET advanced == Advanced(runs[r])
    IN  /\ LevelDone(r)
        /\ ~ Escalates(runs[r])
        /\ Level(advanced) # {}
        /\ \E c \in Chunk(advanced) : runs' = Put(runs, r, Started(advanced, c))
        /\ UNCHANGED <<chain, sessions, asked, entry, aborted, spent, forked, misjudged>>

\* After the last level come the strategy gates.
LevelsDone(r) ==
    LET advanced == Advanced(runs[r])
    IN  /\ LevelDone(r)
        /\ ~ Escalates(runs[r])
        /\ Level(advanced) = {}
        /\ runs' = Put(runs, r, [advanced EXCEPT !.status = "gating"])
        /\ UNCHANGED <<chain, sessions, asked, entry, aborted, spent, forked, misjudged>>

Without(r) == [q \in DOMAIN runs \ {r} |-> runs[q]]

\* execute of a called strategy returns to the node that called it, which fails
\* unless the strategy was completed.
ReturnsToNode(caller, n, run, status) ==
    LET others == Without(Append(caller, n))
    IN  \/ /\ status = "completed"
           /\ Judged(Put(others, caller, AddCost(runs[caller], n, run.cost)), caller, n)
        \/ /\ status # "completed"
           /\ runs' = Put(others, caller, Failed(runs[caller], n))
           /\ UNCHANGED <<sessions, asked>>

\* execute returns: the last of the chain goes, the bridge records the status or
\* the calling node goes on.
Returns(r, run, status) ==
    /\ chain' = Front(chain)
    /\ \/ /\ r = <<>>
          /\ runs' = Put(runs, r, [run EXCEPT !.status = status])
          /\ entry' = status
          /\ UNCHANGED <<sessions, asked>>
       \/ /\ r # <<>>
          /\ ReturnsToNode(Front(r), Last(r), run, status)
          /\ UNCHANGED entry
    /\ UNCHANGED <<aborted, spent, forked, misjudged>>

\* escalate_to_human: the rest of the strategy is not run.
Suspends(r) ==
    /\ LevelDone(r)
    /\ Escalates(runs[r])
    /\ Returns(r, Advanced(runs[r]), "suspended")

AllCompleted(run) == \A n \in NodesOf[run.strategy] : run.node[n].status = "completed"

\* The strategy gates have been evaluated.
Ends(r, passed) ==
    /\ r \in DOMAIN runs
    /\ runs[r].status = "gating"
    /\ Returns(r, runs[r], IF passed /\ AllCompleted(runs[r]) THEN "completed" ELSE "failed")

\* POST /strategies/:id/abort changes the table, and nothing else.
Abort ==
    /\ entry \in {"running", "suspended"}
    /\ entry' = "failed"
    /\ aborted' = TRUE
    /\ UNCHANGED <<runs, chain, sessions, asked, spent, forked, misjudged>>

Advances(r) ==
    \/ NextChunk(r) \/ NextLevel(r) \/ LevelsDone(r) \/ Suspends(r)
    \/ \E passed \in BOOLEAN : Ends(r, passed)
    \/ \E n \in Node : Answers(r, n) \/ Throws(r, n) \/ Call(r, n) \/ Refuse(r, n) \/ TimesOut(r, n)

Next ==
    \/ \E s \in Strategy : Execute(s)
    \/ \E r \in DOMAIN runs : Advances(r)
    \/ \E q \in asked, approves \in BOOLEAN : Respond(q, approves)
    \/ Abort

Spec == Init /\ [][Next]_vars

\* What is called returns or throws, a request for approval times out, and the
\* executor goes on; a human need not answer.
FairSpec == Spec /\ WF_vars(\E r \in DOMAIN runs : Advances(r))

-----------------------------------------------------------------------------

\* A node starts only after everything it depends on has settled, and it then
\* sees what a completed dependency produced, unless another node produces an
\* artifact of that name (topologicalSort, buildInputBundle).
AfterDependencies ==
    \A r \in DOMAIN runs : \A n \in Node : Status(r, n) # "pending" =>
        \A d \in DependsOn[n] :
            /\ Status(r, d) \in Settled
            /\ \A x \in Inputs[n] \cap Outputs[d] :
                 (/\ Status(r, d) = "completed"
                  /\ \A other \in NodesOf[runs[r].strategy] : x \in Outputs[other] => other = d)
                 => d \in runs[r].node[n].seen

\* A node with a human gate is completed only after a human approved it, and in
\* the run that it belongs to: this attempt, or one that had timed out
\* (human-approval-resolver.ts).
ApprovalNeeded ==
    \A r \in DOMAIN runs : \A n \in Node :
        (Gate[n] = "human" /\ Status(r, n) = "completed") =>
            /\ runs[r].node[n].approved.born = runs[r].born
            /\ runs[r].node[n].approved.attempt \in 1 .. runs[r].node[n].attempt

\* A strategy is never run inside itself, and a call is refused for a cycle only
\* when there is one, as long as no strategy is called beside another.
CycleDetection ==
    ~ forked =>
        /\ \A q, r \in DOMAIN runs :
             q # r /\ IsPrefix(q, r) => runs[q].strategy # runs[r].strategy
        /\ ~ misjudged

Finished == <<>> \in DOMAIN runs /\ runs[<<>>].status \in Over

\* The cost of a completed strategy is all that was spent on it, on attempts that
\* were sent back and inside the strategies it called.
CompletedIsPaid ==
    (Finished /\ runs[<<>>].status = "completed") => runs[<<>>].cost = spent

\* When execute has returned to the bridge, nothing of the execution is under way:
\* no strategy it called, no node, no entry of the chain (Promise.allSettled).
OverIsQuiet ==
    Finished =>
        /\ DOMAIN runs = {<<>>}
        /\ chain = <<>>
        /\ \A n \in Node : Status(<<>>, n) \in Settled \cup {"pending"}

\* Every execution comes to an end, whether or not a human answers.
Terminates == entry = "running" ~> Finished

-----------------------------------------------------------------------------
(* Why they hold: an invariant that every step keeps. *)

\* Only nodes of its chunk are under way in a run, and a run that is called is
\* gone once it is over.
RunShape(r, run) ==
    /\ run.chunk \subseteq NodesOf[run.strategy]
    /\ run.status # "running" => run.chunk = {}
    /\ r # <<>> => run.status \in {"running", "gating"}
    /\ \A n \in Node :
        /\ n \in run.chunk => run.node[n].status # "pending"
        /\ n \notin run.chunk => run.node[n].status \in Settled \cup {"pending"}
        /\ run.node[n].status = "pending" => run.node[n] = Pending
        /\ run.node[n].status # "pending" => n \in NodesOf[run.strategy] /\ run.node[n].attempt >= 1
        /\ run.node[n].status \in {"calling", "inside"} => Calls[n] # NoStrategy

Shape == \A r \in DOMAIN runs : RunShape(r, runs[r])

\* Every run but the first was called by a node that waits inside it.
Tree ==
    \A r \in DOMAIN runs : r # <<>> =>
        Front(r) \in DOMAIN runs /\ runs[Front(r)].node[Last(r)].status = "inside"

\* The chain has one entry for each run under way.
Counted ==
    /\ IsFiniteSet(DOMAIN runs)
    /\ IF Finished THEN chain = <<>> ELSE Len(chain) = Cardinality(DOMAIN runs)
    /\ entry = "none" => DOMAIN runs = {} /\ asked = {} /\ spent = 0 /\ ~ misjudged

\* The session a run is in, and those its nodes have asked in.
SessionsOf(run) == {run.session} \cup ({run.node[n].asks : n \in Node} \ {0})

\* No two runs ever have a session in common, and a request made in one of a run's
\* sessions is its own and about an attempt the node has made.
SessionsApart ==
    /\ \A r \in DOMAIN runs : SessionsOf(runs[r]) \subseteq 1 .. sessions
    /\ \A q, r \in DOMAIN runs : q # r => SessionsOf(runs[q]) \cap SessionsOf(runs[r]) = {}
    /\ \A q \in asked :
        /\ q.attempt >= 1
        /\ \A r \in DOMAIN runs :
            q.session \in SessionsOf(runs[r]) =>
                q.born = runs[r].born /\ q.attempt <= runs[r].node[q.node].attempt

\* As long as no strategy is called beside another, the runs lie on one path, and
\* the chain names their strategies.
Straight ==
    ~ forked =>
        /\ \A q, r \in DOMAIN runs : IsPrefix(q, r) \/ IsPrefix(r, q)
        /\ ~ Finished =>
            /\ \A r \in DOMAIN runs : Len(r) < Len(chain)
            /\ \A i \in 1 .. Len(chain) :
                \E r \in DOMAIN runs : Len(r) = i - 1 /\ runs[r].strategy = chain[i]

\* As long as no node has failed, what was spent is in the books of the runs.
Weight(run) == run.cost + CostOf(run.node, run.chunk)

NoneFailed ==
    \A r \in DOMAIN runs : \A n \in Node : Status(r, n) \notin {"failed", "gate_failed"}

Booked ==
    NoneFailed => spent = SumFunctionOnSet([r \in DOMAIN runs |-> Weight(runs[r])], DOMAIN runs)

IInv ==
    /\ TypeOK /\ Shape /\ Tree /\ Counted /\ SessionsApart /\ Straight /\ Booked
    /\ ApprovalNeeded /\ CycleDetection /\ CompletedIsPaid /\ OverIsQuiet

-----------------------------------------------------------------------------
\* Promises that the code does not keep.

\* Cycle detection, also with strategies that run side by side
\* (guide 16: the chain "tracks ancestor strategy IDs").
NoFalseCycle == ~ misjudged

\* What a human approved is what the node goes on with.
ApprovedIsWhatRan ==
    \A r \in DOMAIN runs : \A n \in Node :
        (Gate[n] = "human" /\ Status(r, n) = "completed") =>
            runs[r].node[n].approved.attempt = runs[r].node[n].attempt

\* An aborted execution stays failed.
AbortStays == aborted => entry = "failed"

\* A node reads artifacts of its declared dependencies only.
InputsDeclared ==
    \A r \in DOMAIN runs : \A n \in Node : runs[r].node[n].seen \subseteq DependsOn[n]

\* What a finished strategy reports is all that was spent on it.
OverIsPaid ==
    Finished => runs[<<>>].cost = spent

=============================================================================
