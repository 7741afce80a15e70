# A verification development for `method`

`method` is a TypeScript monorepo for running language-model agents: a bridge
process that hosts agent sessions, a runtime it shares with apps on the Cortex
platform, a cluster of bridges, a library for methodologies (`methodts`), a
library for single agents (`pacta`) and its providers, and tools. This
directory holds TLA+ models of the parts of it that keep state across awaits,
processes and restarts, the TLC configurations that check them, and proofs
that TLAPS checks.

Contents: [the system](#the-system), [modules](#modules),
[how state and actions correspond to the code](#how-the-models-correspond-to-the-code),
[runs](#what-the-runs-show), [bounds](#bounds), [fairness](#fairness),
[proofs](#what-is-proved), [only model-checked](#what-is-only-model-checked),
[not modelled](#what-is-not-modelled), [plan](#plan).

To check everything by hand, in this directory: `tlc -workers 2 -config
MCGovernor.cfg MCRateGovernor` checks one run (`PROJECT.json` lists which module
goes with which configuration), and `tlapm M.tla` the proofs of a module `M`
whose name ends in `Proofs`.

## The system

All paths below are under `src/packages/`.

| Component | State it keeps | Operations | Hard behaviours | What makes it correct |
|---|---|---|---|---|
| Session store port, `runtime/src/ports/session-store.ts` | snapshot, checkpoint ring, lease per session | create, load, resume, renew, release, append, finalize, destroy | leases that run out, fencing | one believer per session (I-2), stale tokens write nothing (I-3), checkpoints in order (I-4) |
| In-memory store, `runtime/src/sessions/session-store/in-memory-session-store.ts` | a `Map` of entries | the port, each body without an await | expiry boundary, ring boundary | implements the port |
| Cortex store, `agent-runtime/src/cortex/session-store.ts` | an envelope and checkpoint values in a key-value storage | the port, each as get, decide, put... | calls that overlap, across processes; crashes between two puts | implements the port |
| File-system store, `bridge/src/domains/sessions/fs-session-store.ts` | `snapshot.json` and checkpoint files | the port, synchronous file calls | crash between files, lease of a dead pid | implements the port |
| Job-backed executor, `runtime/src/executors/cortex-job-backed-executor.ts`, and dead-letter observer, `runtime/src/dlq/` | sessions in a store, envelopes in the platform's queue, a set of sessions dead-lettered by this process | start, dispatch, completeTurn, enqueueNext, emitInlineDeadLetter, onDeadLetter | at-least-once delivery, crashes, retries, deadlines | one continuation, one dead letter, turns not repeated, sessions end |
| Checkpoint sink, `runtime/src/sessions/session-store/checkpoint-sink-impl.ts` | a timer and a write under way per session | onEvent, flush, dispose | debounce, overlapping writes | the newest state is what is resumed; flush means flushed |
| Resume and heartbeat, `runtime/src/sessions/session-store/resume.ts` | a renewal timer | performResume, stop | a step that fails after the lease is taken; failed renewals | the lease is returned or kept |
| Event bus and persistence sink, `runtime/src/event-bus/`, and the bridge's start and shutdown, `bridge/src/server-entry.ts` | sequence counter, ring, buffer, cursor, log file | emit, importEvent, onEvent, flush, init, replay, dispose | flush across awaits, failed appends, restarts, shutdown races | every event logged once, in order; numbers never reused |
| Other sinks and channels | buffers, cursors, retries | webhook, channel, genesis, session checkpoint | bounded buffers, retries | delivery, order |
| Rate governor, `runtime/src/cost-governor/` | slots, token bucket, queue | acquireSlot, releaseSlot, utilization, sweep | wake-ups, timeouts, sleep, leaks | cap kept, no slot leaks, waiters served |
| Cluster membership, `cluster/src/membership/`, wired by `bridge/src/domains/cluster/` | each node's view of its peers | start, stop, join, leave, heartbeat, broadcast, sweep, drain | lost messages, crashes, second-hand news, departures | failures detected, views converge, draining heeded |
| Work router and federation, `cluster/src/routing`, `cluster/src/federation` | none; relay filter | route, relay | relay loops, stale views | only live nodes are chosen |
| Session pool, `runtime/src/sessions/pool.ts`; session checkpoints, persistence and recovery, `runtime/src/event-bus/session-checkpoint-sink.ts`, `bridge/src/domains/sessions/`, `bridge/src/startup-recovery.ts` | sessions with their prompt queues, chains and budgets; a debounce per session, the index and its debounced write, the index file | create, prompt, kill, checkStale, removeDead, restoreSession; checkpoint, flush; start, stop | awaits between check and registration, prompts that race kills, debounces that race removals, crashes | capacity kept, chain budget kept, the file tells the truth at rest, the killed stay killed |
| Strategy executor, `methodts/src/strategy/dag-executor.ts`, gates and approvals, `runtime/src/strategy/`, the bridge's table of executions, `bridge/src/domains/strategies/` | node states, levels and chunks of a run, the stack of calls, artifacts, costs, requests for approval | execute, executeNode, gates, callStrategy, oversight, abort | parallel nodes, retries, approvals in time, late or never, calls that call back | dependencies first, approvals needed, cycles found, costs kept, quiet when over, over in the end |
| Build orchestrator, triggers, projections (bridge) | phases, debounce windows, snapshots | their loops | crashes, debounce races, replay | recovery loses nothing |
| Cortex events, `agent-runtime/src/cortex/` | buffer, retry counters | publish, drain | rate limits, retries | bounded loss |
| methodts, pacta, providers, fca-index, mcp, method-ctl, testkit, playground | mostly none across awaits | libraries and adapters | | |

How they interact. The bridge owns a bus; every domain emits to it, and sinks
take events from it (callbacks, inside `emit`). A session's runtime holds a
lease of a store; the checkpoint sink, the lease heartbeat and the turn all
call that store under the same fencing token. On Cortex there is no resident
process: the executor runs each turn as a job of the platform's queue and
takes the lease anew for each. The throttler middleware of a pact asks the
rate governor for a slot around every provider call. Bridges talk HTTP to each
other; the cluster package decides, the bridge's routes bring messages in.

## Modules

| Module | Models | Checked by |
|---|---|---|
| `SessionLease` | the port's promises, with neither clock nor storage: owners, tokens, who trusts, the newest checkpoint | the three stores refine it |
| `SessionStore` | the in-memory store | `MCSessionStore` |
| `SessionStoreProofs` | invariants of `SessionStore`, and that it implements `SessionLease`, proved | TLAPS |
| `CortexSessionStore` | the key-value store, call steps interleaved | `MCCortexSessionStore` |
| `CortexProofs` | invariants and action properties of `CortexSessionStore`, and that it implements `SessionLease`, proved for calls that do not overlap | TLAPS |
| `FsSessionStore` | the two files of the file-system store; no next-state relation of its own | `ResumeProtocol` drives it |
| `ResumeProtocol` | processes that resume a session, keep its lease by heartbeat, append and die | `MCResumeProtocol` |
| `ResumeProofs` | invariants of `ResumeProtocol`, and that it implements `SessionLease`, proved | TLAPS |
| `JobExecutor` | executor, dead-letter observer, and the platform queue around them | `MCJobExecutor` |
| `JobExecutorProofs` | invariants of `JobExecutor`, proved for any crashes and repeated deliveries or for one process and single deliveries | TLAPS |
| `CheckpointSink` | the debounced checkpoint writer of one session | `MCCheckpointSink` |
| `EventLog` | bus, persistence sink, start, shutdown and restart of a bridge | `MCEventLog` |
| `RateGovernor` | governor, bucket and queue of one account, with its callers | `MCRateGovernor` |
| `RateGovernorProofs` | invariants of `RateGovernor`, proved | TLAPS |
| `Membership` | a cluster of nodes and what the bridge makes of its messages | `MCMembership` |
| `BridgeProofs` | invariants of `EventLog`, `Membership` and `CheckpointSink`, proved | TLAPS |
| `SessionPool` | sessions, chains and budgets of the pool; no next-state relation of its own | `SessionRecovery` drives it |
| `SessionRecovery` | the bridge around its pool: requests, timers, checkpoint sink, index file, stop, crash, recovery | `MCSessionRecovery` |
| `SessionRecoveryProofs` | invariants and an action property of `SessionPool` and `SessionRecovery`, proved | TLAPS |
| `StrategyExecutor` | executions of strategies: levels, gates, approvals, calls, oversight, the bridge's table | `MCStrategyExecutor` |
| `StrategyProofs` | invariants of `StrategyExecutor`, proved | TLAPS |

`Membership` and `CheckpointSink` put `Cluster` and `Sink` before the usual names
(`ClusterInit`, `SinkNext`, ...), so that one module, `BridgeProofs`, can extend them
together with `EventLog`.

The `MC` modules only declare model values and give the operator parameters
(`Worker`, `Proc`), `Ttl` and the graphs of the strategies their small values.
Each configuration fixes the constants; none replaces a definition.

`SessionLease` is the abstract specification; `SessionStore`,
`CortexSessionStore` and `ResumeProtocol` instantiate it with a refinement
mapping (`Contract`) and check `ImplementsContract`. `Ttl`, expiry times, the
ring, envelopes, files and keys all disappear in it: `owner` is the token in the
stored lease, `issued` the newest token, `trusting` the tokens whose holders
have not been told otherwise, `head` the newest checkpoint.

Two compositions: `ResumeProtocol` puts `performResume` and its heartbeat on the
file-system store, and `SessionRecovery` puts the bridge's routes, timers,
checkpoint sink and index file around the pool. The lower module of each has
operators over its own variables, and the upper one says what the rest of the
system does in the same step.

Definitions whose names say what is wrong with them (`OneTooEarly`, `AnyLease`,
`PutBackLast`, ...) stand directly before the definition they are a variant of,
and are used by none. They are plausible mistakes: `PROJECT.json` names, for each property of each
passing run, one that the property catches.

## How the models correspond to the code

`PROJECT.json` (`map`) gives for every definition the lines it translates. The
general rule: the code between two awaits is one action; an operation without
an await is one action; every early return is a guard or a disjunct; what a
failing call does is an action of its own where a caller catches it.

**SessionStore.** `entries` is the `Map`, `now` the clock. An in-memory
operation has no await, so each is one step. `grants[t]` is what the code does
not keep: who was given token `t`, and until when that caller was told it owns
the session. A `resume` is `Acquire` (no lease, or a dead one) or `Refetch`
(same worker, live lease, same token); the FENCED answer changes nothing and
is no step. `ClearExpired` is what `renewLease` and `appendCheckpoint` both do
with a lease they find dead, before they throw. `finalize` and `destroy` are
called by the owner's process, so the holder knows (`Revoke`).

**CortexSessionStore.** A call's first step reads the envelope and fixes the list of
writes still to do, `call[c]`; `Perform` does the next one; `Crash` drops the rest. A
`drop` is a delete of `destroy`, which may fail and is swallowed. With `Serial` no
call starts while another is under way: what the store promises then is the question
of its run; which promises depend on it is told
[below](#why-the-conditions-are-needed). `Worker(c)` is the worker id a caller
presents: with `OneWorker` the two callers are a turn and the heartbeat of the same
worker.

**JobExecutor.** One session. `queue` and `dlq` count the jobs the platform holds, by
turn and attempt. A flow is one activation of `dispatch` or of `onDeadLetter`; its
`pc` names the await it stands before. `Reject` is the rejection of the handler's
promise, upon which the platform delivers the job again with the next attempt number
(`Requeued`) or gives it up (`GivenUp`). `Redeliver` is a visibility timeout, `Crash`
the death of a process with every flow in it, whose jobs come back, `CallFails` a
rejected call of the store or the queue, `Expire` the end of the lease's time to live,
`Deadline` the moment `budgetRef.expiresAt`. The store is taken at its word, one step
per operation. `Acknowledged` is constantly false because `start` writes -1 and
`completeTurn` drops the snapshot it patches. A `Tick` is a job of the platform's
scheduler, without a session: the handler draws an id that no store knows (`status`
stays absent), and dead-letters it as an unknown session, every time. `Echo` is the
observer's own emission of the event that `emitInlineDeadLetter` has emitted before it
returned it.

**FsSessionStore and ResumeProtocol.** The bodies of the file-system store are
synchronous, so a call is one step, or, when the process dies between the two files,
one of the steps `CutShort` makes. `destroy` swallows a failing unlink, so that it may
leave either file, or both. `left` is what remains of a lease, `dead` the tokens whose
pid is gone, which `resume` may take over at once. `phase` follows `performResume`:
`setup` is everything after the lease is taken and before the heartbeat starts, and a
failure in it (`SetupFails`) leaves the lease where it is. `Beat` renews and swallows
the answer, as the interval timer does. What a turn does between resume and end is not
in the repository: that it appends as the checkpoint sink does and ends with stop and
release, finalize or destroy is how the port says it is to be used, and `FencedEnd` is
the caller's part of it, to finalize and destroy only under its own lease. In the
contract, a destroy that removed the checkpoints and left the snapshot is `Lose`: the
session is there and has no checkpoint.

**CheckpointSink.** One session. `version` counts the events, so a checkpoint is known
by the version it captured. The three awaits of `writeCheckpoint` are `capture`,
`load` and `append`; nothing keeps two writes of a session apart, and they overlap
freely. `inflight` is the one entry of the map of writes under way. `GiveUp` covers a
capture that returns nothing and each of the three calls failing. A write that fails,
or that runs beside another, may leave the last event out, and the sink does not try
again before the next event. `clean` remembers, as no code does, whether anything of
that kind has happened since the last write that ran alone and was stored; the two
properties say what holds when nothing has, which is that such a write makes good
whatever others left out.

**EventLog.** `phase` follows `start` and `gracefulShutdown`: the first event
is emitted before the cursor is read, `bridge_stopping` before the server is
awaited and the sink disposed, and events may come until the process is gone.
`sink` holds the fields of `PersistenceSink` and where its flush stands.
`saving` is the shutdown's own rewrite of the cursors file. `Replay(from)` is
the import of the log's events from position `from` on, which stands for the
replay window. `AppendFails` includes the overflow callback's own event.

**RateGovernor.** `active` are the callers with a slot on the books, `bucket`
the counters of `TokenBucket`. To be woken is to have one's promise resolved:
the code after the await is `Retry` or `Refuse`, and others may run before.
A tick is a minute or more; `SleepAfter` stands for the five minutes after
which `refill` assumes a sleep, `Window` for the five hours of the bucket.

**SessionPool and SessionRecovery.** `sessions` stands for the pool's maps, `opening`
for the creates that wait between their checks and their registration (`crossed`:
somebody else registered meanwhile), `since` for the age of `lastActivityAt`,
`waiting` and `runs` for the prompt queue of a session. The budget of a chain is
`spawned` in the record of its root. `broken` remembers the chains that are not whole:
they have lost a member, or a session came back or was restored under an id that was
named as a parent before (`Joined`). A spawn draws its id at random (`Named`: an id
that was never used). Around it, `timers` are the sink's debounces, `index` the map of
the persistence store, `flush` its debounced write and `disk` the file. A step of the
bridge and the event it emits are one action, since the sinks are called inside
`emit`. A process that starts may fail to read the file, and goes on with an empty
index (`Boot`); the events it replays from the log may start debounces. Requests are
served before the recovery has run. `Recover(found)` restores what the index has as
not dead, and, whatever the index says of it, every session in `found`, whose claude
process native discovery has found alive (bridge/src/startup-recovery.ts:127-131,
176-190): a kill ends no process (runtime/src/sessions/pool.ts:929,
print-session.ts:501), so a session that was killed in the middle of a prompt, and
saved as dead, may come back ready. restoreSession emits no event, so the file goes on
having it as dead; `native` remembers these sessions. `ended` are the sessions that
were killed by a request or a stop and whose death gets to the file, which no code
keeps: a session leaves it when it is removed before its checkpoint (`Cleanup`), when
discovery brings it back, or when it is spawned again, and `Known` says what of it a
process that dies leaves to its successor: nothing that was not in the file.

**StrategyExecutor.** A run is one call of `execute`, named by the path of nodes
that lead to it; `<<>>` is the one the bridge started. A node is `running`
(a call of a model, a script or an app), `calling` and `inside` (a strategy
node), `asking` (a human gate), or settled. `Judged` is the evaluation of the
gates after an answer; `asks` of a node is the execution id that its request for
approval was made with, against which `SameSession` compares a response: a node of the
same chunk that refreshes the context changes the run's own session meanwhile, and the
request keeps the old one. `SentBack` is the retry loop; `Billed` the sum of the costs
after `Promise.allSettled`; `Returns` the end of `execute`, in the table of the
bridge or in the node that called. `chain` is the one array that all executors of
an execution push and pop. `spent`, `forked` and `misjudged` remember what no code
keeps: the cost of everything, whether a strategy was called beside another, and
whether a call was refused as a cycle without being one.

**Membership.** `peers[n]` is the view of node `n`, with ages in heartbeat
periods instead of instants. `wait` are its three interval timers; `Tick` lets
no due timer be passed over. `SyncByJoin` chooses between what the bridge's
route does with a broadcast (`handleJoin` for every node in it) and what the
package does (`mergeState`). `Found` is what discovery returns. A node that
leaves tells its peers one by one, with its timers still running.

## What the runs show

`PROJECT.json` (`runs`) lists the runs. All pass, with deadlocks looked for
except where the bounds or the system itself stop (see [Bounds](#bounds)).

| Run | Distinct states | Shows |
|---|---|---|
| `MCSessionStore` | 210,552 | lease exclusion, ring, fencing order, and refinement of `SessionLease`, in all orders of operations of two workers |
| `MCCortexSerial` | 498,159 | the key-value store keeps the contract, and its newest checkpoint readable, when calls do not overlap, crashes between two puts and failing deletes included |
| `MCJobSerial` | 45,395 | one process that is given no job twice at once, scheduled ticks, any outcome, any one call of the store or the queue failing: one continuation; and while no call has failed every return path gives the lease back and a dead letter is emitted exactly when the session fails |
| `MCJobRecovery` | 111,661 | with crashes and repeated deliveries a session is never left without a job or a handler that goes on with it, and settles |
| `MCSink` | 572,380 | whatever overlapping and failing writes leave out, the next write that runs alone and is stored makes good: no event is left, and what was flushed is covered |
| `MCLogLives` | 91,540 | in the first life of a log: each event once, in order, none skipped, failed appends included; in every life: sequence numbers are not reused after a replay of the whole log |
| `MCGovernor` | 363,311 | until the watchdog sweeps a slot the cap holds; no capacity is ever lost |
| `MCClusterJoining` | 14,245 | nodes that start in any order find each other, and no running node is suspected |
| `MCClusterPackage` | 194,474 | with `mergeState`, departures and crashes are detected, and the dead stay dead |
| `MCResume` | 73,322 | a turn that began in time keeps its lease to the end, resume hands out no checkpoint older than the last acknowledged one until a create or a destroy got half-way, a lease nobody gave back runs out, and the file-system store with its clients implements the lease contract; with failing steps and deletes, and processes that die between two files |
| `MCStrategy` | 79,221 | nothing passes a human gate unapproved, sequential calls find exactly the cycles, a completed execution reports what was spent, nothing goes on once it is over, and it ends whether or not a human answers |
| `MCPool` | 2,413,397 | capacity and chain budget as the pool keeps them, the file holds a session as it is once the debounces are over, but for sessions whose process a restart found alive, and what was killed, and got to the file, comes back only by a resume or with such a process; with crashes, restarts, an unreadable file and failing writes |

### Why the conditions are needed

Many of the runs hold a promise under a condition: `Serial`, one process and
single deliveries, one flow in a process that dies, a write that ran alone, the first
life of a log, no swept slot, `mergeState`, no create crossed by another. Without the condition, or
stated as the repository's documents give it, TLC finds a counterexample.
The list below gives each of them: the property, the configuration it is checked
in instead of that configuration's own properties, with the constants that
change, what the code does, and what the documents say. They are not among the
runs of `PROJECT.json`; each ends within a minute. Paths are below
`src/packages/` unless they begin with `docs/` or `.method/`.

* `LeaseExclusion`, `MCCortexSerial.cfg` with `Serial = FALSE`
  (agent-runtime/src/cortex/session-store.ts:209). Two workers that resume the
  session at the same time both get a lease: each reads the envelope before the
  other has put it. Cause: resume reads the envelope, decides that no lease is
  live and puts a new one; nothing compares the value that is replaced.
  runtime/src/ports/session-store.ts:16-17 says "resume(sessionId, workerId)
  acquires a lease; concurrent callers receive FENCED from that point until the
  lease expires or is released".
* `OnlyHolderAppends`, `MCCortexSerial.cfg` with `Serial = FALSE`
  (agent-runtime/src/cortex/session-store.ts:318). A worker whose lease was
  taken over between its check and its put still writes. Cause:
  appendCheckpoint checks the token in the envelope it has read and puts the
  envelope two awaits later. runtime/src/ports/session-store.ts:18 says "I-3
  appendCheckpoint rejects stale fencing tokens with FENCED".
* `TerminalStays`, `MCCortexSerial.cfg` with `Serial = FALSE`
  (agent-runtime/src/cortex/session-store.ts:318). An append or a renewal that
  read the envelope before finalize puts the old status back. Cause:
  appendCheckpoint writes back the whole snapshot it has read, status included.
  runtime/src/ports/session-store.ts:90 says of finalize "Mark a session
  terminal. Sets status, persists the final snapshot, releases any held lease".
* `DestroyedIsGone`, `MCCortexSerial.cfg` as it is
  (agent-runtime/src/cortex/session-store.ts:369). A delete that fails in a
  destroy leaves its checkpoint for good, and so does a crash between the two
  puts of an append, whose checkpoint no envelope names. Cause: destroy
  swallows a failing delete (373-377) and goes on; and it deletes the
  checkpoints whose sequences the envelope lists, while an append that died
  after its first put has stored one more.
  runtime/src/ports/session-store.ts:96 says "Remove a session and all its
  checkpoints. Irreversible."
* `CheckpointsKept`, `MCCortexSerial.cfg` with `Serial = FALSE`, `Worker <-
  OneWorker` (agent-runtime/src/cortex/session-store.ts:238). A worker's own
  lease heartbeat, running next to its turn, undoes the turn's checkpoint.
  Cause: renewLease puts back the envelope it has read,
  latestCheckpointSequence and checkpointSequences included;
  startLeaseHeartbeat calls it while the turn appends.
  runtime/src/ports/session-store.ts:19 says "Checkpoints for a given session
  are totally ordered by `sequence`" and line 67 "Updates the snapshot's
  `latestCheckpointSequence` atomically".
* `SingleEmit`, `MCJobSerial.cfg` with `MaxFail = 0`, `MaxRedeliver = 1`,
  `MaxTurn = 0` (runtime/src/executors/cortex-job-backed-executor.ts:439). Two
  deliveries of one job in one process, both past the deadline, both emit.
  Cause: emitInlineDeadLetter tests the in-process set before it awaits the
  snapshot and adds to the set after (447), so two calls both pass. Its comment
  at lines 437-438 says "Fast in-process guard — covers the race where both
  inline and external DLQ paths fire concurrently for the same sessionId", and
  the header at 21-23 "exactly one `PactDeadLetterEvent` fires per
  `sessionId`".
* `SingleEmit`, `MCJobSerial.cfg` with `MaxFail = 2`, `MaxTurn = 0`
  (runtime/src/dlq/cortex-dlq-observer.ts:47). Every dead letter that comes
  from the platform is emitted twice, with one process and no race. Cause:
  emitInlineDeadLetter has emitted the event (457) when it returns it, and
  onDeadLetter emits what was returned.
  runtime/src/dlq/cortex-dlq-observer.ts:38-39 says "Delegate to the executor
  so the emission + finalization path stays centralised".
* `SingleEmit`, `MCJobRecovery.cfg` with `Spec`, `MaxRedeliver = 0`
  (runtime/src/executors/cortex-job-backed-executor.ts:443). The process that
  emitted dies before it finalizes the session; the redelivered job emits
  again. Cause: no code stores the flag that readDlqEmitted looks for, so
  outside the process that emitted only the failed status suppresses a second
  event, and emitInlineDeadLetter does not look at the status.
  runtime/src/dlq/cortex-dlq-observer.ts:39 says "The executor persists the
  DLQ-emitted flag, so subsequent calls for the same sessionId return null".
* `NeverStranded`, `MCJobRecovery.cfg` with `Spec`, `Proc <- OneProc`
  (runtime/src/executors/cortex-job-backed-executor.ts:439). A process dies
  while one of its two handlers is about to mark the session; the other, for
  the repeated delivery, has acknowledged the job because the process had
  emitted. Cause: the in-process set makes the second delivery return before
  the first has finalized the session, and it dies with the process. The header
  of runtime/src/executors/cortex-job-backed-executor.ts at 21-23 says "exactly
  one `PactDeadLetterEvent` fires per `sessionId`", and
  runtime/src/ports/dlq-observer.ts:27-28 that the dead letter "finalises the
  session".
* `NotReexecuted`, `MCJobRecovery.cfg` with `Spec`, `MaxRedeliver = 0`,
  `MaxTurn = 1` (runtime/src/executors/cortex-job-backed-executor.ts:400). A
  handler that dies after it has enqueued the next turn leaves its own job to
  be delivered and executed again. Cause: completeTurn builds the snapshot with
  the acknowledged turn and drops it (`void patched`), so the comparison at 301
  never finds an acknowledged turn. The header at lines 15-20 says "idempotent
  under at-least-once delivery (gate G-IDEMPOTENCY)" and
  "Acks-without-executing when the envelope's `turnIndex` has already been
  processed"; the comment at 392-399 admits the gap.
* `CompletedStays`, `MCJobRecovery.cfg` with `Spec`, `MaxCrash = 0`
  (runtime/src/executors/cortex-job-backed-executor.ts:458). A repeated
  delivery that reads the snapshot before the first one completes the session
  turns it into a failed one. Cause: emitInlineDeadLetter finalizes the session
  as failed whatever its status is by then, and the budget guard (279) does so
  without a look at the session. runtime/src/ports/dlq-observer.ts:28 says it
  "finalises the session (unless already terminal)".
* `RetriesUsed`, `MCJobSerial.cfg` with `Flow = {a}`, `MaxFail = 0`, `MaxTurn =
  0`, `Proc <- OwnProc`
  (runtime/src/executors/cortex-job-backed-executor.ts:334). The handler gives
  a throwing turn up on the attempt before the last. Cause: dispatch takes
  attempt 3 for the final one. runtime/src/ports/job-backed-executor.ts:115
  says "Attempt number (0 = first delivery, 1-4 = retries per PRD-071)" and
  line 118 "effectively DLQ'd (attempt=4 failed)".
* `DeadLetterMeansFailed`, `MCJobSerial.cfg` with `Flow = {a}`, `MaxTurn = 0`,
  `Proc <- OwnProc` (runtime/src/executors/cortex-job-backed-executor.ts:458).
  The dead letter is emitted, finalize fails, and nothing tries again: the
  session stays open. Cause: the failure of finalize is swallowed and the job
  acknowledged. runtime/src/ports/dlq-observer.ts:27-28 says it "emits a
  `PactDeadLetterEvent` on the host's event channel, and finalises the
  session".
* `NeverRegress`, `MCSink.cfg` with `MaxVersion = 3`
  (runtime/src/sessions/session-store/checkpoint-sink-impl.ts:181). Of two
  overlapping writes the one that captured first may load and append last.
  Cause: the sequence is taken from the store after the capture, so a write
  that captured an older state can be numbered after one that captured a newer
  state. runtime/src/ports/session-store-types.ts:89 says "One durable
  checkpoint. Append-only, monotonic per session."
* `NoneSkipped`, `MCLogLives.cfg` with `CleanExit = TRUE`, `FullWindow =
  FALSE`, `MaxEvents = 5`, `MaxFail = 0`, `MaxLives = 2`
  (runtime/src/event-bus/persistence-sink.ts:85). A log older than the replay
  window leaves the counter behind the cursor, and the new events are taken for
  persisted. Cause: onEvent drops events whose sequence is not above the
  cursor; the bus's counter restarts at 0 and replay raises it only for the
  events in the window. runtime/src/event-bus/persistence-sink.ts:5 says
  "Writes every RuntimeEvent to a JSONL file".
* `LogUnique`, `MCLogLives.cfg` with `CleanExit = TRUE`, `MaxEvents = 5`,
  `MaxFail = 0`, `MaxLives = 2` (bridge/src/server-entry.ts:796). Events that
  were logged after the cursor was saved are imported and logged again by the
  next process. Cause: the shutdown's rewrite of the cursors file can put an
  older cursor back after the last flush has saved its own.
  runtime/src/event-bus/persistence-sink.ts:84 says "Skip events already
  persisted (cursor recovery on replay)".
* `CursorLogged`, `MCLogLives.cfg` with `Batch = 3`, `MaxEvents = 5`, `MaxFail
  = 0`, `MaxLives = 1` (runtime/src/event-bus/persistence-sink.ts:213). The
  cursor saved after a batch covers events that came in while the batch was
  written. Cause: saveCursor writes the last sequence seen, not the last one
  logged. runtime/src/event-bus/persistence-sink.ts:13-14 says "Cursor
  recovery: persists last-processed sequence per sink in a JSON file. On
  restart, sinks resume from their last cursor", and line 84 takes what is
  below it for "already persisted".
* `DisposeFlushes`, `MCLogLives.cfg` with `CleanExit = TRUE`, `MaxEvents = 5`,
  `MaxFail = 0`, `MaxLives = 1`
  (runtime/src/event-bus/persistence-sink.ts:228). dispose during a flush
  leaves the buffer as it is and has cleared the timer. Cause: dispose clears
  the timer and calls flush, which returns at once when a flush is running. The
  comment at line 222 says "Flush remaining buffer and clean up timers".
* `Flushed`, `MCLogLives.cfg` with `FairSpec`, `Batch = 3`, `CleanExit = TRUE`,
  `MaxEvents = 5`, `MaxFail = 0`, `MaxLives = 1`
  (runtime/src/event-bus/persistence-sink.ts:91). A full batch that arrives
  while a flush is running starts no timer: its events wait for the next event.
  Cause: when the buffer reaches flushBatchSize onEvent calls flush, which
  returns at once if one is running, and sets no timer. The header at lines 6-7
  says "events accumulate in memory and flush every 1 second or 100 events
  (whichever comes first)".
* `CapRespected`, `MCGovernor.cfg` with `ConcurrentCap = 1`, `WeeklyCap = 0`
  (runtime/src/cost-governor/rate-governor-impl.ts:119). A slow caller whose
  slot was swept releases it a second time and frees the slot of another.
  Cause: releaseSlot lowers the count whether or not the slot was still on the
  books. runtime/src/cost-governor/token-bucket.ts:17 says of concurrentCap
  "Max concurrent in-flight slots".
* `Drains`, `MCGovernor.cfg` with `FairSpec`, `BurstCapacity = 2`, `Caller =
  {a, b}`, `Watchdog = FALSE`, `WeeklyCap = 0`
  (runtime/src/cost-governor/backpressure-queue.ts:73). Callers that wait for
  tokens, with no slot in flight, are woken by nobody. Cause: the queue is
  signalled only when a slot is released or swept, never when tokens come back.
  runtime/src/cost-governor/README.md:12 says it "Queues requests when rate
  limit is active; drains when capacity returns" and line 33 "preserving
  eventual delivery".
* `Refills`, `MCGovernor.cfg` with `FairSpec`, `BurstCapacity = 2`, `Caller =
  {a}`, `ConcurrentCap = 1`, `Watchdog = FALSE`, `WeeklyCap = 0`
  (runtime/src/cost-governor/token-bucket.ts:66). Looks at the bucket that come
  often enough keep it from ever refilling. Cause: refill rounds the due tokens
  down and moves lastRefillNs forward all the same, so the fraction is lost at
  every call. The comment at line 48 says "Refill burst tokens based on elapsed
  monotonic time".
* `WeekRenews`, `MCGovernor.cfg` with `FairSpec`, `Caller = {a}`,
  `ConcurrentCap = 1`, `Watchdog = FALSE`, `WeeklyCap = 3`
  (runtime/src/cost-governor/token-bucket.ts:58). The weekly check is skipped
  after a sleep, and long gaps between two looks are always taken for sleeps.
  Cause: refill returns before the week check whenever more than five minutes
  have passed since the last call. runtime/src/cost-governor/token-bucket.ts:69
  says "Weekly reset check (wall clock — only for week boundary)" and line 15
  "Max messages per week".
* `SleepIsConservative`, `MCGovernor.cfg` with `Caller = {a, b}`,
  `ConcurrentCap = 1`, `Watchdog = FALSE`, `WeeklyCap = 0`
  (runtime/src/cost-governor/token-bucket.ts:56). An empty bucket is half full
  again after a pause much shorter than half the window. Cause: after any gap
  of more than five minutes burstConsumed is set to half the capacity. The
  comment at line 53 says "Resume-from-sleep detection: elapsed > 5min →
  conservative 50% reset".
* `RefusedInTime`, `MCGovernor.cfg` with `Caller = {a, b}`, `ConcurrentCap =
  1`, `Watchdog = FALSE`, `WeeklyCap = 0`
  (runtime/src/cost-governor/rate-governor-impl.ts:113). A newcomer takes the
  slot between the wake-up of a waiter and its second try; the waiter is
  refused at once. Cause: a woken caller that finds no slot throws
  SaturationError without waiting on.
  runtime/src/cost-governor/rate-governor-impl.ts:46 says "Max time to wait in
  queue before throwing SaturationError", pacta/src/ports/rate-governor.ts:49
  "Thrown when all accounts are saturated and projected wait exceeds
  timeoutMs."
* `Detected`, `MCClusterPackage.cfg` with `FairSpec`, `Draining = {}`, `Found =
  {a, b, c}`, `SyncByJoin = TRUE` (bridge/src/domains/cluster/routes.ts:186).
  With the bridge's route, two survivors tell each other for ever that the
  third is alive. Cause: the state-sync route calls handleJoin for every node
  of the broadcast, which marks it alive with a fresh lastSeen, although its
  comment at line 183 says "handleJoin merges into local state".
  docs/arch/cluster.md:60 says "alive ──(missed heartbeat)──→ suspect
  ──(timeout)──→ dead ──(gc)──→ removed".
* `DrainHeeded`, `MCClusterPackage.cfg` with `FairSpec`, `Found = {a, b, c}`,
  `Stopping = {}`, `SyncByJoin = TRUE`
  (bridge/src/domains/cluster/routes.ts:186). With the bridge's route, every
  broadcast makes a draining node alive again. Cause: handleJoin overwrites the
  status of the node with alive. docs/prds/039-bridge-cluster.md:708 says
  "`POST /cluster/route` never selects the draining node".
* `LeftIsRemoved`, `MCClusterPackage.cfg` with `Spec`, `Draining = {}`, `Found
  = {a, b, c}`, `SyncByJoin = TRUE` (cluster/src/membership/membership.ts:118).
  A broadcast that still names the departed node brings it back into a view
  that had removed it. Cause: handleLeave deletes the entry and keeps no trace,
  so the broadcast of a peer that has not heard of the departure, or one of the
  leaving node itself, adds it again. docs/prds/039-bridge-cluster.md:466 says
  "Node leaves gracefully — removed from peers".
* `AppendsGoOn`, `MCResume.cfg` as it is
  (bridge/src/domains/sessions/fs-session-store.ts:377). A process that dies
  between the two files of an append leaves a session that takes no checkpoint
  any more. Cause: appendCheckpoint writes checkpoints.jsonl before
  snapshot.json. After a crash in between, the checkpoint sink takes the
  sequence after the one in the file, the store wants the one after the
  snapshot's, and every append is refused from then on.
  .method/sessions/fcd-design-prd-061-session-store/prd.md:546 says of such a
  two-step append "a crash leaves an orphan checkpoint that the next resume
  will observe and either accept (sequence > latestCheckpointSequence, treat as
  committed) or ignore".
* `TurnKeepsLease`, `MCResume.cfg` with `FencedEnd = FALSE`
  (bridge/src/domains/sessions/fs-session-store.ts:408). A process that began
  its turn too late has lost the lease and does not know; it finalizes or
  destroys the session of its successor. Cause: finalize and destroy take no
  fencing token. .method/sessions/fcd-surface-session-store/decision.md:521
  says "All mutating calls check the token. `appendCheckpoint`, `renewLease`,
  `releaseLease`, `finalize` all require `fencingToken`".
* `NoFalseCycle`, `MCStrategy.cfg` as it is
  (methodts/src/strategy/dag-executor.ts:423). Two strategies called side by
  side share one chain: one of them is refused as a cycle although it is not
  running inside itself. Cause: the chain is one array for all executors of an
  execution, pushed and popped as a stack, so with parallel calls it holds
  strategies that are no ancestors, and a pop removes the wrong one.
  docs/guides/16-strategy-pipelines.md:290 says "The executor maintains a
  `sharedChain: string[]` that tracks ancestor strategy IDs".
* `ApprovedIsWhatRan`, `MCStrategy.cfg` as it is
  (runtime/src/strategy/human-approval-resolver.ts:37). The answer to a request
  that has timed out approves the next attempt. Cause: responses are matched by
  execution and gate, which are the same for every attempt of a node.
  docs/guides/16-strategy-pipelines.md:395 says of the request "GlyphJS content
  summarizing what needs approval".
* `AbortStays`, `MCStrategy.cfg` as it is
  (bridge/src/domains/strategies/strategy-routes.ts:332). An aborted execution
  goes on, and its end overwrites the status. Cause: the continuation of
  execute sets the status without a look at it. The comment of the abort route
  at line 517 says "Sets the execution status to 'failed' with the provided
  reason."
* `InputsDeclared`, `MCStrategy.cfg` as it is
  (methodts/src/strategy/dag-executor.ts:1032). A node reads an artifact of a
  node it does not depend on, if that happened to be done. Cause:
  buildInputBundle takes the latest artifact of each input name from the whole
  store. docs/prds/017-strategy-pipelines.md:401 says "Each node receives only
  the artifacts from its declared dependencies, not all artifacts".
* `OverIsPaid`, `MCStrategy.cfg` as it is
  (methodts/src/strategy/dag-executor.ts:809). What a strategy that failed has
  spent is not counted in the strategy that called it. Cause: a failed call
  throws, and its cost goes with it; rules on total_cost_usd do not see it
  either. docs/prds/017-strategy-pipelines.md:402 says "Strategy execution
  reports total cost in USD".
* `CapacityKept`, `MCPool.cfg` with `MaxBoots = 0`, `Parents = {}`
  (runtime/src/sessions/pool.ts:408). Two creates that wait at the same time
  both register. Cause: create counts the sessions that are not dead, waits
  (spawn_delay_ms, or for the provider), and registers the session after.
  docs/guides/10-bridge-orchestration.md:846 says of MAX_SESSIONS "Max
  concurrent PTY sessions".
* `WholeBudget`, `MCPool.cfg` with `MaxBoots = 0`
  (runtime/src/sessions/pool.ts:719). A root that is resumed starts with an
  empty budget while its agents are still there. Cause: a create without parent
  writes a new chain record, with nothing spawned, over the one the pool has
  for that id, and restoreSession does the same.
  docs/guides/10-bridge-orchestration.md:549 says of max_agents "total agents
  that can be spawned across the chain".
* `BusyIsActive`, `MCPool.cfg` with `MaxBoots = 0`, `Parents = {}`
  (runtime/src/sessions/pool.ts:1103). A session is killed for inactivity while
  it answers a prompt. Cause: lastActivityAt is set when a prompt starts and
  when it ends, so a prompt that takes kill_timeout_ms makes its session
  inactive. docs/guides/10-bridge-orchestration.md:443 says "after 60 minutes
  of inactivity, the session is killed".
* `NoGhosts`, `MCPool.cfg` with `MaxBoots = 0`, `Parents = {}`
  (runtime/src/event-bus/session-checkpoint-sink.ts:85). A session that was
  killed for inactivity stays alive in the file, and a restart puts it back.
  Cause: the automatic kill emits session.stale, which is not among the events
  the checkpoint sink listens to, so the index still has the session as ready.
  docs/prds/029-bridge-resilience.md:327 says of the recovery "Persisted + PID
  dead = mark as `dead`".
* `NoGhosts`, `MCPool.cfg` with `MaxBoots = 0`, `Parents = {}`, `Persistent =
  {a, b}` (runtime/src/sessions/pool.ts:1058). A killed session that had been
  idle is removed before it was saved as dead, and a restart puts it back.
  Cause: removeDead takes lastActivityAt for the time of death (its comment at
  1057 says "Use lastActivityAt as the 'died at' timestamp"), so the session of
  a long idle agent may be removed within the 200 ms in which the checkpoint
  sink waits; the checkpoint finds nothing and the index keeps it alive.
* `RoomAgain`, `MCPool.cfg` with `FairSpec`, `Id = {a}`, `Parents = {}`,
  `Persistent = {}` (bridge/src/startup-recovery.ts:137). Sessions that a
  restart puts back fill the pool for ever. Cause: restoreSession makes every
  session the index has as not dead ready again, without a time limit, so
  nothing ends it. The comment at bridge/src/startup-recovery.ts:133 says
  "Persisted + no live PID = restore as dead (available for resume)".

Two variants that hold: `Detected`, `MCClusterJoining.cfg` with `Node = {a, b}`,
`Found = {a, b}`, `Stopping = {b}`, `Boots = 2`, `Lossy = TRUE`, `SuspectAfter =
2`, `DeadAfter = 3`, `GcAfter = 4`: failures are detected with lost messages and a
restart of the peer (79,823 states). `Reclaimed`, `MCPool.cfg` with `FairSpec`,
`Id = {a}`, `Parents = {}`, `Persistent = {}`, `MaxWaiting = 1`, `MaxBoots = 2`: a
session with a time limit leaves the pool (7,385 states).

## Bounds

Every bound is a constant whose name begins with `Max`, or is named in the
comment of its declaration.

* **Stores.** Two workers, one session (sessions share nothing), two lease
  durations in `SessionStore`, a ring of two with three checkpoints so that it
  overflows, three tokens so that a lease can be taken over twice.
* **JobExecutor.** Two flows: enough for a job and its redelivery, a job and the
  next turn of its chain, or a handler and the observer. Three turns where the chain
  matters, one where only the retries do; all five attempts always.
* **ResumeProtocol.** Two processes, three tokens (one take-over after an expiry,
  one after a death), three checkpoints over a ring of two, two deaths. A lease of
  three ticks with the heartbeat after one is the proportion of the code, a third.
* **CheckpointSink.** Two writes that may overlap, five events: enough for two that
  overlap, one that runs alone and makes good, and a flush beside each.
* **EventLog.** Batches of two (a batch fills up while a flush runs), six events,
  three processes, one failed append. `FirstLife` is the part of a run before
  the first restart.
* **RateGovernor.** Three callers against a cap of one or two; `swept` records
  that the watchdog has taken a slot back, which no code keeps; a window of
  eight ticks with a sleep after two, so that refill by time, by sleep, and
  not at all occur; clocks stop counting at their last interesting value.
* **Membership.** Three nodes, the smallest cluster in which news is second
  hand. The joining run keeps the proportions of the defaults (heartbeat 5 s,
  broadcast 10 s, suspect 15 s, dead 30 s, gone 45 s as 1, 2, 3, 6, 9); the
  others use shorter timeouts, which only makes wrong suspicion easier, and
  ages stop at `GcAfter + 1`. Lost messages are checked with two nodes, where
  the state space allows it. In the package run discovery finds one seed node,
  so the others know each other at second hand from the start; the node that
  may be drained, leave or crash is another one.
* **SessionRecovery.** Two sessions, one the possible parent of the other, in a
  pool of one place, so that every create competes; one session may be resumed
  (`Resumable`), one spawns (`Parents`), one has no time limit (`Persistent`).
  Budget one, a time limit of one tick, removal one tick later, one restart. An
  initial prompt that still runs when its session is replaced under the same id is
  not followed further.
* **StrategyExecutor.** Eight small strategies instead of one large: a gate before
  a check, a call that is repeated, three nodes of one level in chunks of two with
  calls in two of them, a call in a call, a cycle of calls. Nesting up to three;
  one token of cost per call of a model.

`CHECK_DEADLOCK FALSE` is set where a bound or the system itself stops: a
session that is over, a process that ends, a clock at its bound, a cluster of
nodes that have all gone.

## Fairness

* `JobExecutor`: weak fairness of each handler's next step (promises settle),
  of delivery (the platform is at-least-once), and of lease expiry (a clock).
  Nothing is assumed of crashes, failures or the deadline.
* `EventLog`: timers fire, file operations return, with or without success;
  failures are bounded.
* `RateGovernor`: time passes, callers call, retry and release. Neither
  `Poll`, nor the giving up of a waiter, nor the watchdog is assumed.
* `ResumeProtocol`: time passes and interval timers fire.
* `StrategyExecutor`: what a node calls answers or throws, a request for approval
  times out, and the executor goes on; a human need not answer.
* `SessionRecovery` (only for `Reclaimed` and `RoomAgain`): time passes, the timers
  of the bridge and both debounces fire, and a bridge that starts runs its recovery,
  as server-entry.ts does; nothing is assumed of agents and requests.
* `Membership`: time passes and interval timers fire, and a node that leaves
  gets through its list. Nothing is assumed of starts, crashes or operators,
  nor of messages: a lossy network may lose all.

## What is proved

`SessionStoreProofs` proves of `SessionStore`, for all sessions, workers, lease
durations, ring sizes and bounds:

* `TypeCorrect`: `Spec => []TypeOK`;
* `LeaseExclusionHolds`: `Spec => []LeaseExclusion`;
* `RingIsNewestHolds`: `Spec => []RingIsNewest`;
* `FencingOrderHolds`: `Spec => []FencingOrder`;
* `ContractImplemented`: `Spec => ImplementsContract`, the store implements the
  contract of the port.

The assumptions are those of `SessionStore`: lease durations and the ring size
are positive, the bounds are natural numbers, and the two values for "no
lease" and "no session" are none themselves.

`LeaseExclusion` is not inductive: a state in which a session's lease carries a
token that belongs to another session, or whose holder was told a later expiry
than the store remembers, satisfies it and steps out of it by an expiry or a
renewal. `LeaseIssued` rules these out, and `IInv == TypeOK /\ LeaseIssued /\
LeaseExclusion` is inductive: an `Acquire` happens only when the old lease is
dead, and then by `LeaseIssued` its holder was told no later expiry, so nobody
else believes. The ring properties need in addition that authors in the ring
are issued tokens (`AuthorsIssued`), whence a new token is larger than all of
them; `RingInv` is inductive relative to `IInv`. The proof has one lemma per
action and invariant, and two about `Retain`.

The refinement goes by what the contract sees of one session: `OwnerOf`,
`NewestOf`, `TrustingIn`, `HeadOf`. One group of lemmas turns a change of these
for one session, with all others the `Same`, into a step of `SessionLease`; the
other group says how each action changes them. `create` is a stutter, a tick is
`Lapse`, a refetch or a renewal is `Confirm` (or a stutter, if the caller has
given the lease back), `Acquire` is `Grant`, a release, a finalize and the
clearing of a dead lease are `Disown` (a release under a token the store no
longer knows is a stutter), an append is `Write`, destroy is `Forget`. `IInv` is needed to know that
whoever trusts is the stored owner, `RingInv` that the last checkpoint of the
ring carries the latest sequence, and `NewestExists` that the newest token of a
session, defined by CHOOSE, exists; it is carried along as an invariant, which
spares an induction over the set of its tokens.

`CortexProofs` proves, for every set of callers, every ring, lease, bound and number
of checkpoints, but under `Serial` (a call ends, or its process dies in it, before the
next begins): `NewestIsReadable` (`Spec => LatestReadable`), `ContractImplemented`
(`Spec => ImplementsContract`), `TypeCorrect`, and `ExclusiveLease` and
`NothingForgotten`, for two properties that [fail without
`Serial`](#why-the-conditions-are-needed). The envelope's put is the last write of a
call (`SnapshotLast`), and nobody else writes meanwhile (`OneCall`), so `PutSound` can
say of a call under way what its put will do to the envelope it will find: create it,
clear the lease, put a lease, or add the next checkpoint. The put of a new lease waits
while nobody trusts in an old one, and is the step at which the contract sees a
`Grant`; the writes before a put are stutters, a call that begins is at most a
`Lapse`. `LeaseTold` and `OwnerTrusted` are as in the other stores.
For `NewestIsReadable` three things are needed of the writes that still wait: an
append saves its checkpoint before its put (`SavesFirst`), what it evicts is older
than the newest one (`EvictsOlder`, in a ring of two or more), and the deletes of a
destroy end with the envelope's (`DropsAll`).

`RateGovernorProofs` proves, for every set of callers, every cap, capacity, window
and weekly limit: `TypeCorrect`, `CapHolds` (`Spec => []CapUnlessSwept`) and
`NoSlotLeaks` (`Spec => []NothingLeaks`). `CapUnlessSwept` counts the slots on the
books, while the code counts in the bucket, so the invariant relates the two:
`BooksMatch` (until a sweep, whoever runs is on the books, and the bucket counts no
less), `SlotsAreRunning`, and `OnceInQueue`, without which one `signal` could wake a
caller that is queued a second time. A grant is given only below the cap, and the
bucket's count is at least the slots, so the slots stay below the cap; a release
lowers both.

`BridgeProofs` proves of `CheckpointSink`, for any number of events and of writes that
overlap and fail: `QuietIsCheckpointed` and `FlushSaves`. A write that runs alone is
the only one and the one that `flush` knows, and where nothing has gone wrong since
one was stored every write under way runs alone (`AloneIsOnly`). It will use the next
sequence, and will store all that the timer does not still hold, all that a flush
under way is to save and all that one has promised (`AloneWillStore`): the invariant
must speak of it also when `clean` is false, since it is the write that makes the sink
clean again. A flush that waits for nothing more has its events stored (`FlushWaits`).
That nothing else can be said of overlapping writes is told
[above](#why-the-conditions-are-needed): a checkpoint may be older than the one before
it.

It proves of `EventLog`, for every number of events, processes and failing calls and
every batch size: `NumbersGoOn` (`Spec => []FreshSequence`) when the replay window
covers the whole log (`FullWindow`; a shorter one forgets the highest number), and, of
the first process, `FirstLogIsOrdered` (`Spec => []OrderedInOneLife`) and
`FirstLogIsComplete` (`Spec => []CompleteInOneLife`) when a batch has two or more
events and no flush comes before the replay (`~SlowStart`). Without these two
conditions the event with which the process starts may be in the log before the log is
replayed, and would be fed to the sink again. `SeenIsNumbered` says that every event
in the log or the sink carries a number the bus has given out, which is what a replay,
in whatever order, keeps; `FirstLifeInOrder` that the log, the batch under way and the
buffer, put one behind the other, are all events emitted so far in their order
(`Numbered`), which a failed append keeps because it puts the batch back in front. A
replay is a fold of `OnEvent` over the log; that a fold stays in a set of sink states
which every step stays in (`FoldStays`) is proved from the definition of the fold by
an induction over the length of the list, whose hypothesis is a set of numbers.

It proves of `Membership`, for every finite set of nodes, `RunnersAreNotSuspected`
(`Spec => []NoFalseSuspicion`) under `Unhurried`: no message is lost, broadcasts are
taken in as the bridge does, the timeout of suspicion is longer than the period of the
broadcasts, and either no node stops or every node is discovered. `NewsInTime` is the
argument: if the peer knows the node, its next ping comes while the news is no older
than `SyncEvery + 1` periods; if it does not, the node's own next broadcast makes the
peer learn of it, and refreshes both. `UnknownUntilUp` says that where no node stops
nobody is known before it has started. Each condition is needed: with a timeout equal
to the period, or with one seed node and another that stops and starts again, TLC
finds a running node suspected.

`JobExecutorProofs` proves, for every number of flows, turns, attempts and failing
calls: `TypeCorrect`; `SessionIsNeverStranded` (`Spec => []NeverStranded`) under
`Apart` (no process crashes, or none has two flows), for any number of crashes and
repeated deliveries; and, under `OneAtATime` (one process, no crash, no visibility
timeout), `LeaseIsReturned`, `DeadLettersAreMarked` and `ChainIsOne`. For
`NeverStranded`, `Going` says who goes on: the platform with a job, a flow whose job
comes back if it fails, or one that has nothing left but to mark the session; and
`Marking`, that a process which remembers an emission is about to mark the session, so
that a delivery which it acknowledges for that reason leaves one that goes on. This is
what fails with two flows in a process that dies. The other three follow one token:
`OneChain` says that of all jobs with the platform and all flows that will still act,
there is one at most, so whoever holds it is the only one to change the session.
`NothingAtEnds` says that no token is left once the session completed, `OutcomesAgree`
that a flow's next step is the one its turn's outcome asks for, and
`EmissionRemembered` that the process remembers the emission. What happens without
`OneAtATime` is told [above](#why-the-conditions-are-needed).

`ResumeProofs` proves, for every number of processes, tokens, checkpoints and deaths,
when only the holder ends a session (`FencedEnd`): `TurnsKeepTheirLease` (`Spec =>
[]TurnKeepsLease`, if the heartbeat's lower bound is no more than a third of the lease;
of the clamp nothing else is used), `ResumeIsNeverOlder` (`Spec => NeverOlder`) and `ContractImplemented`
(`Spec => ImplementsContract`, for a ring of two or more: with a ring of one, an append
cut short would push the acknowledged checkpoint out). `LeaseInv` says that the lease
names the process that works with its token and lasts exactly as long as that process
was told (`HandlesMatch`), and that who was told of a lease has it (`ToldIsTrue`); so two
processes never both hold it (`Alone`), a release or an end takes it from nobody else,
and a take-over finds nobody who trusts. `BeatInTime` keeps the next heartbeat before
the expiry: it holds at the start because the turn is not `late`, a tick takes one from
both, and a beat finds the lease alive. `RingInOrder` and `LatestInRing` say where in the
file the acknowledged checkpoint is, if the file has any, so that the mapping's CHOOSE
finds the same one after an append that was cut short.

`SessionRecoveryProofs` proves, for every number of sessions, places, agents, prompts
and restarts: `TypeCorrect`, `CapIsKept` (`Spec => CapUnlessCrossed`),
`BudgetCountsTheChain` (`Spec => []ChainBudget`), `QuietIsSaved` and
`TheKilledStayKilled`. `RoomIsLeft` says that a create which nobody came in behind
still has the place it checked for; whoever registers or restores marks all others as
crossed. `FileIsIndex` and `IndexKnows` relate file, index and pool by their two
debounces. `KillIsKept` is the strengthening that `KilledStaysKilled` needs: a killed
session either still waits for its checkpoint and is in the pool, or neither the index
nor, with nothing to write, the file takes it for live, so that a restart, which reads
one of them or nothing, restores it only if discovery finds its process; a failed
write leaves the index to be written again, and of a process that ends only those
kills count further that had reached the file. Kills by time limit, and sessions
removed before their checkpoint, are not among the `ended`: what becomes of them is
told [above](#why-the-conditions-are-needed) (`NoGhosts`).

For `ChainBudget` a whole chain is one whose members are linked each to its parent,
whose climb ends (`getRootBudget` is a recursive function in the model, and that it
reaches the root is an induction along the chain), and whose root is in the pool. Then
every spawn adds one member and one to the root's count. The proof found a model that
was too generous: with three ids a parent may be resumed, or restored by a restart,
behind a child that still names it, and two chains become one whose root has counted
only its own. Such a chain is not whole, as one that has lost a member is not; the run
has two ids, too few to show it.

`StrategyProofs` proves, for every finite set of nodes, every set of strategies with
their graphs, gates, retries and calls, every `maxParallel` and every depth:
`ApprovalIsNeeded`, `CyclesAreDetected`, `CompletedStrategiesArePaid` and
`OverMeansQuiet`. The tree of runs (`Tree`, `Shape`) says that a run below another is
there because a node of that other is inside it, so that when the root is gone nothing
is left; `SessionsApart`, that no two runs share a session, neither one they have nor
one of which a request was made, and nobody is asked about an attempt not made yet, so
that an approval is of an attempt of that run. `Straight`
says that as long as no strategy was called beside another one the shared chain is the
list of the runs from the root down, whence the strategies on it are exactly those
that are being run. `Booked` adds up: the cost of a run that has ended, and of one
that goes on, together with what its nodes will still report, is what was spent below
it. The sums over finite sets are treated by the least number for which a claim would
fail.

## What is only model-checked

* Liveness (`Settles`, `Converges`, `Detected`, `Terminates`, `OrphanLapses`): the
  prover does not reason about fairness and ENABLED.
* `DeadStaysDead` of `Membership`. One node's dead peer comes back to life when
  another node's news of it is later and still alive, so the views must be closer in
  age than the time from suspicion to death. In the run one node stops, once; with
  four nodes, or two seeds, TLC finds the same. But with timeouts as short as the
  run's, two nodes that stop are enough to break it: a node that is leaving, which its
  peers have forgotten and do not ping, holds older news than they do, takes the peer
  for dead and hears from them that it is alive. How far apart the timeouts must be in
  a cluster of any size is open.
* The conditions of the proofs are those of the runs, or weaker: what a component does
  beyond them is told [above](#why-the-conditions-are-needed).
* What the prover cannot take is a library theorem with an operator for a parameter;
  where an induction is needed its hypothesis is a set (`NatInductionSet`).
* Every module has a `TypeOK`; outside the proofs it is an invariant of no run but
  `MCSessionStore`, and is there for the reader and for checks by hand.

## What is not modelled

Schema versions, fingerprints, envelope sizes and other checks that only
refuse; the contents of snapshots, events and messages; token weights of the
router; clock skew between nodes (all clocks agree, so `mergeState` compares
like with like); more than one session per store, executor or sink; nicknames, worktrees,
scope hooks, cognitive sessions and the spawn queue of the pool; transcripts in the
recovery, and how native discovery finds a process; parsing,
validation and retrospectives of strategies, the eviction from the bridge's table
of executions, and the older semi-formal strategies of `methodts`. A draining peer that dies is
never swept; it is no candidate for work, and no document says when it should
be removed, so no property speaks of it. Of the
other components: channels, build orchestrator, triggers, projections, federation
and cortex events are planned below; providers, tools, the HTTP and
user-interface layers and the pure libraries have no state that outlives an
await, or only pass calls on.

## Plan

1. *Done*: the session stores with their contract; resume and heartbeat over the
   file-system store; the executor; the checkpoint sink; the event log; the
   governor; the membership; the pool with its recovery; strategies. Proofs for
   the three session stores, the refinement of the contract included, for the
   governor, the sink, the event log, the membership, the executor, the recovery of
   the pool, and strategies: every invariant that a run checks.
2. *Sinks and channels*: the bounded buffers and cursors of the channels, the
   retries of the webhook, as further sinks of the bus of `EventLog`.
3. *Triggers*: debounce windows, queues and concurrency limits of the router.
4. *Recovery of read models*: projections with snapshots and replay against a
   fold over the whole log; build orchestrator checkpoints.
5. *Cluster*: federation as relay between `Membership` views; the router's score.
6. *Cortex events*: publication with buffer, retry and rate limit.
7. *Proofs*: `DeadStaysDead`, from a bound on how far views differ in age; weaker
   conditions than one call or one process at a time, where promises survive them.
