----------------------------- MODULE JobExecutor -----------------------------
(***************************************************************************)
(* The job-backed executor of a session's turns                            *)
(* (runtime/src/executors/cortex-job-backed-executor.ts) and the observer  *)
(* of the platform's dead-letter queue (runtime/src/dlq), for one session. *)
(*                                                                         *)
(* A turn travels as an envelope through the platform's job queue, which   *)
(* delivers at least once: a job whose handler rejects, or whose process   *)
(* dies, or whose visibility runs out, comes again with the next attempt   *)
(* number, until the platform gives up and moves it to its own dead-letter *)
(* queue.  A flow is one activation of the handler (or of the observer) in *)
(* a process; the code between two awaits is one step, so flows of one     *)
(* process interleave as well.                                             *)
(*                                                                         *)
(* A scheduled tick is a job without a session: each delivery draws an id, *)
(* which no store knows.  The session is then that of one delivery.        *)
(*                                                                         *)
(* The session store is taken at its word here: each of its operations is  *)
(* one step (see SessionStore).                                            *)
(***************************************************************************)
EXTENDS Naturals, FiniteSets

CONSTANTS
    Flow,            \* handler activations
    Proc(_),         \* the process (and worker id) a flow runs in
    MaxTurn,         \* the turn on which the pact yields no more
    MaxAttempt,      \* the platform's last attempt number
    MaxCrash,        \* bound on process crashes
    MaxRedeliver,    \* bound on visibility timeouts
    MaxFail,         \* bound on store and queue calls that fail
    NoLease

ASSUME ExecutorAssumption ==
    /\ IsFiniteSet(Flow)
    /\ {MaxTurn, MaxAttempt, MaxCrash, MaxRedeliver, MaxFail} \subseteq Nat

VARIABLES
    started,         \* start() has enqueued the first envelope
    status,          \* the session's status in the store
    lease,           \* the session's lease
    queue,           \* jobs waiting for delivery
    dlq,             \* jobs the platform has given up
    flow,            \* what each activation is doing
    dlqEmitted,      \* per process: the executor's set has the session
    events,          \* PactDeadLetterEvents emitted, by executor and observer, up to three
    executed,        \* how often the runner ran each turn, at most twice counted
    processed,       \* turns whose outcome was carried through
    pastDeadline,    \* the budget's expiresAt has been reached
    faults           \* crashes, visibility timeouts and failed calls so far

vars == <<started, status, lease, queue, dlq, flow, dlqEmitted, events, executed, processed,
          pastDeadline, faults>>

Turn == 0 .. MaxTurn
Process == {Proc(f) : f \in Flow}
Job == [turn : Turn, attempt : 0 .. MaxAttempt]
Terminal == {"completed", "failed"}

Step == {"load", "resume", "run", "release", "enqueue", "finalize",
         "dlqLoad", "dlqFinalize", "observe", "echo", "ack"}

\* `outcome' is what the runner did, or why the flow is there; `superseded': the
\* platform has already delivered the job again.
Activation == [pc : Step, job : Job, token : 0 .. Cardinality(Flow) + 1,
               outcome : {"none", "throw", "yield", "complete", "dead_letter", "expired", "observer"},
               superseded : BOOLEAN]

Idle == [pc |-> "idle"]

TypeOK ==
    /\ started \in BOOLEAN
    /\ status \in {"absent", "initializing"} \cup Terminal
    /\ lease \in [worker : Process, token : 1 .. Cardinality(Flow) + 1] \cup {NoLease}
    /\ queue \in [Job -> Nat]
    /\ dlq \in [Job -> Nat]
    /\ flow \in [Flow -> Activation \cup {Idle}]
    /\ dlqEmitted \in [Process -> BOOLEAN]
    /\ events \in 0 .. 3
    /\ executed \in [Turn -> 0 .. 2]
    /\ processed \subseteq Turn
    /\ pastDeadline \in BOOLEAN
    /\ faults \in [crash : 0 .. MaxCrash, redeliver : 0 .. MaxRedeliver,
                  fail : 0 .. MaxFail]

Init ==
    /\ started = FALSE
    /\ status = "absent"
    /\ lease = NoLease
    /\ queue = [j \in Job |-> 0]
    /\ dlq = [j \in Job |-> 0]
    /\ flow = [f \in Flow |-> Idle]
    /\ dlqEmitted = [p \in Process |-> FALSE]
    /\ events = 0
    /\ executed = [t \in Turn |-> 0]
    /\ processed = {}
    /\ pastDeadline = FALSE
    /\ faults = [crash |-> 0, redeliver |-> 0, fail |-> 0]

-----------------------------------------------------------------------------

At(f, pc) == flow[f].pc = pc

Goto(f, pc) == flow' = [flow EXCEPT ![f].pc = pc]

Leave(f) == flow' = [flow EXCEPT ![f] = Idle]

Add(jobs, j) == [jobs EXCEPT ![j] = @ + 1]
Remove(jobs, j) == [jobs EXCEPT ![j] = @ - 1]

LostJob(j) == queue

\* A job comes back after a failed delivery: to the queue with the next attempt
\* number, or to the dead-letter queue after the last.  A tick that comes back is
\* another session's.
ComesBack(j) == status # "absent" /\ j.attempt < MaxAttempt
Requeued(j) == IF ComesBack(j) THEN Add(queue, [j EXCEPT !.attempt = @ + 1]) ELSE queue
GivenUp(j) == IF status = "absent" \/ ComesBack(j) THEN dlq ELSE Add(dlq, j)

\* The handler's promise rejects.
Reject(f) ==
    /\ Leave(f)
    /\ queue' = IF flow[f].superseded THEN queue ELSE Requeued(flow[f].job)
    /\ dlq' = IF flow[f].superseded THEN dlq ELSE GivenUp(flow[f].job)

SilentEntry(f) == IF dlqEmitted[Proc(f)] THEN "ack" ELSE "dlqFinalize"

\* The entry of emitInlineDeadLetter: the in-process guard is read before any
\* await, the flag is set only after the snapshot was loaded.
DlqEntry(f) == IF dlqEmitted[Proc(f)] THEN "ack" ELSE "dlqLoad"

\* start: the record, then the first envelope.
Create ==
    /\ status = "absent" /\ ~ started
    /\ status' = "initializing"
    /\ UNCHANGED <<started, lease, queue, dlq, flow, dlqEmitted, events, executed, processed,
                   pastDeadline, faults>>

FirstJob == [turn |-> 0, attempt |-> 0]

EnqueueAgain ==
    /\ status # "absent"
    /\ started' = TRUE
    /\ queue' = Add(queue, FirstJob)
    /\ UNCHANGED <<status, lease, dlq, flow, dlqEmitted, events, executed, processed,
                   pastDeadline, faults>>

EnqueueFirst ==
    /\ status # "absent"
    /\ ~ started
    /\ started' = TRUE
    /\ queue' = Add(queue, FirstJob)
    /\ UNCHANGED <<status, lease, dlq, flow, dlqEmitted, events, executed, processed,
                   pastDeadline, faults>>

\* The platform's scheduler makes a job.
Tick ==
    /\ status = "absent"
    /\ ~ started
    /\ started' = TRUE
    /\ queue' = Add(queue, FirstJob)
    /\ UNCHANGED <<status, lease, dlq, flow, dlqEmitted, events, executed, processed,
                   pastDeadline, faults>>

\* The deadline of a tick begins with its delivery.
Expired == pastDeadline /\ status # "absent"

\* dispatch, up to its first await: an expired budget is terminal.
Deliver(f, j) ==
    /\ At(f, "idle")
    /\ queue[j] > 0
    /\ queue' = Remove(queue, j)
    /\ flow' = [flow EXCEPT ![f] =
                  [pc |-> IF Expired THEN DlqEntry(f) ELSE "load", job |-> j, token |-> 0,
                   outcome |-> IF Expired THEN "expired" ELSE "none", superseded |-> FALSE]]
    /\ UNCHANGED <<started, status, lease, dlq, dlqEmitted, events, executed, processed,
                   pastDeadline, faults>>

AcknowledgedWhenRun(turn) == executed[turn] > 0

\* The turn recorded as acknowledged: start writes -1, and completeTurn computes
\* a new value without storing it, so none ever is.
Acknowledged(turn) == FALSE

\* What the snapshot says: a session nobody knows is dead-lettered, an acknowledged
\* turn and a terminal session are skipped.
AfterLoad(f) ==
    CASE status = "absent" -> DlqEntry(f)
      [] status \in Terminal \/ Acknowledged(flow[f].job.turn) -> "ack"
      [] OTHER -> "resume"

Load(f) ==
    /\ At(f, "load")
    /\ Goto(f, AfterLoad(f))
    /\ UNCHANGED <<started, status, lease, queue, dlq, dlqEmitted, events, executed, processed,
                   pastDeadline, faults>>

\* A token nobody has.
FreshToken ==
    CHOOSE t \in 1 .. Cardinality(Flow) + 1 :
        \A f \in Flow : ~ At(f, "idle") => flow[f].token # t

\* store.resume: FENCED rejects the delivery, the same worker gets the same token.
Resume(f) ==
    /\ At(f, "resume")
    /\ IF lease # NoLease /\ lease.worker # Proc(f)
       THEN Reject(f) /\ UNCHANGED lease
       ELSE LET token == IF lease = NoLease THEN FreshToken ELSE lease.token IN
            /\ lease' = [worker |-> Proc(f), token |-> token]
            /\ flow' = [flow EXCEPT ![f] = [@ EXCEPT !.pc = "run", !.token = token]]
            /\ UNCHANGED <<queue, dlq>>
    /\ UNCHANGED <<started, status, dlqEmitted, events, executed, processed, pastDeadline, faults>>

\* The runner's turn, with whatever outcome.
Run(f, outcome) ==
    /\ At(f, "run")
    /\ outcome = "yield" => flow[f].job.turn < MaxTurn
    /\ executed' = [executed EXCEPT ![flow[f].job.turn] = IF @ < 2 THEN @ + 1 ELSE 2]
    /\ flow' = [flow EXCEPT ![f] = [@ EXCEPT !.pc = "release", !.outcome = outcome]]
    /\ UNCHANGED <<started, status, lease, queue, dlq, dlqEmitted, events, processed, pastDeadline, faults>>

\* The attempt at which a throwing turn is given up by the handler itself.
FinalAttempt(attempt) == attempt >= 3

\* What follows the release of the lease; a throw before the final attempt
\* rejects the delivery.
AfterRelease(f) ==
    CASE flow[f].outcome = "yield" -> "enqueue"
      [] flow[f].outcome = "complete" -> "finalize"
      [] OTHER -> DlqEntry(f)

FreedUnlessThrow(f) ==
    IF lease # NoLease /\ lease.token = flow[f].token /\ flow[f].outcome # "throw"
    THEN NoLease ELSE lease

\* The lease once the flow has released its token.
Freed(f) == IF lease # NoLease /\ lease.token = flow[f].token THEN NoLease ELSE lease

Released(f) ==
    /\ At(f, "release")
    /\ IF flow[f].outcome = "throw" /\ ~ FinalAttempt(flow[f].job.attempt)
       THEN Reject(f)
       ELSE Goto(f, AfterRelease(f)) /\ UNCHANGED <<queue, dlq>>

Release(f) ==
    /\ Released(f)
    /\ lease' = Freed(f)
    /\ UNCHANGED <<started, status, dlqEmitted, events, executed, processed, pastDeadline, faults>>

NextTurn(j) == [turn |-> j.turn + 1, attempt |-> 0]

\* enqueueNext.
Enqueue(f) ==
    /\ At(f, "enqueue")
    /\ queue' = Add(queue, NextTurn(flow[f].job))
    /\ processed' = processed \cup {flow[f].job.turn}
    /\ Goto(f, "ack")
    /\ UNCHANGED <<started, status, lease, dlq, dlqEmitted, events, executed, pastDeadline, faults>>

\* store.finalize('completed') clears whatever lease there is.
Finalize(f) ==
    /\ At(f, "finalize")
    /\ status' = "completed"
    /\ lease' = NoLease
    /\ processed' = processed \cup {flow[f].job.turn}
    /\ Goto(f, "ack")
    /\ UNCHANGED <<started, queue, dlq, dlqEmitted, events, executed, pastDeadline, faults>>

\* The executor remembers that it has emitted.
Marked(p) == [dlqEmitted EXCEPT ![p] = TRUE]

Emit == events' = IF events < 3 THEN events + 1 ELSE 3

\* emitInlineDeadLetter after its load: no code writes the durable flag the
\* snapshot is asked for, so it emits.
DlqLoad(f) ==
    /\ At(f, "dlqLoad")
    /\ dlqEmitted' = Marked(Proc(f))
    /\ Emit
    /\ Goto(f, "dlqFinalize")
    /\ UNCHANGED <<started, status, lease, queue, dlq, executed, processed, pastDeadline, faults>>

\* An event that emitInlineDeadLetter returns the observer emits once more.
AfterEmission(f) == IF flow[f].outcome = "observer" THEN "echo" ELSE "ack"

\* finalize throws, and is given up, when the store does not know the session.
DlqFinalize(f) ==
    /\ At(f, "dlqFinalize")
    /\ status' = IF status = "absent" THEN "absent" ELSE "failed"
    /\ lease' = NoLease
    /\ Goto(f, AfterEmission(f))
    /\ UNCHANGED <<started, queue, dlq, dlqEmitted, events, executed, processed, pastDeadline, faults>>

Echo(f) ==
    /\ At(f, "echo")
    /\ Emit
    /\ Goto(f, "ack")
    /\ UNCHANGED <<started, status, lease, queue, dlq, dlqEmitted, executed, processed,
                   pastDeadline, faults>>

\* Whether the handler tells the platform to dead-letter the job.
Signals(f) == flow[f].outcome = "throw"

\* The handler returns.
Ack(f) ==
    /\ At(f, "ack")
    /\ Leave(f)
    /\ dlq' = IF Signals(f) THEN Add(dlq, flow[f].job) ELSE dlq
    /\ UNCHANGED <<started, status, lease, queue, dlqEmitted, events, executed, processed,
                   pastDeadline, faults>>

\* The observer: isDlqEmitted's set, then (observe) its look at the status.
Observe(f, j) ==
    /\ At(f, "idle")
    /\ dlq[j] > 0
    /\ dlq' = Remove(dlq, j)
    /\ flow' = [flow EXCEPT ![f] =
                  [pc |-> IF dlqEmitted[Proc(f)] THEN "ack" ELSE "observe", job |-> j, token |-> 0,
                   outcome |-> "observer", superseded |-> FALSE]]
    /\ UNCHANGED <<started, status, lease, queue, dlqEmitted, events, executed, processed,
                   pastDeadline, faults>>

ObserveLoad(f) ==
    /\ At(f, "observe")
    /\ Goto(f, IF status = "failed" THEN "ack" ELSE DlqEntry(f))
    /\ UNCHANGED <<started, status, lease, queue, dlq, dlqEmitted, events, executed, processed,
                   pastDeadline, faults>>

-----------------------------------------------------------------------------
(* The environment. *)

\* A job is delivered again while its first delivery is still being handled.
Redeliver(f) ==
    /\ faults.redeliver < MaxRedeliver
    /\ ~ At(f, "idle")
    /\ flow[f].outcome # "observer"
    /\ ~ flow[f].superseded
    /\ ComesBack(flow[f].job)
    /\ queue' = Requeued(flow[f].job)
    /\ flow' = [flow EXCEPT ![f].superseded = TRUE]
    /\ faults' = [faults EXCEPT !.redeliver = @ + 1]
    /\ UNCHANGED <<started, status, lease, dlq, dlqEmitted, events, executed, processed, pastDeadline>>

\* The jobs of a process that dies come back, unless the platform has delivered
\* them again already; what the observer had in hand is still a dead letter.
HandledBy(p) == {f \in Flow : Proc(f) = p /\ ~ At(f, "idle") /\ ~ flow[f].superseded}
BackInQueue(p, j) ==
    {f \in HandledBy(p) : /\ flow[f].outcome # "observer" /\ ComesBack(flow[f].job)
                          /\ [flow[f].job EXCEPT !.attempt = @ + 1] = j}
BackInDlq(p, j) ==
    {f \in HandledBy(p) : /\ flow[f].outcome = "observer" \/ ~ (status = "absent" \/ ComesBack(flow[f].job))
                          /\ flow[f].job = j}

Crash(p) ==
    /\ faults.crash < MaxCrash
    /\ \E f \in Flow : Proc(f) = p /\ ~ At(f, "idle")
    /\ dlqEmitted' = [dlqEmitted EXCEPT ![p] = FALSE]
    /\ flow' = [f \in Flow |-> IF Proc(f) = p THEN Idle ELSE flow[f]]
    /\ queue' = [j \in Job |-> queue[j] + Cardinality(BackInQueue(p, j))]
    /\ dlq' = [j \in Job |-> dlq[j] + Cardinality(BackInDlq(p, j))]
    /\ faults' = [faults EXCEPT !.crash = @ + 1]
    /\ UNCHANGED <<started, status, lease, events, executed, processed, pastDeadline>>

\* A call fails without effect.  The handler rejects with it, except where it
\* catches: a release is given up, an unreadable snapshot counts as one that is
\* not failed, and a failed session stays unmarked.
CallFails(f) ==
    /\ faults.fail < MaxFail
    /\ faults' = [faults EXCEPT !.fail = @ + 1]
    /\ \/ /\ flow[f].pc \in {"load", "resume", "enqueue", "finalize"}
          /\ Reject(f)
       \/ Released(f)
       \/ At(f, "observe") /\ Goto(f, DlqEntry(f)) /\ UNCHANGED <<queue, dlq>>
       \/ At(f, "dlqFinalize") /\ Goto(f, AfterEmission(f)) /\ UNCHANGED <<queue, dlq>>
    /\ UNCHANGED <<started, status, lease, dlqEmitted, events, executed, processed, pastDeadline>>

\* The lease's time to live runs out: nothing renews it during a turn.
Expire ==
    /\ lease # NoLease
    /\ lease' = NoLease
    /\ UNCHANGED <<started, status, queue, dlq, flow, dlqEmitted, events, executed, processed,
                   pastDeadline, faults>>

Deadline ==
    /\ ~ pastDeadline
    /\ pastDeadline' = TRUE
    /\ UNCHANGED <<started, status, lease, queue, dlq, flow, dlqEmitted, events, executed, processed,
                   faults>>

Handle(f) ==
    \/ Load(f) \/ Resume(f) \/ Release(f) \/ Enqueue(f) \/ Finalize(f)
    \/ DlqLoad(f) \/ DlqFinalize(f) \/ ObserveLoad(f) \/ Echo(f) \/ Ack(f)
    \/ \E outcome \in {"throw", "yield", "complete", "dead_letter"} : Run(f, outcome)

Receive == \E f \in Flow, j \in Job : Deliver(f, j) \/ Observe(f, j)

Next ==
    \/ Create \/ EnqueueFirst \/ Tick \/ Receive \/ Expire \/ Deadline
    \/ \E f \in Flow : Handle(f) \/ Redeliver(f) \/ CallFails(f)
    \/ \E p \in Process : Crash(p)

Spec == Init /\ [][Next]_vars

\* Handlers run to their end, and the platform delivers what it holds.
Fairness == WF_vars(Receive) /\ WF_vars(Expire) /\ \A f \in Flow : WF_vars(Handle(f))

FairSpec == Spec /\ Fairness

-----------------------------------------------------------------------------

Quiet == \A f \in Flow : At(f, "idle")

\* The flow has still something to do for the session, or a job of it to give up.
Acts(f) == ~ At(f, "idle") /\ (At(f, "ack") => Signals(f))

\* The jobs with the platform.
Held(j) == queue[j] + dlq[j]

\* The session was begun and has not ended, and every call has succeeded.
Underway == started /\ status = "initializing" /\ faults.fail = 0

\* At most one PactDeadLetterEvent is emitted for the session (G-DLQ-SINGLE-EMIT): the
\* code does not keep it.
SingleEmit == events <= 1

\* A turn whose outcome was carried through is never run again (G-IDEMPOTENCY): the code
\* does not keep it.
NotReexecuted == [][ \A t \in processed : executed'[t] = executed[t] ]_vars

\* A session that completed is not dead-lettered later: the code does not keep it.
CompletedStays == [][ status = "completed" => status' = "completed" ]_vars

\* A turn that throws is dead-lettered only when the platform has no attempt left.
RetriesUsed ==
    \A f \in Flow : At(f, "dlqLoad") /\ flow[f].outcome = "throw"
                      => flow[f].job.attempt = MaxAttempt

\* As long as every call succeeds, a lease is always some live flow's to give
\* back: no return path of the handler forgets it (dispatch, completeTurn).
LeaseReturned ==
    (faults.fail = 0 /\ lease # NoLease) =>
        \E f \in Flow : (At(f, "run") \/ At(f, "release")) /\ flow[f].token = lease.token

\* When all is handled, a dead letter was emitted exactly if the session is
\* marked failed: emission and finalization go together (ports/dlq-observer.ts).
\* A tick has no session that could be marked.
DeadLetterMeansFailed ==
    (Quiet /\ status # "absent" /\ \A j \in Job : queue[j] = 0 /\ dlq[j] = 0)
        => (events > 0 <=> status = "failed")

\* As long as every call succeeds, they do.
DeadLettersMatch == faults.fail = 0 => DeadLetterMeansFailed

\* A session that was begun and has not ended is never left without anybody who will
\* go on with it: the platform holds a job of it, or a flow is about to act; whatever
\* crashes, comes again, is fenced off or runs out of attempts between the handler's
\* steps, as long as no call fails (dispatch, completeTurn, enqueueNext, onDeadLetter).
NeverStranded ==
    Underway => (\E j \in Job : Held(j) > 0) \/ (\E f \in Flow : Acts(f))

\* The turns of a session form one chain: never two jobs that are both alive.
OneContinuation ==
    LET waiting == {j \in Job : queue[j] > 0}
        handled == {f \in Flow : ~ At(f, "idle") /\ ~ At(f, "ack") /\ flow[f].outcome # "observer"}
    IN  /\ \A j \in waiting : queue[j] = 1
        /\ Cardinality(waiting) + Cardinality(handled) <= 1

\* One process, which does not crash, and no visibility timeout: the platform
\* delivers the next job when the one before it has been handled.
OneAtATime == MaxCrash = 0 /\ MaxRedeliver = 0 /\ \A f, g \in Flow : Proc(f) = Proc(g)

Turning == {"load", "resume", "run", "release", "enqueue", "finalize"}

\* There is one chain: a job of the platform or a flow, never two.
OneChain ==
    /\ \A j \in Job : Held(j) <= 1
    /\ \A j, k \in Job : Held(j) > 0 /\ Held(k) > 0 => j = k
    /\ \A f, g \in Flow : Acts(f) /\ Acts(g) => f = g
    /\ \A f \in Flow, j \in Job : Acts(f) => Held(j) = 0

\* Before the first envelope there is nothing, and after completion nothing is left.
NothingAtEnds ==
    /\ ~ started => processed = {} /\ events = 0 /\ status # "completed"
    /\ ~ started \/ status = "completed" =>
           (\A j \in Job : Held(j) = 0) /\ (\A f \in Flow : ~ Acts(f))

\* What a flow does next agrees with what the runner said.
OutcomesAgree ==
    \A f \in Flow :
        /\ flow[f].pc \in {"load", "resume", "run"} => flow[f].outcome = "none"
        /\ At(f, "enqueue") => flow[f].outcome = "yield"
        /\ At(f, "finalize") => flow[f].outcome = "complete"
        /\ ~ At(f, "idle") /\ flow[f].outcome = "yield" => flow[f].job.turn < MaxTurn

\* The process remembers the emission, which ended the chain of turns.
EmissionRemembered ==
    /\ \A p \in Process : events # 0 <=> dlqEmitted[p]
    /\ \A f \in Flow : At(f, "dlqLoad") => events = 0
    /\ \A f \in Flow : flow[f].pc \in {"dlqFinalize", "echo"} => events # 0
    /\ status = "failed" => events # 0
    /\ events # 0 => /\ \A j \in Job : queue[j] = 0
                     /\ \A f \in Flow : flow[f].pc \notin Turning
    /\ events # 0 /\ status # "absent" /\ faults.fail = 0 =>
           status = "failed" \/ \E f \in Flow : At(f, "dlqFinalize")

\* The inductive invariant of the proofs, when one thing happens at a time.
IInv ==
    /\ TypeOK
    /\ OneChain
    /\ NothingAtEnds
    /\ OutcomesAgree
    /\ EmissionRemembered
    /\ LeaseReturned

\* Crashes are of processes with one flow, or do not occur: what one flow of a process
\* leaves to another one dies with it.
Apart == MaxCrash = 0 \/ \A f, g \in Flow : Proc(f) = Proc(g) => f = g

\* Before the first job there is nothing.
NotBegun ==
    ~ started => /\ \A j \in Job : queue[j] = 0 /\ dlq[j] = 0
                 /\ \A f \in Flow : At(f, "idle")
                 /\ \A p \in Process : ~ dlqEmitted[p]

\* A process that remembers an emission has marked the session, or is about to; the
\* observer's second emission comes after that.
Marking ==
    Underway =>
        /\ \A p \in Process : dlqEmitted[p] => \E f \in Flow : Proc(f) = p /\ At(f, "dlqFinalize")
        /\ \A f \in Flow : ~ At(f, "echo")

\* Who will go on with the session: a flow whose job comes back if it fails, or one
\* that has nothing left but to mark the session.
GoesOn(f) ==
    \/ Acts(f) /\ ~ flow[f].superseded
    \/ At(f, "dlqFinalize") /\ MaxCrash = 0

Going == (\E j \in Job : Held(j) > 0) \/ (\E f \in Flow : GoesOn(f))

\* The inductive invariant for any crashes and repeated deliveries.
StrandInv ==
    /\ TypeOK
    /\ NotBegun
    /\ OutcomesAgree
    /\ Marking
    /\ Underway => Going

\* A session with a job in the platform's hands, or a handler's, ends: completed
\* or dead-lettered, whatever fails on the way.
Settles ==
    (status # "absent" /\ ((\E j \in Job : queue[j] > 0 \/ dlq[j] > 0) \/ ~ Quiet))
        ~> status \in Terminal

=============================================================================
