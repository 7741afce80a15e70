-------------------------- MODULE JobExecutorProofs --------------------------
(***************************************************************************)
(* Proofs about JobExecutor: what holds whatever crashes and comes again,  *)
(* and what holds when one thing happens at a time, for every number of    *)
(* flows, turns, attempts and failed calls.                                *)
(***************************************************************************)
EXTENDS JobExecutor, FiniteSetTheorems, TLAPS

LEMMA UpTo == ASSUME NEW n \in Nat PROVE IsFiniteSet(1 .. n) /\ Cardinality(1 .. n) = n
  BY FS_Interval

\* A set whose elements are all the same.
LEMMA AtMostOne ==
    ASSUME NEW S, \A x, y \in S : x = y
    PROVE  Cardinality(S) \in {0, 1} /\ (S = {} => Cardinality(S) = 0)
<1>1. CASE S = {}
  BY <1>1, FS_EmptySet
<1>2. CASE S # {}
  <2> PICK x \in S : TRUE
    BY <1>2
  <2>1. S = {x}
    OBVIOUS
  <2> QED
    BY <1>2, <2>1, FS_Singleton
<1> QED
  BY <1>1, <1>2

USE ExecutorAssumption

\* What needs no other part of the invariants.
Base == TypeOK /\ OutcomesAgree

\* Only flow f may have changed.
Only(f) == \A g \in Flow : g # f => flow'[g] = flow[g]

-----------------------------------------------------------------------------
(* Types. *)

\* A flow is idle, or it is an activation with all its fields.
LEMMA FlowFacts ==
    ASSUME TypeOK, NEW f \in Flow
    PROVE  /\ At(f, "idle") => flow[f] = Idle
           /\ ~ At(f, "idle") => flow[f] \in Activation
           /\ flow[f].pc \in Step \cup {"idle"}
<1>1. flow[f] \in Activation \cup {Idle}
  BY DEF TypeOK
<1>2. \A r \in Activation : r.pc \in Step /\ r.pc # "idle"
  BY DEF Activation, Step
<1>3. Idle.pc = "idle"
  BY DEF Idle
<1> QED
  BY <1>1, <1>2, <1>3 DEF At

LEMMA IdleType == Idle.pc = "idle" /\ "idle" \notin Step
  BY DEF Idle, Step

\* The fields of an activation.
LEMMA ActivationFacts ==
    ASSUME NEW r \in Activation
    PROVE  /\ r.pc \in Step /\ r.job \in Job
           /\ r.outcome \in {"none", "throw", "yield", "complete", "dead_letter", "expired", "observer"}
           /\ r.job.turn \in Turn /\ r.job.attempt \in 0 .. MaxAttempt
           /\ \A pc \in Step : [r EXCEPT !.pc = pc] \in Activation
           /\ [r EXCEPT !.superseded = TRUE] \in Activation
  BY DEF Activation, Job

LEMMA JobCounts ==
    ASSUME TypeOK, NEW j \in Job
    PROVE  queue[j] \in Nat /\ dlq[j] \in Nat /\ Held(j) = queue[j] + dlq[j] /\ Held(j) \in Nat
  BY DEF TypeOK, Held

\* A flow that goes on to another step keeps its job and its outcome.
LEMMA GotoFacts ==
    ASSUME TypeOK, NEW f \in Flow, ~ At(f, "idle"), NEW pc \in Step, Goto(f, pc)
    PROVE  /\ flow' \in [Flow -> Activation \cup {Idle}]
           /\ Only(f) /\ flow'[f].pc = pc /\ flow'[f].job = flow[f].job
           /\ flow'[f].outcome = flow[f].outcome
           /\ flow'[f].token = flow[f].token
<1>1. flow[f] \in Activation
  BY FlowFacts
<1> PICK r : r = [flow[f] EXCEPT !.pc = pc]
  OBVIOUS
<1>2. /\ r \in Activation /\ r.pc = pc /\ r.job = flow[f].job /\ r.outcome = flow[f].outcome
      /\ r.token = flow[f].token
  BY <1>1 DEF Activation
<1>3. flow' = [flow EXCEPT ![f] = r] /\ flow \in [Flow -> Activation \cup {Idle}]
  BY DEF Goto, TypeOK
<1> QED
  BY <1>2, <1>3 DEF Only

LEMMA LeaveFacts ==
    ASSUME TypeOK, NEW f \in Flow, Leave(f)
    PROVE  /\ flow' \in [Flow -> Activation \cup {Idle}]
           /\ Only(f) /\ flow'[f] = Idle /\ flow'[f].pc = "idle"
  BY IdleType DEF Leave, TypeOK, Only

\* A job more, in the queue or among the dead letters.
LEMMA AddFacts ==
    ASSUME NEW jobs \in [Job -> Nat], NEW k \in Job, jobs[k] = 0
    PROVE  /\ Add(jobs, k) \in [Job -> Nat] /\ Add(jobs, k)[k] = 1
           /\ \A j \in Job : j # k => Add(jobs, k)[j] = jobs[j]
  BY DEF Add

LEMMA RemoveFacts ==
    ASSUME NEW jobs \in [Job -> Nat], NEW k \in Job, jobs[k] > 0
    PROVE  /\ Remove(jobs, k) \in [Job -> Nat] /\ Remove(jobs, k)[k] = jobs[k] - 1
           /\ \A j \in Job : j # k => Remove(jobs, k)[j] = jobs[j]
  BY DEF Remove

\* There is a token nobody has, however many flows there are.
LEMMA FreshTokenExists ==
    ASSUME TypeOK
    PROVE  FreshToken \in 1 .. Cardinality(Flow) + 1
<1> DEFINE N == Cardinality(Flow)
           T == 1 .. N + 1
           held == [f \in Flow |-> flow[f].token]
           H == {flow[f].token : f \in Flow}
<1>1. N \in Nat
  BY FS_CardinalityType
<1>2. held \in Surjection(Flow, H)
  BY DEF Surjection
<1>3. IsFiniteSet(H) /\ Cardinality(H) <= N /\ Cardinality(H) \in Nat
  <2> HIDE DEF held, H
  <2>1. IsFiniteSet(H) /\ Cardinality(H) <= Cardinality(Flow)
    BY <1>2, FS_Surjection
  <2> QED
    BY <2>1, FS_CardinalityType
<1>4. IsFiniteSet(T) /\ Cardinality(T) = N + 1
  <2> HIDE DEF N
  <2>1. N + 1 \in Nat
    BY <1>1
  <2> QED
    BY <2>1, UpTo
<1>5. ~ (T \subseteq H)
  <2> HIDE DEF T, H, N
  <2> QED
    BY <1>1, <1>3, <1>4, FS_Subset
<1>6. \E t \in T : \A f \in Flow : ~ At(f, "idle") => flow[f].token # t
  BY <1>5
<1> QED
  BY <1>6 DEF FreshToken

-----------------------------------------------------------------------------
(* The chain. *)

\* A flow that has the chain in hand goes on, and the jobs stay as they are.
LEMMA ChainKept ==
    ASSUME OneChain, NEW f \in Flow, Acts(f), Only(f), queue' = queue, dlq' = dlq
    PROVE  OneChain'
<1>1. \A g \in Flow : g # f => (Acts(g)' <=> Acts(g))
  BY DEF Only, Acts, At, Signals
<1>2. \A j \in Job : Held(j)' = Held(j)
  BY DEF Held
<1> QED
  BY <1>1, <1>2 DEF OneChain

\* It passes the chain on as one job, in the queue or among the dead letters, or drops it.
LEMMA ChainPassed ==
    ASSUME TypeOK, OneChain, NEW f \in Flow, Acts(f), Only(f), ~ Acts(f)', NEW k \in Job,
           \/ queue' = queue /\ dlq' = dlq
           \/ queue' = Add(queue, k) /\ dlq' = dlq
           \/ queue' = queue /\ dlq' = Add(dlq, k)
    PROVE  /\ OneChain'
           /\ queue' \in [Job -> Nat] /\ dlq' \in [Job -> Nat]
           /\ \A g \in Flow : ~ Acts(g)'
           /\ \A j \in Job : queue[j] = 0 /\ dlq[j] = 0
           /\ \A j \in Job : queue'[j] > 0 => j = k /\ queue' = Add(queue, k)
<1>1. \A g \in Flow : ~ Acts(g)'
  BY DEF OneChain, Only, Acts, At, Signals
<1>2. \A j \in Job : queue[j] = 0 /\ dlq[j] = 0
  BY JobCounts DEF OneChain
<1>3. queue \in [Job -> Nat] /\ dlq \in [Job -> Nat]
  BY DEF TypeOK
<1>4. /\ queue' \in [Job -> Nat] /\ dlq' \in [Job -> Nat]
      /\ \A j \in Job : j # k => queue'[j] = 0 /\ dlq'[j] = 0
      /\ queue'[k] + dlq'[k] \in {0, 1}
      /\ queue'[k] > 0 => queue' = Add(queue, k)
  BY <1>2, <1>3, AddFacts
<1>5. \A j \in Job : /\ j # k => Held(j)' = 0
                     /\ Held(j)' \in {0, 1}
  BY <1>4 DEF Held
<1>6. OneChain'
  BY <1>1, <1>5 DEF OneChain
<1> QED
  BY <1>1, <1>2, <1>4, <1>6

\* A rejected delivery puts the job back, or gives it up.
LEMMA RejectFacts ==
    ASSUME TypeOK, OneChain, NEW f \in Flow, Acts(f), Reject(f)
    PROVE  /\ OneChain'
           /\ flow' \in [Flow -> Activation \cup {Idle}] /\ Only(f) /\ flow'[f] = Idle /\ flow'[f].pc = "idle"
           /\ queue' \in [Job -> Nat] /\ dlq' \in [Job -> Nat]
           /\ \A g \in Flow : ~ Acts(g)'
           /\ \A j \in Job : queue'[j] > 0 => j.turn = flow[f].job.turn
<1>1. flow' \in [Flow -> Activation \cup {Idle}] /\ Only(f) /\ flow'[f] = Idle /\ flow'[f].pc = "idle"
  BY LeaveFacts DEF Reject
<1>2. ~ Acts(f)'
  BY <1>1 DEF Acts, At
<1> PICK j \in Job : j = flow[f].job
  BY FlowFacts, ActivationFacts DEF Acts
<1>3. j.attempt \in 0 .. MaxAttempt /\ j.turn \in Turn
  BY DEF Job
<1>4. CASE flow[f].superseded
  <2>1. queue' = queue /\ dlq' = dlq
    BY <1>4 DEF Reject
  <2> QED
    BY <1>1, <1>2, <2>1, ChainPassed
<1>5. CASE ~ flow[f].superseded /\ ComesBack(j)
  <2> PICK k : k = [j EXCEPT !.attempt = @ + 1]
    OBVIOUS
  <2>1. k \in Job /\ k.turn = j.turn
    BY <1>3, <1>5 DEF Job, ComesBack
  <2>2. queue' = Add(queue, k) /\ dlq' = dlq
    BY <1>5 DEF Reject, Requeued, GivenUp
  <2> QED
    BY <1>1, <1>2, <2>1, <2>2, ChainPassed
<1>6. CASE ~ flow[f].superseded /\ ~ ComesBack(j)
  <2>1. queue' = queue /\ dlq' \in {dlq, Add(dlq, j)}
    BY <1>6 DEF Reject, Requeued, GivenUp
  <2> QED
    BY <1>1, <1>2, <2>1, ChainPassed
<1> QED
  BY <1>4, <1>5, <1>6

\* Nothing takes up the chain: what does not act does not begin to, and no job comes.
LEMMA ChainShrinks ==
    ASSUME OneChain, NothingAtEnds, started' = started, status' = status,
           processed' = processed, events' = events,
           \A j \in Job : Held(j)' = Held(j), \A f \in Flow : Acts(f)' => Acts(f)
    PROVE  OneChain' /\ NothingAtEnds'
  BY DEF OneChain, NothingAtEnds

\* While a flow acts the session has started and has not completed.
LEMMA ActingIsMidway ==
    ASSUME NothingAtEnds, NEW f \in Flow, Acts(f)
    PROVE  started /\ status # "completed"
  BY DEF NothingAtEnds

-----------------------------------------------------------------------------
(* The other parts of the invariant. *)

\* A lease stays some live flow's to give back.
LEMMA LeaseKept ==
    ASSUME LeaseReturned, NEW f \in Flow, Only(f),
           faults'.fail = 0 => faults.fail = 0,
           lease' \in {lease, NoLease},
           At(f, "run") \/ At(f, "release") =>
               \/ flow'[f].pc = "release" /\ flow'[f].token = flow[f].token
               \/ lease # NoLease /\ lease.token = flow[f].token => lease' = NoLease
    PROVE  LeaseReturned'
  BY DEF LeaseReturned, Only, At

\* The emission is known: a process knows of it as soon as it happened.
LEMMA EmissionFacts ==
    ASSUME TypeOK, EmissionRemembered, NEW f \in Flow
    PROVE  /\ flow[f].pc \in Turning => events = 0
           /\ events = 0 => /\ status # "failed" /\ DlqEntry(f) = "dlqLoad"
                            /\ \A p \in Process : ~ dlqEmitted[p]
                            /\ \A g \in Flow : flow[g].pc \notin {"dlqFinalize", "echo"}
           /\ events # 0 => DlqEntry(f) = "ack" /\ \A p \in Process : dlqEmitted[p]
<1>1. Proc(f) \in Process /\ dlqEmitted \in [Process -> BOOLEAN]
  BY DEF Process, TypeOK
<1>2. \A p \in Process : events # 0 <=> dlqEmitted[p]
  BY DEF EmissionRemembered
<1>3. flow[f].pc \in Turning => events = 0
  BY DEF EmissionRemembered
<1>4. ASSUME events = 0
      PROVE  /\ status # "failed" /\ DlqEntry(f) = "dlqLoad"
             /\ \A p \in Process : ~ dlqEmitted[p]
             /\ \A g \in Flow : flow[g].pc \notin {"dlqFinalize", "echo"}
  BY <1>1, <1>2, <1>4 DEF EmissionRemembered, DlqEntry
<1>5. ASSUME events # 0 PROVE DlqEntry(f) = "ack" /\ \A p \in Process : dlqEmitted[p]
  BY <1>1, <1>2, <1>5 DEF DlqEntry
<1> QED
  BY <1>3, <1>4, <1>5

\* Before the emission, a step that does not emit keeps things so.
LEMMA NotYetEmitted ==
    ASSUME EmissionRemembered, events = 0, events' = events, dlqEmitted' = dlqEmitted,
           status' # "failed",
           \A g \in Flow : flow'[g].pc \in {"dlqFinalize", "echo"} =>
                              flow[g].pc \in {"dlqFinalize", "echo"}
    PROVE  EmissionRemembered'
  BY DEF EmissionRemembered, At

LEMMA OutcomesKept ==
    ASSUME OutcomesAgree, NEW f \in Flow, Only(f),
           flow'[f].pc \in {"load", "resume", "run"} => flow'[f].outcome = "none",
           flow'[f].pc = "enqueue" => flow'[f].outcome = "yield",
           flow'[f].pc = "finalize" => flow'[f].outcome = "complete",
           flow'[f].pc # "idle" /\ flow'[f].outcome = "yield" => flow'[f].job.turn < MaxTurn
    PROVE  OutcomesAgree'
  BY DEF OutcomesAgree, Only, At

LEMMA InitHolds == Init => IInv
<1> SUFFICES ASSUME Init PROVE IInv
  OBVIOUS
<1>1. TypeOK
  <2>1. faults \in [crash : 0 .. MaxCrash, redeliver : 0 .. MaxRedeliver, fail : 0 .. MaxFail]
    <3>1. 0 \in 0 .. MaxCrash /\ 0 \in 0 .. MaxRedeliver /\ 0 \in 0 .. MaxFail
      OBVIOUS
    <3> QED
      BY <3>1 DEF Init
  <2>2. queue \in [Job -> Nat] /\ dlq \in [Job -> Nat] /\ events \in 0 .. 3
        /\ executed \in [Turn -> 0 .. 2] /\ processed \subseteq Turn
    BY DEF Init
  <2>3. flow \in [Flow -> Activation \cup {Idle}] /\ dlqEmitted \in [Process -> BOOLEAN]
        /\ lease = NoLease /\ started \in BOOLEAN /\ pastDeadline \in BOOLEAN
        /\ status = "absent"
    BY DEF Init
  <2> QED
    BY <2>1, <2>2, <2>3 DEF TypeOK
<1>2. \A f \in Flow : flow[f].pc = "idle" /\ ~ Acts(f)
  BY IdleType DEF Init, Acts, At
<1>3. \A j \in Job : queue[j] = 0 /\ Held(j) = 0
  BY DEF Init, Held
<1>4. OneChain /\ NothingAtEnds
  BY <1>2, <1>3 DEF Init, OneChain, NothingAtEnds
<1>5. OutcomesAgree /\ EmissionRemembered
  BY <1>2 DEF Init, OutcomesAgree, EmissionRemembered, At
<1>6. LeaseReturned
  BY DEF Init, LeaseReturned
<1> QED
  BY <1>1, <1>4, <1>5, <1>6 DEF IInv

-----------------------------------------------------------------------------
(* What every step keeps, whatever crashes and comes again. *)

\* A flow becomes an activation whose outcome agrees with its step.
LEMMA FlowBecomes ==
    ASSUME Base, NEW f \in Flow, NEW r \in Activation \cup {Idle}, flow' = [flow EXCEPT ![f] = r],
           r.pc \in {"load", "resume", "run"} => r.outcome = "none",
           r.pc = "enqueue" => r.outcome = "yield",
           r.pc = "finalize" => r.outcome = "complete",
           r.pc # "idle" /\ r.outcome = "yield" => r.job.turn < MaxTurn
    PROVE  flow' \in [Flow -> Activation \cup {Idle}] /\ OutcomesAgree'
<1>1. flow \in [Flow -> Activation \cup {Idle}] /\ OutcomesAgree
  BY DEF Base, TypeOK
<1>2. Only(f) /\ flow'[f] = r
  BY <1>1 DEF Only
<1> QED
  BY <1>1, <1>2, OutcomesKept

LEMMA FlowGoesTo ==
    ASSUME Base, NEW f \in Flow, ~ At(f, "idle"), NEW pc \in Step, Goto(f, pc), pc # "load",
           pc \in {"resume", "run"} => flow[f].outcome = "none",
           pc = "enqueue" => flow[f].outcome = "yield",
           pc = "finalize" => flow[f].outcome = "complete"
    PROVE  flow' \in [Flow -> Activation \cup {Idle}] /\ OutcomesAgree'
<1>1. flow[f] \in Activation
  BY FlowFacts DEF Base
<1> PICK r : r = [flow[f] EXCEPT !.pc = pc]
  OBVIOUS
<1>2. r \in Activation /\ r.pc = pc /\ r.job = flow[f].job /\ r.outcome = flow[f].outcome
  BY <1>1 DEF Activation
<1>3. flow' = [flow EXCEPT ![f] = r]
  BY DEF Goto, Base, TypeOK
<1>4. flow[f].outcome = "yield" => flow[f].job.turn < MaxTurn
  BY DEF Base, OutcomesAgree
<1> QED
  BY <1>2, <1>3, <1>4, FlowBecomes

LEMMA FlowLeaves ==
    ASSUME Base, NEW f \in Flow, Leave(f)
    PROVE  flow' \in [Flow -> Activation \cup {Idle}] /\ OutcomesAgree'
  BY IdleType, FlowBecomes DEF Leave

\* A new activation.
LEMMA BeginFacts ==
    ASSUME TypeOK, NEW f \in Flow, NEW j \in Job, NEW pc \in {"load", "dlqLoad", "observe", "ack"},
           NEW outcome \in {"none", "expired", "observer"},
           flow' = [flow EXCEPT ![f] = [pc |-> pc, job |-> j, token |-> 0,
                                        outcome |-> outcome, superseded |-> FALSE]]
    PROVE  /\ flow' \in [Flow -> Activation \cup {Idle}] /\ Only(f)
           /\ flow'[f].pc = pc /\ flow'[f].job = j /\ flow'[f].outcome = outcome
<1> PICK r : r = [pc |-> pc, job |-> j, token |-> 0, outcome |-> outcome, superseded |-> FALSE]
  OBVIOUS
<1>1. 0 \in 0 .. Cardinality(Flow) + 1
  BY FS_CardinalityType
<1>2. r \in Activation /\ r.pc = pc /\ r.job = j /\ r.outcome = outcome
  BY <1>1 DEF Activation, Step
<1>3. flow' = [flow EXCEPT ![f] = r] /\ flow \in [Flow -> Activation \cup {Idle}]
  BY DEF TypeOK
<1> QED
  BY <1>2, <1>3 DEF Only

\* A job more or less, whichever it is.
LEMMA JobsTyped ==
    ASSUME NEW jobs \in [Job -> Nat], NEW k
    PROVE  /\ Add(jobs, k) \in [Job -> Nat]
           /\ k \in Job /\ jobs[k] > 0 => Remove(jobs, k) \in [Job -> Nat]
<1>1. CASE k \in Job
  BY <1>1 DEF Add, Remove
<1>2. CASE k \notin Job
  <2>1. Add(jobs, k) = jobs
    BY <1>2 DEF Add
  <2> QED
    BY <1>2, <2>1
<1> QED
  BY <1>1, <1>2

LEMMA RejectTyped ==
    ASSUME Base, NEW f \in Flow, Reject(f)
    PROVE  /\ flow' \in [Flow -> Activation \cup {Idle}] /\ OutcomesAgree'
           /\ queue' \in [Job -> Nat] /\ dlq' \in [Job -> Nat]
<1>1. queue \in [Job -> Nat] /\ dlq \in [Job -> Nat]
  BY DEF Base, TypeOK
<1> QED
  BY <1>1, JobsTyped, FlowLeaves DEF Reject, Requeued, GivenUp

LEMMA EntryIsStep == \A f : DlqEntry(f) \in {"ack", "dlqLoad"} /\ AfterEmission(f) \in {"echo", "ack"}
  BY DEF DlqEntry, AfterEmission

\* A successful call leaves the count of failures alone, a failing one raises it.
LEMMA FailureCounts ==
    ASSUME TypeOK, NEW f \in Flow, CallFails(f)
    PROVE  /\ faults' \in [crash : 0 .. MaxCrash, redeliver : 0 .. MaxRedeliver, fail : 0 .. MaxFail]
           /\ faults'.fail # 0
<1>1. faults \in [crash : 0 .. MaxCrash, redeliver : 0 .. MaxRedeliver, fail : 0 .. MaxFail]
      /\ faults.fail < MaxFail /\ faults' = [faults EXCEPT !.fail = @ + 1]
  BY DEF TypeOK, CallFails
<1>2. faults.fail + 1 \in 0 .. MaxFail /\ faults.fail + 1 # 0
  BY <1>1
<1> QED
  BY <1>1, <1>2

LEMMA ReleasedTyped ==
    ASSUME Base, NEW f \in Flow, Released(f)
    PROVE  /\ flow' \in [Flow -> Activation \cup {Idle}] /\ OutcomesAgree'
           /\ queue' \in [Job -> Nat] /\ dlq' \in [Job -> Nat]
<1>1. CASE Reject(f)
  BY <1>1, RejectTyped
<1>2. CASE Goto(f, AfterRelease(f)) /\ UNCHANGED <<queue, dlq>>
  <2> PICK pc : pc = AfterRelease(f)
    OBVIOUS
  <2>1. /\ pc \in {"enqueue", "finalize", "ack", "dlqLoad"}
        /\ pc = "enqueue" => flow[f].outcome = "yield"
        /\ pc = "finalize" => flow[f].outcome = "complete"
    BY EntryIsStep DEF AfterRelease
  <2>2. ~ At(f, "idle")
    BY DEF Released, At
  <2>3. flow' \in [Flow -> Activation \cup {Idle}] /\ OutcomesAgree'
    BY <1>2, <2>1, <2>2, FlowGoesTo DEF Step
  <2> QED
    BY <1>2, <2>3 DEF Base, TypeOK
<1> QED
  BY <1>1, <1>2 DEF Released

\* The handler's steps.
LEMMA HandlerBase ==
    ASSUME Base, NEW f \in Flow, Load(f) \/ Resume(f) \/ Release(f) \/ Enqueue(f) \/ Finalize(f)
    PROVE  Base'
<1>1. TypeOK /\ OutcomesAgree
  BY DEF Base
<1>2. CASE Load(f)
  <2>1. AfterLoad(f) \in {"ack", "dlqLoad", "resume"} /\ ~ At(f, "idle") /\ flow[f].outcome = "none"
    BY <1>1, <1>2, EntryIsStep DEF AfterLoad, Load, At, OutcomesAgree
  <2>2. flow' \in [Flow -> Activation \cup {Idle}] /\ OutcomesAgree'
    BY <1>2, <2>1, FlowGoesTo DEF Load, Step
  <2> QED
    BY <1>1, <1>2, <2>2 DEF Load, TypeOK, Base
<1>3. CASE Resume(f)
  <2>1. ~ At(f, "idle") /\ flow[f].outcome = "none" /\ flow[f] \in Activation
    BY <1>1, <1>3, FlowFacts DEF Resume, At, OutcomesAgree
  <2>2. CASE lease # NoLease /\ lease.worker # Proc(f)
    <3>1. Reject(f) /\ lease' = lease
      BY <1>3, <2>2 DEF Resume
    <3> QED
      BY <1>1, <1>3, <3>1, RejectTyped DEF Resume, TypeOK, Base
  <2>3. CASE ~ (lease # NoLease /\ lease.worker # Proc(f))
    <3> PICK token : token = IF lease = NoLease THEN FreshToken ELSE lease.token
      OBVIOUS
    <3>1. /\ lease' = [worker |-> Proc(f), token |-> token]
          /\ flow' = [flow EXCEPT ![f] = [@ EXCEPT !.pc = "run", !.token = token]]
          /\ UNCHANGED <<queue, dlq>>
      BY <1>3, <2>3 DEF Resume
    <3>2. token \in 1 .. Cardinality(Flow) + 1
      BY <1>1, FreshTokenExists DEF TypeOK
    <3> PICK r : r = [flow[f] EXCEPT !.pc = "run", !.token = token]
      OBVIOUS
    <3>3. r \in Activation /\ r.pc = "run" /\ r.outcome = "none"
      <4>1. token \in 0 .. Cardinality(Flow) + 1 /\ "run" \in Step
        BY <3>2 DEF Step
      <4> QED
        BY <2>1, <4>1 DEF Activation
    <3>4. flow' = [flow EXCEPT ![f] = r]
      BY <1>1, <3>1 DEF TypeOK
    <3>5. flow' \in [Flow -> Activation \cup {Idle}] /\ OutcomesAgree'
      BY <3>3, <3>4, FlowBecomes
    <3>6. lease' \in [worker : Process, token : 1 .. Cardinality(Flow) + 1]
      BY <3>1, <3>2 DEF Process
    <3> QED
      BY <1>1, <1>3, <3>1, <3>5, <3>6 DEF Resume, TypeOK, Base
  <2> QED
    BY <2>2, <2>3
<1>4. CASE Release(f)
  <2>1. lease' \in {lease, NoLease}
    BY <1>4 DEF Release, Freed
  <2>2. /\ flow' \in [Flow -> Activation \cup {Idle}] /\ OutcomesAgree'
        /\ queue' \in [Job -> Nat] /\ dlq' \in [Job -> Nat]
    BY <1>4, ReleasedTyped DEF Release
  <2> QED
    BY <1>1, <1>4, <2>1, <2>2 DEF Release, TypeOK, Base
<1>5. CASE Enqueue(f) \/ Finalize(f)
  <2>1. ~ At(f, "idle") /\ flow[f] \in Activation
    BY <1>1, <1>5, FlowFacts DEF Enqueue, Finalize, At
  <2>2. flow' \in [Flow -> Activation \cup {Idle}] /\ OutcomesAgree'
    BY <1>5, <2>1, FlowGoesTo DEF Enqueue, Finalize, Step
  <2>3. flow[f].job.turn \in Turn /\ queue' \in [Job -> Nat]
    <3>1. queue \in [Job -> Nat] /\ (queue' = queue \/ queue' = Add(queue, NextTurn(flow[f].job)))
      BY <1>1, <1>5 DEF Enqueue, Finalize, TypeOK
    <3> QED
      BY <2>1, <3>1, ActivationFacts, JobsTyped
  <2> QED
    BY <1>1, <1>5, <2>2, <2>3 DEF Enqueue, Finalize, TypeOK, Base, Terminal
<1> QED
  BY <1>2, <1>3, <1>4, <1>5

LEMMA RunBase ==
    ASSUME Base, NEW f \in Flow, NEW outcome \in {"throw", "yield", "complete", "dead_letter"}, Run(f, outcome)
    PROVE  Base'
<1>1. TypeOK /\ flow[f] \in Activation
  BY FlowFacts DEF Run, At, Base
<1> PICK r : r = [flow[f] EXCEPT !.pc = "release", !.outcome = outcome]
  OBVIOUS
<1>2. r \in Activation /\ r.pc = "release" /\ r.outcome = outcome /\ r.job = flow[f].job
  <2>1. "release" \in Step
    BY DEF Step
  <2> QED
    BY <1>1, <2>1 DEF Activation
<1>3. flow' = [flow EXCEPT ![f] = r] /\ (outcome = "yield" => r.job.turn < MaxTurn)
  BY <1>1, <1>2 DEF Run, TypeOK
<1>4. flow' \in [Flow -> Activation \cup {Idle}] /\ OutcomesAgree'
  BY <1>2, <1>3, FlowBecomes
<1>5. executed' \in [Turn -> 0 .. 2]
  <2>1. executed \in [Turn -> 0 .. 2] /\ flow[f].job.turn \in Turn
    BY <1>1, ActivationFacts DEF TypeOK
  <2> QED
    BY <2>1 DEF Run
<1> QED
  BY <1>1, <1>4, <1>5 DEF Run, TypeOK, Base

\* The steps of the emission, the observer's look, the end of the handler.
LEMMA EmissionBase ==
    ASSUME Base, NEW f \in Flow, DlqLoad(f) \/ DlqFinalize(f) \/ ObserveLoad(f) \/ Echo(f) \/ Ack(f)
    PROVE  Base'
<1>1. TypeOK /\ Proc(f) \in Process /\ ~ At(f, "idle")
  BY DEF Base, Process, DlqLoad, DlqFinalize, ObserveLoad, Echo, Ack, At
<1>2. events' \in 0 .. 3 /\ dlqEmitted' \in [Process -> BOOLEAN]
  <2>1. events \in 0 .. 3 /\ dlqEmitted \in [Process -> BOOLEAN]
    BY <1>1 DEF TypeOK
  <2>2. events' = events \/ Emit
    BY DEF DlqLoad, DlqFinalize, ObserveLoad, Echo, Ack
  <2>3. dlqEmitted' \in {dlqEmitted, Marked(Proc(f))}
    BY DEF DlqLoad, DlqFinalize, ObserveLoad, Echo, Ack
  <2>4. Marked(Proc(f)) \in [Process -> BOOLEAN]
    BY <1>1, <2>1 DEF Marked
  <2>5. events' \in 0 .. 3
    BY <2>1, <2>2 DEF Emit
  <2> QED
    BY <2>1, <2>3, <2>4, <2>5
<1>3. CASE Ack(f)
  <2>1. dlq' \in [Job -> Nat]
    BY <1>1, <1>3, JobsTyped DEF Ack, TypeOK
  <2> QED
    BY <1>1, <1>2, <1>3, <2>1, FlowLeaves DEF Ack, TypeOK, Base
<1>4. CASE DlqLoad(f) \/ DlqFinalize(f) \/ ObserveLoad(f) \/ Echo(f)
  <2> PICK pc \in {"dlqFinalize", "dlqLoad", "echo", "ack"} : Goto(f, pc)
    BY <1>4, EntryIsStep DEF DlqLoad, DlqFinalize, ObserveLoad, Echo
  <2>1. flow' \in [Flow -> Activation \cup {Idle}] /\ OutcomesAgree'
    BY <1>1, FlowGoesTo DEF Step
  <2>2. /\ status' \in {"absent", "initializing"} \cup Terminal
        /\ lease' \in {lease, NoLease}
        /\ UNCHANGED <<started, queue, dlq, executed, processed, pastDeadline, faults>>
    BY <1>1, <1>4 DEF DlqLoad, DlqFinalize, ObserveLoad, Echo, TypeOK, Terminal
  <2> QED
    BY <1>1, <1>2, <2>1, <2>2 DEF TypeOK, Base
<1> QED
  BY <1>3, <1>4

\* What the platform does, and what fails.
LEMMA ReceiveBase ==
    ASSUME Base, NEW f \in Flow, NEW j \in Job, Deliver(f, j) \/ Observe(f, j)
    PROVE  Base'
<1>1. TypeOK
  BY DEF Base
<1> PICK pc \in {"load", "dlqLoad", "observe", "ack"}, outcome \in {"none", "expired", "observer"} :
        /\ flow' = [flow EXCEPT ![f] = [pc |-> pc, job |-> j, token |-> 0,
                                        outcome |-> outcome, superseded |-> FALSE]]
        /\ pc = "load" => outcome = "none"
  <2>1. CASE Deliver(f, j)
    <3>1. CASE Expired
      BY <2>1, <3>1, EntryIsStep DEF Deliver
    <3>2. CASE ~ Expired
      BY <2>1, <3>2 DEF Deliver
    <3> QED
      BY <3>1, <3>2
  <2>2. CASE Observe(f, j)
    BY <2>2 DEF Observe
  <2> QED
    BY <2>1, <2>2
<1>2. /\ flow' \in [Flow -> Activation \cup {Idle}] /\ Only(f)
      /\ flow'[f].pc = pc /\ flow'[f].job = j /\ flow'[f].outcome = outcome
  BY <1>1, BeginFacts
<1>3. OutcomesAgree'
  BY <1>2, OutcomesKept DEF Base
<1>4. queue' \in [Job -> Nat] /\ dlq' \in [Job -> Nat]
  <2>1. queue \in [Job -> Nat] /\ dlq \in [Job -> Nat]
    BY <1>1 DEF TypeOK
  <2>2. \/ queue[j] > 0 /\ queue' = Remove(queue, j) /\ dlq' = dlq
        \/ dlq[j] > 0 /\ dlq' = Remove(dlq, j) /\ queue' = queue
    BY DEF Deliver, Observe
  <2> QED
    BY <2>1, <2>2, JobsTyped
<1> QED
  BY <1>1, <1>2, <1>3, <1>4 DEF Deliver, Observe, TypeOK, Base

LEMMA BeginBase == ASSUME Base, Create \/ EnqueueFirst \/ Tick \/ Expire \/ Deadline PROVE Base'
<1>1. TypeOK /\ OutcomesAgree /\ flow' = flow
  BY DEF Base, Create, EnqueueFirst, Tick, Expire, Deadline
<1>2. OutcomesAgree'
  BY <1>1 DEF OutcomesAgree, At
<1>3. queue' \in [Job -> Nat]
  <2>1. queue \in [Job -> Nat] /\ queue' \in {queue, Add(queue, FirstJob)}
    BY <1>1 DEF TypeOK, Create, EnqueueFirst, Tick, Expire, Deadline
  <2> QED
    BY <2>1, JobsTyped
<1> QED
  BY <1>1, <1>2, <1>3 DEF Create, EnqueueFirst, Tick, Expire, Deadline, TypeOK, Base

LEMMA FailureBase == ASSUME Base, NEW f \in Flow, CallFails(f) PROVE Base'
<1>1. TypeOK
  BY DEF Base
<1>2. faults' \in [crash : 0 .. MaxCrash, redeliver : 0 .. MaxRedeliver, fail : 0 .. MaxFail]
  BY <1>1, FailureCounts
<1>3. /\ flow' \in [Flow -> Activation \cup {Idle}] /\ OutcomesAgree'
      /\ queue' \in [Job -> Nat] /\ dlq' \in [Job -> Nat]
  <2>1. CASE Reject(f)
    BY <2>1, RejectTyped
  <2>2. CASE Released(f)
    BY <2>2, ReleasedTyped
  <2>3. CASE flow[f].pc \in {"observe", "dlqFinalize"} /\ UNCHANGED <<queue, dlq>>
             /\ (Goto(f, DlqEntry(f)) \/ Goto(f, AfterEmission(f)))
    <3> PICK pc \in {"dlqLoad", "echo", "ack"} : Goto(f, pc)
      BY <2>3, EntryIsStep
    <3>1. ~ At(f, "idle")
      BY <2>3 DEF At
    <3> QED
      BY <1>1, <2>3, <3>1, FlowGoesTo DEF Step, TypeOK
  <2> QED
    BY <2>1, <2>2, <2>3 DEF CallFails, At
<1> QED
  BY <1>1, <1>2, <1>3 DEF CallFails, TypeOK, Base

LEMMA RedeliverBase == ASSUME Base, NEW f \in Flow, Redeliver(f) PROVE Base'
<1>1. TypeOK /\ OutcomesAgree /\ flow[f] \in Activation
  BY FlowFacts DEF Base, Redeliver
<1> PICK r : r = [flow[f] EXCEPT !.superseded = TRUE]
  OBVIOUS
<1>2. r \in Activation /\ r.pc = flow[f].pc /\ r.job = flow[f].job /\ r.outcome = flow[f].outcome
  BY <1>1 DEF Activation
<1>3. flow' = [flow EXCEPT ![f] = r]
  BY <1>1 DEF Redeliver, TypeOK
<1>4. flow' \in [Flow -> Activation \cup {Idle}] /\ OutcomesAgree'
  <2>1. /\ r.pc \in {"load", "resume", "run"} => r.outcome = "none"
        /\ r.pc = "enqueue" => r.outcome = "yield"
        /\ r.pc = "finalize" => r.outcome = "complete"
        /\ r.pc # "idle" /\ r.outcome = "yield" => r.job.turn < MaxTurn
    BY <1>1, <1>2 DEF OutcomesAgree, At
  <2> QED
    BY <1>2, <1>3, <2>1, FlowBecomes
<1>5. queue' \in [Job -> Nat]
  BY <1>1, JobsTyped DEF Redeliver, Requeued, TypeOK
<1>6. faults' \in [crash : 0 .. MaxCrash, redeliver : 0 .. MaxRedeliver, fail : 0 .. MaxFail]
  <2>1. faults \in [crash : 0 .. MaxCrash, redeliver : 0 .. MaxRedeliver, fail : 0 .. MaxFail]
        /\ faults.redeliver < MaxRedeliver /\ faults' = [faults EXCEPT !.redeliver = @ + 1]
    BY <1>1 DEF Redeliver, TypeOK
  <2>2. faults.redeliver + 1 \in 0 .. MaxRedeliver
    BY <2>1
  <2> QED
    BY <2>1, <2>2
<1> QED
  BY <1>1, <1>4, <1>5, <1>6 DEF Redeliver, TypeOK, Base

\* The jobs that come back are at most as many as the flows.
LEMMA BackTyped ==
    ASSUME NEW p, NEW j
    PROVE  /\ IsFiniteSet(BackInQueue(p, j)) /\ Cardinality(BackInQueue(p, j)) \in Nat
           /\ IsFiniteSet(BackInDlq(p, j)) /\ Cardinality(BackInDlq(p, j)) \in Nat
<1>1. BackInQueue(p, j) \subseteq Flow /\ BackInDlq(p, j) \subseteq Flow
  BY DEF BackInQueue, BackInDlq, HandledBy
<1>2. IsFiniteSet(BackInQueue(p, j)) /\ IsFiniteSet(BackInDlq(p, j))
  BY <1>1, FS_Subset
<1> QED
  BY <1>2, FS_CardinalityType

LEMMA CrashBase == ASSUME Base, NEW p \in Process, Crash(p) PROVE Base'
<1>1. TypeOK /\ OutcomesAgree
  BY DEF Base
<1>2. flow' = [f \in Flow |-> IF Proc(f) = p THEN Idle ELSE flow[f]]
  BY DEF Crash
<1>3. flow' \in [Flow -> Activation \cup {Idle}]
  BY <1>1, <1>2 DEF TypeOK
<1>4. OutcomesAgree'
  BY <1>1, <1>2, IdleType DEF OutcomesAgree, At
<1>5. queue' \in [Job -> Nat] /\ dlq' \in [Job -> Nat]
  BY <1>1, BackTyped DEF Crash, TypeOK
<1>6. faults' \in [crash : 0 .. MaxCrash, redeliver : 0 .. MaxRedeliver, fail : 0 .. MaxFail]
  <2>1. faults \in [crash : 0 .. MaxCrash, redeliver : 0 .. MaxRedeliver, fail : 0 .. MaxFail]
        /\ faults.crash < MaxCrash /\ faults' = [faults EXCEPT !.crash = @ + 1]
    BY <1>1 DEF Crash, TypeOK
  <2>2. faults.crash + 1 \in 0 .. MaxCrash
    BY <2>1
  <2> QED
    BY <2>1, <2>2
<1>7. dlqEmitted' \in [Process -> BOOLEAN]
  BY <1>1 DEF Crash, TypeOK
<1> QED
  BY <1>1, <1>3, <1>4, <1>5, <1>6, <1>7 DEF Crash, TypeOK, Base

LEMMA BaseStep == Base /\ [Next]_vars => Base'
<1> SUFFICES ASSUME Base, [Next]_vars PROVE Base'
  OBVIOUS
<1>1. CASE UNCHANGED vars
  BY <1>1 DEF vars, Base, TypeOK, OutcomesAgree, At
<1>2. CASE Create \/ EnqueueFirst \/ Tick \/ Expire \/ Deadline
  BY <1>2, BeginBase
<1>3. CASE Receive
  BY <1>3, ReceiveBase DEF Receive
<1>4. ASSUME NEW f \in Flow, Handle(f) PROVE Base'
  BY <1>4, HandlerBase, EmissionBase, RunBase DEF Handle
<1>5. ASSUME NEW f \in Flow, Redeliver(f) \/ CallFails(f) PROVE Base'
  BY <1>5, RedeliverBase, FailureBase
<1>6. ASSUME NEW p \in Process, Crash(p) PROVE Base'
  BY <1>6, CrashBase
<1> QED
  BY <1>1, <1>2, <1>3, <1>4, <1>5, <1>6 DEF Next

LEMMA BaseHolds == Spec => []Base
<1>1. Init => Base
  BY InitHolds DEF IInv, Base
<1> QED
  BY <1>1, BaseStep, PTL DEF Spec

\* The executor's state is always of its type.
THEOREM TypeCorrect == Spec => []TypeOK
<1>1. Base => TypeOK
  BY DEF Base
<1> QED
  BY <1>1, BaseHolds, PTL

\* The job of the next turn, which there is when the turn yielded.
LEMMA NextTurnFacts ==
    ASSUME TypeOK, OutcomesAgree, NEW f \in Flow, At(f, "enqueue")
    PROVE  NextTurn(flow[f].job) \in Job
<1>1. flow[f] \in Activation
  BY FlowFacts DEF At
<1>2. flow[f].job.turn \in Turn /\ flow[f].job.turn < MaxTurn
  BY <1>1, ActivationFacts DEF OutcomesAgree, At
<1> QED
  BY <1>2 DEF NextTurn, Job, Turn

-----------------------------------------------------------------------------
(* Nobody is left behind, whatever crashes and comes again. *)

\* Somebody goes on unless the step took it from the flow: the others are as they were.
LEMMA StillGoing ==
    ASSUME Going, NEW f \in Flow, Only(f), GoesOn(f) => Going',
           \A j \in Job : Held(j) > 0 => Held(j)' > 0
    PROVE  Going'
<1>1. \A g \in Flow : g # f /\ GoesOn(g) => GoesOn(g)'
  BY DEF Only, GoesOn, Acts, At, Signals
<1> QED
  BY <1>1 DEF Going

\* Who finds the emission remembered may leave: another flow is about to mark the session,
\* and no crash can take it.
LEMMA MarkerGoesOn ==
    ASSUME Apart, Marking, Underway, NEW f \in Flow, dlqEmitted[Proc(f)], ~ At(f, "dlqFinalize"), Only(f)
    PROVE  Going'
<1>1. PICK g \in Flow : Proc(g) = Proc(f) /\ At(g, "dlqFinalize")
  BY DEF Marking, Process
<1>2. g # f /\ MaxCrash = 0
  BY <1>1 DEF Apart
<1>3. At(g, "dlqFinalize")'
  BY <1>1, <1>2 DEF Only, At
<1> QED
  BY <1>2, <1>3 DEF Going, GoesOn

\* A flow that moves on keeps what makes it go on.
LEMMA StepsOn ==
    ASSUME TypeOK, NEW f \in Flow, ~ At(f, "idle"), ~ At(f, "dlqFinalize"), NEW pc \in Step, Goto(f, pc),
           pc # "ack" \/ flow[f].outcome = "throw", GoesOn(f)
    PROVE  Going'
<1>1. flow[f] \in Activation /\ ~ flow[f].superseded
  BY FlowFacts DEF GoesOn
<1>2. flow'[f].pc = pc /\ flow'[f].outcome = flow[f].outcome /\ ~ flow'[f].superseded
  BY <1>1 DEF Goto, Activation, TypeOK
<1>3. Acts(f)'
  BY <1>2 DEF Acts, At, Signals, Step
<1> QED
  BY <1>2, <1>3 DEF Going, GoesOn

\* The entry of the emission.
LEMMA EntryStepsOn ==
    ASSUME Apart, TypeOK, Marking, Underway, NEW f \in Flow, ~ At(f, "idle"), ~ At(f, "dlqFinalize"),
           Goto(f, DlqEntry(f)), GoesOn(f)
    PROVE  Going'
<1>1. CASE dlqEmitted[Proc(f)]
  <2>1. Only(f)
    BY GotoFacts, EntryIsStep DEF Step
  <2> QED
    BY <1>1, <2>1, MarkerGoesOn
<1>2. CASE ~ dlqEmitted[Proc(f)]
  BY <1>2, StepsOn DEF DlqEntry, Step
<1> QED
  BY <1>1, <1>2

\* A job more.
LEMMA HeldMore ==
    ASSUME TypeOK, NEW k \in Job,
           \/ queue' = Add(queue, k) /\ dlq' = dlq
           \/ queue' = queue /\ dlq' = Add(dlq, k)
    PROVE  Going' /\ \A j \in Job : Held(j) > 0 => Held(j)' > 0
<1>1. /\ queue \in [Job -> Nat] /\ dlq \in [Job -> Nat]
      /\ \A j \in Job : queue[j] \in Nat /\ dlq[j] \in Nat
  BY DEF TypeOK
<1>2. \A j \in Job : queue'[j] + dlq'[j] >= queue[j] + dlq[j]
  BY <1>1 DEF Add
<1>3. queue'[k] + dlq'[k] > 0
  BY <1>1 DEF Add
<1>4. Going'
  BY <1>3 DEF Held, Going
<1>5. ASSUME NEW j \in Job, Held(j) > 0 PROVE Held(j)' > 0
  <2>1. /\ queue[j] + dlq[j] > 0 /\ queue[j] + dlq[j] \in Nat
        /\ queue'[j] + dlq'[j] >= queue[j] + dlq[j]
    BY <1>1, <1>2, <1>5 DEF Held
  <2>2. queue'[j] + dlq'[j] \in Nat
    BY <1>1 DEF Add
  <2>3. queue'[j] + dlq'[j] > 0
    BY <2>1, <2>2
  <2> QED
    BY <2>3 DEF Held
<1> QED
  BY <1>4, <1>5

\* A flow whose delivery is rejected hands the job back, unless it has come again already.
LEMMA RejectHandsBack ==
    ASSUME TypeOK, Going, status # "absent", NEW f \in Flow, ~ At(f, "idle"), ~ At(f, "dlqFinalize"), Reject(f)
    PROVE  Going'
<1>1. Only(f) /\ flow[f].job \in Job
  BY LeaveFacts, FlowFacts, ActivationFacts DEF Reject
<1>2. CASE flow[f].superseded
  <2>1. ~ GoesOn(f) /\ queue' = queue /\ dlq' = dlq
    BY <1>2 DEF GoesOn, Reject
  <2>2. \A j \in Job : Held(j)' = Held(j)
    BY <2>1 DEF Held
  <2> QED
    BY <1>1, <2>1, <2>2, StillGoing
<1>3. CASE ~ flow[f].superseded
  <2> PICK j \in Job : j = flow[f].job
    BY <1>1
  <2>1. CASE ComesBack(j)
    <3> PICK k : k = [j EXCEPT !.attempt = @ + 1]
      OBVIOUS
    <3>1. k \in Job
      BY <2>1 DEF Job, ComesBack
    <3>2. queue' = Add(queue, k) /\ dlq' = dlq
      BY <1>3, <2>1 DEF Reject, Requeued, GivenUp
    <3> QED
      BY <3>1, <3>2, HeldMore
  <2>2. CASE ~ ComesBack(j)
    <3>1. queue' = queue /\ dlq' = Add(dlq, j)
      BY <1>3, <2>2 DEF Reject, Requeued, GivenUp
    <3> QED
      BY <3>1, HeldMore
  <2> QED
    BY <2>1, <2>2
<1> QED
  BY <1>2, <1>3

\* The handler's steps.
LEMMA HandlerGoesOn ==
    ASSUME Apart, StrandInv, Underway, Underway', NEW f \in Flow,
           Load(f) \/ Resume(f) \/ Release(f) \/ Enqueue(f) \/ Finalize(f)
    PROVE  Going'
<1>1. TypeOK /\ OutcomesAgree /\ Marking /\ Going /\ status = "initializing"
  BY DEF StrandInv, Underway
<1>2. ~ At(f, "idle") /\ ~ At(f, "dlqFinalize") /\ flow[f] \in Activation
  BY <1>1, FlowFacts DEF Load, Resume, Release, Released, Enqueue, Finalize, At
<1>3. ASSUME NEW pc \in Step, Goto(f, pc), pc # "ack", UNCHANGED <<queue, dlq>> PROVE Going'
  <2>1. Only(f) /\ \A j \in Job : Held(j)' = Held(j)
    BY <1>1, <1>2, <1>3, GotoFacts DEF Held
  <2>2. GoesOn(f) => Going'
    BY <1>1, <1>2, <1>3, StepsOn
  <2> QED
    BY <1>1, <2>1, <2>2, StillGoing
<1>4. CASE Load(f)
  <2>1. AfterLoad(f) = "resume"
    BY <1>1 DEF AfterLoad, Acknowledged, Terminal
  <2> QED
    BY <1>3, <1>4, <2>1 DEF Load, Step
<1>5. CASE Resume(f)
  <2>1. CASE lease # NoLease /\ lease.worker # Proc(f)
    BY <1>1, <1>2, <1>5, <2>1, RejectHandsBack DEF Resume
  <2>2. CASE ~ (lease # NoLease /\ lease.worker # Proc(f))
    <3> PICK token : flow' = [flow EXCEPT ![f] = [@ EXCEPT !.pc = "run", !.token = token]]
                     /\ UNCHANGED <<queue, dlq>>
      BY <1>5, <2>2 DEF Resume
    <3>1. Only(f) /\ flow'[f].pc = "run" /\ flow'[f].superseded = flow[f].superseded
      BY <1>1, <1>2 DEF Only, TypeOK, Activation
    <3>2. GoesOn(f) => GoesOn(f)'
      BY <1>2, <3>1 DEF GoesOn, Acts, At
    <3>3. \A j \in Job : Held(j)' = Held(j)
      BY DEF Held
    <3> QED
      BY <1>1, <3>1, <3>2, <3>3, StillGoing DEF Going
  <2> QED
    BY <2>1, <2>2
<1>6. CASE Release(f)
  <2>1. CASE Reject(f)
    BY <1>1, <1>2, <2>1, RejectHandsBack
  <2>2. CASE Goto(f, AfterRelease(f)) /\ UNCHANGED <<queue, dlq>>
    <3>1. CASE AfterRelease(f) \in {"enqueue", "finalize"}
      BY <1>3, <2>2, <3>1 DEF Step
    <3>2. CASE AfterRelease(f) = DlqEntry(f)
      <4>1. Only(f) /\ \A j \in Job : Held(j)' = Held(j)
        BY <1>1, <1>2, <2>2, <3>2, EntryIsStep, GotoFacts DEF Held, Step
      <4>2. GoesOn(f) => Going'
        BY <1>1, <1>2, <2>2, <3>2, EntryStepsOn
      <4> QED
        BY <1>1, <4>1, <4>2, StillGoing
    <3> QED
      BY <3>1, <3>2 DEF AfterRelease
  <2> QED
    BY <1>6, <2>1, <2>2 DEF Release, Released
<1>7. CASE Enqueue(f)
  <2> PICK k \in Job : k = NextTurn(flow[f].job)
    BY <1>1, <1>7, NextTurnFacts DEF Enqueue
  <2> QED
    BY <1>1, <1>7, HeldMore DEF Enqueue
<1>8. ~ Finalize(f)
  BY DEF Finalize, Underway
<1> QED
  BY <1>4, <1>5, <1>6, <1>7, <1>8

LEMMA RunGoesOn ==
    ASSUME StrandInv, Underway, NEW f \in Flow, NEW outcome, Run(f, outcome)
    PROVE  Going'
<1>1. TypeOK /\ Going /\ flow[f] \in Activation
  BY FlowFacts DEF StrandInv, Run, At
<1>2. Only(f) /\ flow'[f].pc = "release" /\ flow'[f].superseded = flow[f].superseded
  BY <1>1 DEF Run, Only, TypeOK, Activation
<1>3. GoesOn(f) => GoesOn(f)'
  BY <1>2 DEF Run, GoesOn, Acts, At
<1>4. \A j \in Job : Held(j)' = Held(j)
  BY DEF Run, Held
<1> QED
  BY <1>1, <1>2, <1>3, <1>4, StillGoing DEF Going

\* The steps of the emission, the observer's look, the end of the handler.
LEMMA EmissionGoesOn ==
    ASSUME Apart, StrandInv, Underway, Underway', NEW f \in Flow,
           DlqLoad(f) \/ DlqFinalize(f) \/ ObserveLoad(f) \/ Echo(f) \/ Ack(f)
    PROVE  Going'
<1>1. TypeOK /\ Marking /\ Going /\ status = "initializing" /\ status' = "initializing"
  BY DEF StrandInv, Underway
<1>2. ~ DlqFinalize(f) /\ ~ Echo(f)
  BY <1>1 DEF DlqFinalize, Echo, Marking
<1>3. ~ At(f, "idle") /\ ~ At(f, "dlqFinalize")
  BY <1>2 DEF DlqLoad, ObserveLoad, Echo, Ack, At
<1>4. CASE DlqLoad(f)
  <2>1. Only(f) /\ \A j \in Job : Held(j)' = Held(j)
    BY <1>1, <1>3, <1>4, GotoFacts DEF DlqLoad, Held, Step
  <2>2. GoesOn(f) => Going'
    BY <1>1, <1>3, <1>4, StepsOn DEF DlqLoad, Step
  <2> QED
    BY <1>1, <2>1, <2>2, StillGoing
<1>5. CASE ObserveLoad(f)
  <2>0. Goto(f, DlqEntry(f))
    BY <1>1, <1>5 DEF ObserveLoad
  <2>1. Only(f) /\ \A j \in Job : Held(j)' = Held(j)
    BY <1>1, <1>3, <1>5, <2>0, EntryIsStep, GotoFacts DEF ObserveLoad, Held, Step
  <2>2. GoesOn(f) => Going'
    BY <1>1, <1>3, <2>0, EntryStepsOn
  <2> QED
    BY <1>1, <2>1, <2>2, StillGoing
<1>6. CASE Ack(f)
  <2>1. CASE Signals(f)
    <3>1. flow[f].job \in Job
      BY <1>1, <1>3, FlowFacts, ActivationFacts
    <3> QED
      BY <1>1, <1>6, <2>1, <3>1, HeldMore DEF Ack
  <2>2. CASE ~ Signals(f)
    <3>1. ~ GoesOn(f)
      BY <1>3, <1>6, <2>2 DEF Ack, GoesOn, Acts
    <3>2. Only(f) /\ \A j \in Job : Held(j)' = Held(j)
      BY <1>1, <1>6, <2>2, LeaveFacts DEF Ack, Held
    <3> QED
      BY <1>1, <3>1, <3>2, StillGoing
  <2> QED
    BY <2>1, <2>2
<1> QED
  BY <1>2, <1>4, <1>5, <1>6

\* A flow that takes a job goes on with it, or finds the emission remembered.
LEMMA ReceiverGoesOn ==
    ASSUME Apart, StrandInv, Underway, NEW f \in Flow, NEW j \in Job, Deliver(f, j) \/ Observe(f, j)
    PROVE  Going'
<1>1. TypeOK /\ Marking /\ At(f, "idle")
  BY DEF StrandInv, Deliver, Observe
<1> PICK pc, outcome :
        /\ flow' = [flow EXCEPT ![f] = [pc |-> pc, job |-> j, token |-> 0,
                                        outcome |-> outcome, superseded |-> FALSE]]
        /\ pc \in {"load", "dlqLoad", "observe"} \/ (pc = "ack" /\ dlqEmitted[Proc(f)])
  <2>1. CASE Deliver(f, j) /\ Expired
    BY <2>1 DEF Deliver, DlqEntry
  <2>2. CASE Deliver(f, j) /\ ~ Expired
    BY <2>2 DEF Deliver
  <2>3. CASE Observe(f, j)
    BY <2>3 DEF Observe
  <2> QED
    BY <2>1, <2>2, <2>3
<1>2. Only(f) /\ flow'[f].pc = pc /\ ~ flow'[f].superseded
  BY <1>1 DEF Only, TypeOK
<1>3. CASE pc = "ack" /\ dlqEmitted[Proc(f)]
  BY <1>1, <1>2, <1>3, MarkerGoesOn DEF At
<1>4. CASE pc \in {"load", "dlqLoad", "observe"}
  BY <1>2, <1>4 DEF Going, GoesOn, Acts, At
<1> QED
  BY <1>3, <1>4

\* What a dying process had in hand comes back.
LEMMA CrashGoesOn ==
    ASSUME StrandInv, Underway, NEW p \in Process, Crash(p)
    PROVE  Going'
<1>1. TypeOK /\ Going /\ status = "initializing" /\ MaxCrash # 0
  BY DEF StrandInv, Underway, Crash, TypeOK
<1>2. \A j \in Job : /\ queue[j] \in Nat /\ dlq[j] \in Nat
                     /\ queue'[j] = queue[j] + Cardinality(BackInQueue(p, j))
                     /\ dlq'[j] = dlq[j] + Cardinality(BackInDlq(p, j))
  BY <1>1 DEF Crash, TypeOK
<1>3. CASE \E j \in Job : Held(j) > 0
  <2> PICK j \in Job : Held(j) > 0
    BY <1>3
  <2>1. Held(j)' > 0
    BY <1>2, BackTyped DEF Held
  <2> QED
    BY <2>1 DEF Going
<1>4. CASE \E f \in Flow : GoesOn(f)
  <2> PICK f \in Flow : GoesOn(f)
    BY <1>4
  <2>1. Acts(f) /\ ~ flow[f].superseded /\ ~ At(f, "idle")
    BY <1>1 DEF GoesOn, Acts
  <2>2. CASE Proc(f) # p
    <3>1. flow'[f] = flow[f]
      BY <2>2 DEF Crash
    <3>2. GoesOn(f)'
      BY <2>1, <3>1 DEF GoesOn, Acts, At, Signals
    <3> QED
      BY <3>2 DEF Going
  <2>3. CASE Proc(f) = p
    <3>1. f \in HandledBy(p) /\ flow[f].job \in Job
      BY <1>1, <2>1, <2>3, FlowFacts, ActivationFacts DEF HandledBy
    <3> PICK j \in Job : j = flow[f].job
      BY <3>1
    <3> PICK k \in Job : f \in BackInQueue(p, k) \/ f \in BackInDlq(p, k)
      <4>1. CASE flow[f].outcome # "observer" /\ ComesBack(j)
        <5> PICK k : k = [j EXCEPT !.attempt = @ + 1]
          OBVIOUS
        <5>1. k \in Job
          BY <4>1 DEF Job, ComesBack
        <5> QED
          BY <3>1, <4>1, <5>1 DEF BackInQueue
      <4>2. CASE flow[f].outcome = "observer" \/ ~ ComesBack(j)
        BY <1>1, <3>1, <4>2 DEF BackInDlq
      <4> QED
        BY <4>1, <4>2
    <3>2. Cardinality(BackInQueue(p, k)) + Cardinality(BackInDlq(p, k)) > 0
      BY BackTyped, FS_EmptySet
    <3>3. Held(k)' > 0
      BY <1>2, <3>2, BackTyped DEF Held
    <3> QED
      BY <3>3 DEF Going
  <2> QED
    BY <2>2, <2>3
<1> QED
  BY <1>1, <1>3, <1>4 DEF Going

LEMMA RedeliveryGoesOn ==
    ASSUME StrandInv, NEW f \in Flow, Redeliver(f)
    PROVE  Going'
<1>1. TypeOK /\ ComesBack(flow[f].job) /\ flow[f].job \in Job
  BY FlowFacts, ActivationFacts DEF StrandInv, Redeliver
<1> PICK j \in Job : j = flow[f].job
  BY <1>1
<1> PICK k : k = [j EXCEPT !.attempt = @ + 1]
  OBVIOUS
<1>2. k \in Job
  BY <1>1 DEF Job, ComesBack
<1>3. queue' = Add(queue, k) /\ dlq' = dlq
  BY <1>1 DEF Redeliver, Requeued
<1> QED
  BY <1>1, <1>2, <1>3, HeldMore

\* The first job.
LEMMA BeginGoesOn == ASSUME StrandInv, EnqueueFirst \/ Tick PROVE Going'
<1>1. TypeOK /\ FirstJob \in Job /\ queue' = Add(queue, FirstJob) /\ dlq' = dlq
  BY DEF StrandInv, EnqueueFirst, Tick, FirstJob, Job, Turn
<1> QED
  BY <1>1, HeldMore

\* The session was underway before, unless it has just begun.
LEMMA UnderwayBefore ==
    ASSUME TypeOK, Next, Underway', ~ EnqueueFirst, ~ Tick
    PROVE  Underway /\ ~ Create /\ \A f \in Flow : ~ CallFails(f)
<1>1. \A f \in Flow : ~ CallFails(f)
  BY FailureCounts DEF Underway
<1>2. ~ Create
  BY DEF Create, Underway
<1>3. started' = started
  BY <1>1, <1>2 DEF Next, Receive, Deliver, Observe, Expire, Deadline, Handle, Load, Resume, Release, Run,
        Enqueue, Finalize, DlqLoad, DlqFinalize, ObserveLoad, Echo, Ack, Redeliver, Crash
<1>4. faults'.fail = faults.fail
  <2>1. CASE faults' = faults
    BY <2>1
  <2>2. CASE (\E f \in Flow : Redeliver(f)) \/ (\E p \in Process : Crash(p))
    BY <2>2 DEF Redeliver, Crash, TypeOK
  <2> QED
    BY <1>1, <1>2, <2>1, <2>2 DEF Next, Receive, Deliver, Observe, Expire, Deadline, Handle, Load, Resume,
        Release, Run, Enqueue, Finalize, DlqLoad, DlqFinalize, ObserveLoad, Echo, Ack
<1>5. status' = "initializing" => status = "initializing"
  BY <1>1, <1>2 DEF Next, Receive, Deliver, Observe, Expire, Deadline, Handle, Load, Resume, Release, Run,
        Enqueue, Finalize, DlqLoad, DlqFinalize, ObserveLoad, Echo, Ack, Redeliver, Crash
<1> QED
  BY <1>1, <1>2, <1>3, <1>4, <1>5 DEF Underway

\* Somebody goes on after every step.
LEMMA GoingKept == ASSUME Apart, StrandInv, Next, Underway' PROVE Going'
<1>1. CASE EnqueueFirst \/ Tick
  BY <1>1, BeginGoesOn
<1>2. CASE ~ EnqueueFirst /\ ~ Tick
  <2>1. Underway /\ ~ Create /\ (\A f \in Flow : ~ CallFails(f)) /\ Going
    BY <1>2, UnderwayBefore DEF StrandInv
  <2>2. CASE Receive
    BY <2>1, <2>2, ReceiverGoesOn DEF Receive
  <2>3. CASE Expire \/ Deadline
    BY <2>1, <2>3 DEF Expire, Deadline, Going, Held, GoesOn, Acts, At, Signals
  <2>4. ASSUME NEW f \in Flow, Handle(f) PROVE Going'
    BY <2>1, <2>4, HandlerGoesOn, EmissionGoesOn, RunGoesOn DEF Handle
  <2>5. ASSUME NEW f \in Flow, Redeliver(f) PROVE Going'
    BY <2>5, RedeliveryGoesOn
  <2>6. ASSUME NEW p \in Process, Crash(p) PROVE Going'
    BY <2>1, <2>6, CrashGoesOn
  <2> QED
    BY <1>2, <2>1, <2>2, <2>3, <2>4, <2>5, <2>6 DEF Next
<1> QED
  BY <1>1, <1>2

\* Before the first job nothing moves.
LEMMA NotBegunKept == ASSUME StrandInv, Next PROVE NotBegun'
<1> SUFFICES ASSUME ~ started'
             PROVE  ~ started /\ UNCHANGED <<queue, dlq, flow, dlqEmitted>>
  BY DEF StrandInv, NotBegun, At
<1>1. started' = started \/ started' = TRUE
  BY DEF Next, Create, EnqueueFirst, Tick, Receive, Deliver, Observe, Expire, Deadline, Handle, Load, Resume,
         Release, Run, Enqueue, Finalize, DlqLoad, DlqFinalize, ObserveLoad, Echo, Ack, Redeliver, Crash, CallFails
<1>2. /\ ~ started /\ (\A f \in Flow : At(f, "idle")) /\ (\A j \in Job : queue[j] = 0 /\ dlq[j] = 0)
      /\ TypeOK
  BY <1>1 DEF StrandInv, NotBegun
<1>3. ~ Receive
  BY <1>2 DEF Receive, Deliver, Observe
<1>4. \A f \in Flow : ~ Handle(f) /\ ~ Redeliver(f) /\ ~ CallFails(f)
  BY <1>2 DEF Handle, Load, Resume, Release, Released, Run, Enqueue, Finalize, DlqLoad, DlqFinalize,
              ObserveLoad, Echo, Ack, Redeliver, CallFails, At
<1>5. \A p \in Process : ~ Crash(p)
  BY <1>2 DEF Crash
<1>6. ~ EnqueueFirst /\ ~ Tick
  BY DEF EnqueueFirst, Tick
<1> QED
  BY <1>2, <1>3, <1>4, <1>5, <1>6 DEF Next, Create, Expire, Deadline

\* Flow f alone moves, and neither leaves the mark of the session nor echoes.
LEMMA MarkingByOthers ==
    ASSUME Marking, Underway, NEW f \in Flow, Only(f), dlqEmitted' = dlqEmitted,
           At(f, "dlqFinalize") => At(f, "dlqFinalize")', ~ At(f, "echo")'
    PROVE  Marking'
  BY DEF Marking, Only, At

\* A flow of the handler's changes no other.
LEMMA HandleIsOnly == ASSUME TypeOK, NEW f \in Flow, Handle(f) PROVE Only(f)
  BY DEF Handle, Load, Resume, Release, Released, Run, Enqueue, Finalize, DlqLoad, DlqFinalize,
         ObserveLoad, Echo, Ack, Reject, Leave, Goto, Only, TypeOK

\* A handler's step leaves a mark only by making it, and does not echo before.
LEMMA HandleMarks ==
    ASSUME StrandInv, Underway, Underway', NEW f \in Flow, Handle(f)
    PROVE  Marking'
<1>1. TypeOK /\ Marking /\ Only(f) /\ status' = "initializing" /\ status = "initializing"
  BY HandleIsOnly DEF StrandInv, Underway
<1>2. ~ DlqFinalize(f)
  BY <1>1 DEF DlqFinalize
<1>3. CASE DlqLoad(f)
  <2>1. flow'[f].pc = "dlqFinalize"
    BY <1>1, <1>3, GotoFacts DEF DlqLoad, At, Step
  <2>2. dlqEmitted \in [Process -> BOOLEAN] /\ dlqEmitted' = [dlqEmitted EXCEPT ![Proc(f)] = TRUE]
    BY <1>1, <1>3 DEF DlqLoad, Marked, TypeOK
  <2>3. ~ At(f, "dlqFinalize")
    BY <1>3 DEF DlqLoad, At
  <2>4. ASSUME NEW p \in Process, dlqEmitted'[p]
        PROVE  \E g \in Flow : Proc(g) = p /\ At(g, "dlqFinalize")'
    <3>1. CASE p = Proc(f)
      BY <2>1, <3>1 DEF At
    <3>2. CASE p # Proc(f)
      <4>1. PICK g \in Flow : Proc(g) = p /\ At(g, "dlqFinalize")
        BY <1>1, <2>2, <2>4, <3>2 DEF Marking
      <4> QED
        BY <1>1, <3>2, <4>1 DEF Only, At
    <3> QED
      BY <3>1, <3>2
  <2>5. \A g \in Flow : ~ At(g, "echo")'
    BY <1>1, <2>1 DEF Marking, Only, At
  <2> QED
    BY <2>4, <2>5 DEF Marking
<1>4. CASE ~ DlqLoad(f)
  <2>1. dlqEmitted' = dlqEmitted /\ ~ At(f, "dlqFinalize")
    BY <1>2, <1>4 DEF Handle, Load, Resume, Release, Released, Run, Enqueue, Finalize, ObserveLoad, Echo, Ack, At
  <2>2. flow'[f].pc # "echo"
    <3> USE <1>1, <1>2, <1>4
    <3>1. CASE Load(f) \/ Enqueue(f) \/ Finalize(f) \/ ObserveLoad(f) \/ Echo(f)
      <4> PICK pc \in {"resume", "dlqLoad", "ack"} : Goto(f, pc)
        BY <3>1, EntryIsStep DEF Load, AfterLoad, Enqueue, Finalize, ObserveLoad, Echo
      <4>1. ~ At(f, "idle")
        BY <3>1 DEF Load, Enqueue, Finalize, ObserveLoad, Echo, At
      <4> QED
        BY <4>1, GotoFacts DEF Step
    <3>2. CASE \E outcome \in {"throw", "yield", "complete", "dead_letter"} : Run(f, outcome)
      <4>1. flow[f] \in Activation
        BY <3>2, FlowFacts DEF Run, At
      <4>2. flow'[f].pc = "release"
        BY <3>2, <4>1 DEF Run, Activation, TypeOK
      <4> QED
        BY <4>2
    <3>3. CASE Release(f) /\ Goto(f, AfterRelease(f))
      <4> PICK pc \in {"enqueue", "finalize", "dlqLoad", "ack"} : Goto(f, pc)
        BY <3>3, EntryIsStep DEF AfterRelease
      <4>1. ~ At(f, "idle")
        BY <3>3 DEF Release, Released, At
      <4> QED
        BY <4>1, GotoFacts DEF Step
    <3>4. CASE Ack(f) \/ Reject(f)
      BY <3>4, LeaveFacts DEF Ack, Reject
    <3>5. CASE Resume(f) /\ ~ Reject(f)
      <4>1. flow[f] \in Activation
        BY <3>5, FlowFacts DEF Resume, At
      <4> PICK token : flow' = [flow EXCEPT ![f] = [@ EXCEPT !.pc = "run", !.token = token]]
        BY <3>5 DEF Resume
      <4>2. flow'[f].pc = "run"
        BY <4>1 DEF Activation, TypeOK
      <4> QED
        BY <4>2
    <3>6. \/ Load(f) \/ Resume(f) \/ Release(f) \/ Enqueue(f) \/ Finalize(f)
          \/ ObserveLoad(f) \/ Echo(f) \/ Ack(f)
          \/ \E outcome \in {"throw", "yield", "complete", "dead_letter"} : Run(f, outcome)
      BY DEF Handle
    <3>7. Release(f) => Reject(f) \/ Goto(f, AfterRelease(f))
      BY DEF Release, Released
    <3> QED
      BY <3>1, <3>2, <3>3, <3>4, <3>5, <3>6, <3>7
  <2> QED
    BY <1>1, <2>1, <2>2, MarkingByOthers DEF At
<1> QED
  BY <1>3, <1>4

LEMMA MarkingKept == ASSUME StrandInv, Next PROVE Marking'
<1> SUFFICES ASSUME Underway' PROVE Marking'
  BY DEF Marking
<1>0. TypeOK /\ Marking
  BY DEF StrandInv
<1>1. CASE EnqueueFirst \/ Tick
  <2>1. ~ started /\ UNCHANGED <<flow, dlqEmitted>>
    BY <1>1 DEF EnqueueFirst, Tick
  <2>2. (\A f \in Flow : At(f, "idle")) /\ \A p \in Process : ~ dlqEmitted[p]
    BY <2>1 DEF StrandInv, NotBegun
  <2> QED
    BY <2>1, <2>2 DEF Marking, At
<1>2. CASE ~ EnqueueFirst /\ ~ Tick
  <2>1. Underway /\ ~ Create /\ (\A f \in Flow : ~ CallFails(f))
    BY <1>0, <1>2, UnderwayBefore
  <2>2. ASSUME NEW f \in Flow, NEW j \in Job, Deliver(f, j) \/ Observe(f, j) PROVE Marking'
    <3> PICK pc, outcome :
            /\ flow' = [flow EXCEPT ![f] = [pc |-> pc, job |-> j, token |-> 0,
                                            outcome |-> outcome, superseded |-> FALSE]]
            /\ pc \in {"load", "dlqLoad", "observe", "ack"}
      BY <2>2 DEF Deliver, Observe, DlqEntry
    <3>1. Only(f) /\ flow'[f].pc # "echo" /\ ~ At(f, "dlqFinalize") /\ dlqEmitted' = dlqEmitted
      BY <1>0, <2>2 DEF Only, TypeOK, Deliver, Observe, At
    <3> QED
      BY <1>0, <2>1, <3>1, MarkingByOthers DEF At
  <2>3. CASE Expire \/ Deadline
    BY <1>0, <2>1, <2>3 DEF Expire, Deadline, Marking, At
  <2>4. ASSUME NEW f \in Flow, Handle(f) PROVE Marking'
    BY <2>1, <2>4, HandleMarks
  <2>5. ASSUME NEW f \in Flow, Redeliver(f) PROVE Marking'
    <3>1. flow[f] \in Activation /\ dlqEmitted' = dlqEmitted
      BY <1>0, <2>5, FlowFacts DEF Redeliver
    <3>2. Only(f) /\ flow'[f].pc = flow[f].pc
      BY <1>0, <2>5, <3>1 DEF Redeliver, Only, TypeOK, Activation
    <3>3. ~ At(f, "echo")
      BY <1>0, <2>1 DEF Marking
    <3> QED
      BY <1>0, <2>1, <3>1, <3>2, <3>3, MarkingByOthers DEF At
  <2>6. ASSUME NEW p \in Process, Crash(p) PROVE Marking'
    <3>1. /\ dlqEmitted' = [dlqEmitted EXCEPT ![p] = FALSE]
          /\ flow' = [f \in Flow |-> IF Proc(f) = p THEN Idle ELSE flow[f]]
      BY <2>6 DEF Crash
    <3>2. \A f \in Flow : ~ At(f, "echo")'
      BY <1>0, <2>1, <3>1, IdleType DEF Marking, At
    <3>3. ASSUME NEW q \in Process, dlqEmitted'[q]
          PROVE  \E f \in Flow : Proc(f) = q /\ At(f, "dlqFinalize")'
      <4>1. q # p /\ dlqEmitted[q]
        BY <1>0, <3>1, <3>3 DEF TypeOK
      <4>2. PICK f \in Flow : Proc(f) = q /\ At(f, "dlqFinalize")
        BY <1>0, <2>1, <4>1 DEF Marking
      <4> QED
        BY <3>1, <4>1, <4>2 DEF At
    <3> QED
      BY <3>2, <3>3 DEF Marking
  <2> QED
    BY <1>2, <2>1, <2>2, <2>3, <2>4, <2>5, <2>6 DEF Next, Receive
<1> QED
  BY <1>1, <1>2

LEMMA StrandStep == Apart /\ StrandInv /\ [Next]_vars => StrandInv'
<1> SUFFICES ASSUME Apart, StrandInv, [Next]_vars PROVE StrandInv'
  OBVIOUS
<1>1. Base'
  BY BaseStep DEF StrandInv, Base
<1>2. CASE UNCHANGED vars
  <2>1. NotBegun' /\ Marking' /\ (Underway' <=> Underway)
    BY <1>2 DEF vars, StrandInv, NotBegun, Marking, Underway, At
  <2>2. Going => Going'
    BY <1>2 DEF vars, Going, Held, GoesOn, Acts, At, Signals
  <2> QED
    BY <1>1, <2>1, <2>2 DEF StrandInv, Base
<1>3. CASE Next
  BY <1>1, <1>3, NotBegunKept, MarkingKept, GoingKept DEF StrandInv, Base
<1> QED
  BY <1>2, <1>3

\* A session that was begun and has not ended always has somebody who will go on with it:
\* a job with the platform or a flow that acts, whatever crashes, comes again, is fenced
\* off or runs out of attempts, as long as no call fails and a process that may crash has
\* one flow (dispatch, completeTurn, enqueueNext, onDeadLetter).
THEOREM SessionIsNeverStranded == Apart => (Spec => []NeverStranded)
<1> SUFFICES ASSUME Apart PROVE Spec => []NeverStranded
  OBVIOUS
<1>1. Init => StrandInv
  <2> SUFFICES ASSUME Init PROVE StrandInv
    OBVIOUS
  <2>1. TypeOK /\ OutcomesAgree
    BY InitHolds DEF IInv
  <2>2. ~ started /\ NotBegun
    BY IdleType DEF Init, NotBegun, At
  <2> QED
    BY <2>1, <2>2 DEF StrandInv, Marking, Underway
<1>2. StrandInv /\ [Next]_vars => StrandInv'
  BY StrandStep
<1>3. StrandInv => NeverStranded
  BY DEF StrandInv, NeverStranded, Going, GoesOn, Acts, At
<1> QED
  BY <1>1, <1>2, <1>3, PTL DEF Spec

-----------------------------------------------------------------------------
(* The platform delivers, one thing at a time. *)

LEMMA CreateKeeps == ASSUME IInv, Base', Create PROVE IInv'
<1>1. UNCHANGED <<started, lease, queue, dlq, flow, dlqEmitted, events, executed, processed,
                  pastDeadline, faults>> /\ status' = "initializing" /\ ~ started
  BY DEF Create
<1>2. OneChain' /\ NothingAtEnds'
  BY <1>1 DEF IInv, OneChain, NothingAtEnds, Acts, At, Signals, Held
<1>3. LeaseReturned'
  BY <1>1 DEF IInv, LeaseReturned, At
<1>4. EmissionRemembered'
  BY <1>1 DEF IInv, NothingAtEnds, EmissionRemembered, At
<1> QED
  BY <1>2, <1>3, <1>4 DEF IInv, Base

\* The first job, of the session or of a scheduled tick.
LEMMA EnqueueFirstKeeps == ASSUME IInv, Base', EnqueueFirst \/ Tick PROVE IInv'
<1>1. UNCHANGED <<status, lease, dlq, flow, dlqEmitted, events, executed, processed,
                  pastDeadline, faults>> /\ started' = TRUE /\ ~ started
  BY DEF EnqueueFirst, Tick
<1>2. TypeOK /\ OneChain /\ NothingAtEnds
  BY DEF IInv
<1> PICK k : k = FirstJob
  OBVIOUS
<1>3. k \in Job
  BY DEF FirstJob, Job, Turn
<1>4. queue' = Add(queue, k) /\ queue \in [Job -> Nat]
  BY <1>2 DEF EnqueueFirst, Tick, TypeOK
<1>5. /\ \A j \in Job : queue[j] = 0 /\ dlq[j] = 0
      /\ \A f \in Flow : ~ Acts(f)
  BY <1>1, <1>2, JobCounts DEF NothingAtEnds
<1>6. /\ queue' \in [Job -> Nat] /\ queue'[k] = 1
      /\ \A j \in Job : j # k => queue'[j] = 0
  BY <1>3, <1>4, <1>5, AddFacts
<1>7. \A f \in Flow : ~ Acts(f)'
  BY <1>1, <1>5 DEF Acts, At, Signals
<1>8. \A j \in Job : Held(j)' \in {0, 1} /\ (j # k => Held(j)' = 0)
  BY <1>1, <1>5, <1>6 DEF Held
<1>9. OneChain'
  BY <1>7, <1>8 DEF OneChain
<1>11. NothingAtEnds'
  BY <1>1, <1>2 DEF NothingAtEnds
<1>12. LeaseReturned'
  BY <1>1 DEF IInv, OutcomesAgree, LeaseReturned, At
<1>14. EmissionRemembered'
  BY <1>1, <1>2 DEF IInv, NothingAtEnds, EmissionRemembered, At
<1> QED
  BY <1>9, <1>11, <1>12, <1>14 DEF IInv, Base

\* A flow takes a job: there is no other, and none acts.
LEMMA TakeFacts ==
    ASSUME TypeOK, OneChain, NEW f \in Flow, At(f, "idle"), NEW j \in Job, Held(j) > 0, Only(f),
           \/ queue[j] > 0 /\ queue' = Remove(queue, j) /\ dlq' = dlq
           \/ dlq[j] > 0 /\ dlq' = Remove(dlq, j) /\ queue' = queue
    PROVE  /\ OneChain'
           /\ queue' \in [Job -> Nat] /\ dlq' \in [Job -> Nat]
           /\ \A k \in Job : Held(k)' = 0 /\ queue'[k] = 0 /\ dlq'[k] = 0
<1>1. queue \in [Job -> Nat] /\ dlq \in [Job -> Nat]
  BY DEF TypeOK
<1>2. \A k \in Job : queue[k] \in Nat /\ dlq[k] \in Nat /\ Held(k) = queue[k] + dlq[k] /\ Held(k) <= 1
  BY JobCounts DEF OneChain
<1>3. \A k \in Job : k # j => queue[k] = 0 /\ dlq[k] = 0
  BY <1>2 DEF OneChain
<1>4. \A g \in Flow : ~ Acts(g)
  BY DEF OneChain
<1>5. /\ queue' \in [Job -> Nat] /\ dlq' \in [Job -> Nat]
      /\ \A k \in Job : queue'[k] = 0 /\ dlq'[k] = 0
  BY <1>1, <1>2, <1>3, RemoveFacts
<1>6. \A k \in Job : Held(k)' = 0
  BY <1>5 DEF Held
<1>7. \A g \in Flow : g # f => ~ Acts(g)'
  BY <1>4 DEF Only, Acts, At, Signals
<1>8. OneChain'
  BY <1>6, <1>7 DEF OneChain
<1> QED
  BY <1>5, <1>6, <1>8

LEMMA DeliverKeeps == ASSUME IInv, Base', NEW f \in Flow, NEW j \in Job, Deliver(f, j) PROVE IInv'
<1>1. TypeOK /\ OneChain /\ NothingAtEnds /\ OutcomesAgree /\ EmissionRemembered /\ LeaseReturned
  BY DEF IInv
<1>2. /\ UNCHANGED <<started, status, lease, dlq, dlqEmitted, events, executed, processed,
                     pastDeadline, faults>>
      /\ At(f, "idle") /\ queue[j] > 0 /\ queue' = Remove(queue, j)
  BY DEF Deliver
<1>3. events = 0 /\ Held(j) > 0
  BY <1>1, <1>2, EmissionFacts, JobCounts DEF EmissionRemembered
<1>4. started /\ status # "completed"
  BY <1>1, <1>3 DEF NothingAtEnds
<1> PICK pc \in {"load", "dlqLoad"}, outcome \in {"none", "expired"} :
        /\ flow' = [flow EXCEPT ![f] = [pc |-> pc, job |-> j, token |-> 0,
                                        outcome |-> outcome, superseded |-> FALSE]]
        /\ pc = "load" => outcome = "none"
  BY <1>1, <1>3, EmissionFacts DEF Deliver
<1>5. /\ flow' \in [Flow -> Activation \cup {Idle}] /\ Only(f)
      /\ flow'[f].pc = pc /\ flow'[f].job = j /\ flow'[f].outcome = outcome
  BY <1>1, BeginFacts
<1>6. OneChain' /\ queue' \in [Job -> Nat] /\ \A k \in Job : queue'[k] = 0
  BY <1>1, <1>2, <1>3, <1>5, TakeFacts
<1>8. NothingAtEnds'
  BY <1>2, <1>4 DEF NothingAtEnds
<1>10. EmissionRemembered'
  BY <1>1, <1>2, <1>3, <1>5, EmissionFacts, NotYetEmitted DEF Only
<1>12. LeaseReturned'
  BY <1>1, <1>2, <1>5, LeaseKept DEF At
<1> QED
  BY <1>6, <1>8, <1>10, <1>12 DEF IInv, Base

LEMMA ObserveKeeps == ASSUME IInv, Base', NEW f \in Flow, NEW j \in Job, Observe(f, j) PROVE IInv'
<1>1. TypeOK /\ OneChain /\ NothingAtEnds /\ OutcomesAgree /\ EmissionRemembered /\ LeaseReturned
  BY DEF IInv
<1>2. /\ UNCHANGED <<started, status, lease, queue, dlqEmitted, events, executed, processed,
                     pastDeadline, faults>>
      /\ At(f, "idle") /\ dlq[j] > 0 /\ dlq' = Remove(dlq, j)
  BY DEF Observe
<1>3. Held(j) > 0
  BY <1>1, <1>2, JobCounts
<1>4. started /\ status # "completed"
  BY <1>1, <1>3 DEF NothingAtEnds
<1> PICK pc \in {"observe", "ack"} :
        flow' = [flow EXCEPT ![f] = [pc |-> pc, job |-> j, token |-> 0,
                                     outcome |-> "observer", superseded |-> FALSE]]
  BY DEF Observe
<1>5. /\ flow' \in [Flow -> Activation \cup {Idle}] /\ Only(f)
      /\ flow'[f].pc = pc /\ flow'[f].job = j /\ flow'[f].outcome = "observer"
  BY <1>1, BeginFacts
<1>6. OneChain' /\ dlq' \in [Job -> Nat]
  BY <1>1, <1>2, <1>3, <1>5, TakeFacts
<1>8. NothingAtEnds'
  BY <1>2, <1>4 DEF NothingAtEnds
<1>10. EmissionRemembered'
  BY <1>1, <1>2, <1>5 DEF EmissionRemembered, Only, At, Turning
<1>12. LeaseReturned'
  BY <1>1, <1>2, <1>5, LeaseKept DEF At
<1> QED
  BY <1>6, <1>8, <1>10, <1>12 DEF IInv, Base

-----------------------------------------------------------------------------
(* The handler. *)

\* A flow with the chain in hand goes on to a step of the handler or of the emission,
\* and touches neither jobs nor session.
LEMMA OnKeeps ==
    ASSUME IInv, Base', NEW f \in Flow, ~ At(f, "idle"), Only(f), Acts(f),
           UNCHANGED <<started, status, queue, dlq, dlqEmitted, events, processed>>,
           flow'[f].pc # "dlqFinalize",
           flow'[f].pc \in Turning => flow[f].pc \in Turning,
           flow'[f].pc = "dlqLoad" => events = 0,
           flow'[f].pc = "echo" => events # 0,
           At(f, "dlqFinalize") => faults'.fail # 0,
           faults'.fail = 0 => faults.fail = 0,
           LeaseReturned'
    PROVE  IInv'
<1>1. OneChain /\ NothingAtEnds /\ EmissionRemembered
  BY DEF IInv
<1>2. OneChain'
  BY <1>1, ChainKept
<1>3. NothingAtEnds'
  BY <1>1, ActingIsMidway DEF NothingAtEnds
<1>4. EmissionRemembered'
  <2>1. /\ \A p \in Process : events # 0 <=> dlqEmitted[p]
        /\ status = "failed" => events # 0
    BY <1>1 DEF EmissionRemembered
  <2>2. \A g \in Flow : /\ flow'[g].pc = "dlqLoad" => events = 0
                        /\ flow'[g].pc \in {"dlqFinalize", "echo"} => events # 0
    BY <1>1 DEF EmissionRemembered, Only, At
  <2>3. events # 0 => /\ \A j \in Job : queue[j] = 0
                      /\ \A g \in Flow : flow'[g].pc \notin Turning
    BY <1>1 DEF EmissionRemembered, Only
  <2>4. ASSUME events # 0, status # "absent", faults'.fail = 0, status # "failed"
        PROVE  \E g \in Flow : flow'[g].pc = "dlqFinalize"
    <3>1. PICK g \in Flow : At(g, "dlqFinalize")
      BY <1>1, <2>4 DEF EmissionRemembered
    <3>2. g # f
      BY <2>4, <3>1
    <3> QED
      BY <3>1, <3>2 DEF Only, At
  <2> QED
    BY <2>1, <2>2, <2>3, <2>4 DEF EmissionRemembered, At
<1> QED
  BY <1>2, <1>3, <1>4 DEF IInv, Base

\* A flow at a step of a turn acts, and nothing was emitted.
LEMMA TurningFacts ==
    ASSUME IInv, NEW f \in Flow, flow[f].pc \in Turning
    PROVE  /\ ~ At(f, "idle") /\ ~ At(f, "ack") /\ Acts(f) /\ events = 0
           /\ flow[f] \in Activation /\ flow[f].job \in Job
           /\ DlqEntry(f) = "dlqLoad"
           /\ flow[f].outcome = "yield" => flow[f].job.turn < MaxTurn
<1>1. ~ At(f, "idle") /\ ~ At(f, "ack")
  BY DEF At, Turning
<1> QED
  BY <1>1, FlowFacts, ActivationFacts, EmissionFacts DEF IInv, Acts, OutcomesAgree

LEMMA LoadKeeps == ASSUME IInv, Base', NEW f \in Flow, Load(f) PROVE IInv'
<1>1. TypeOK /\ OutcomesAgree /\ LeaseReturned
  BY DEF IInv
<1>2. flow[f].pc = "load" /\ flow[f].pc \in Turning
  BY DEF Load, At, Turning
<1>3. ~ At(f, "idle") /\ Acts(f) /\ events = 0 /\ DlqEntry(f) = "dlqLoad"
  BY <1>2, TurningFacts
<1> PICK pc \in {"ack", "resume", "dlqLoad"} : Goto(f, pc)
  BY <1>3 DEF Load, AfterLoad
<1>4. Only(f) /\ flow'[f].pc = pc
  BY <1>1, <1>3, GotoFacts DEF Step
<1>5. LeaseReturned'
  BY <1>1, <1>2, <1>4, LeaseKept DEF Load, At
<1> QED
  BY <1>2, <1>3, <1>4, <1>5, OnKeeps DEF Load, At

\* After a rejected delivery: the job waits again, with the same turn, or is given up.
LEMMA RejectKeeps ==
    ASSUME IInv, Base', NEW f \in Flow, flow[f].pc \in Turning, Reject(f),
           UNCHANGED <<started, status, dlqEmitted, events, processed>>, LeaseReturned'
    PROVE  IInv'
<1>1. TypeOK /\ OneChain /\ NothingAtEnds /\ EmissionRemembered
  BY DEF IInv
<1>2. Acts(f) /\ events = 0 /\ started /\ status # "completed"
  BY <1>1, TurningFacts, ActingIsMidway
<1>3. OneChain' /\ Only(f) /\ flow'[f].pc = "idle"
  BY <1>1, <1>2, RejectFacts
<1>4. NothingAtEnds'
  BY <1>2 DEF NothingAtEnds
<1>5. EmissionRemembered'
  BY <1>1, <1>2, <1>3, EmissionFacts, NotYetEmitted DEF Only
<1> QED
  BY <1>3, <1>4, <1>5 DEF IInv, Base

LEMMA ResumeKeeps == ASSUME IInv, Base', NEW f \in Flow, Resume(f) PROVE IInv'
<1>1. TypeOK /\ LeaseReturned
  BY DEF IInv
<1>2. flow[f].pc = "resume" /\ flow[f].pc \in Turning
  BY DEF Resume, At, Turning
<1>3. ~ At(f, "idle") /\ Acts(f) /\ events = 0 /\ flow[f] \in Activation
  BY <1>2, TurningFacts
<1>4. CASE lease # NoLease /\ lease.worker # Proc(f)
  <2>1. Reject(f) /\ lease' = lease /\ faults' = faults
    BY <1>4 DEF Resume
  <2>2. Only(f)
    BY <1>1, <2>1, LeaveFacts DEF Reject
  <2>3. LeaseReturned'
    BY <1>1, <1>2, <2>1, <2>2, LeaseKept DEF At
  <2> QED
    BY <1>2, <2>1, <2>3, RejectKeeps DEF Resume
<1>5. CASE ~ (lease # NoLease /\ lease.worker # Proc(f))
  <2> PICK token : token = IF lease = NoLease THEN FreshToken ELSE lease.token
    OBVIOUS
  <2>1. /\ lease' = [worker |-> Proc(f), token |-> token]
        /\ flow' = [flow EXCEPT ![f] = [@ EXCEPT !.pc = "run", !.token = token]]
        /\ UNCHANGED <<queue, dlq, started, status, dlqEmitted, events, processed, faults>>
    BY <1>5 DEF Resume
  <2> PICK r : r = [flow[f] EXCEPT !.pc = "run", !.token = token]
    OBVIOUS
  <2>2. r.pc = "run" /\ r.token = token
    BY <1>3 DEF Activation
  <2>3. flow' = [flow EXCEPT ![f] = r] /\ flow \in [Flow -> Activation \cup {Idle}]
    BY <1>1, <2>1 DEF TypeOK
  <2>4. Only(f) /\ flow'[f].pc = "run" /\ flow'[f].token = token
    BY <2>2, <2>3 DEF Only
  <2>5. LeaseReturned'
    BY <2>1, <2>4 DEF LeaseReturned, At
  <2> QED
    BY <1>2, <1>3, <2>1, <2>4, <2>5, OnKeeps DEF At
<1> QED
  BY <1>4, <1>5

LEMMA RunKeeps ==
    ASSUME IInv, Base', NEW f \in Flow, NEW outcome \in {"throw", "yield", "complete", "dead_letter"}, Run(f, outcome)
    PROVE  IInv'
<1>1. TypeOK /\ LeaseReturned
  BY DEF IInv
<1>2. flow[f].pc = "run" /\ flow[f].pc \in Turning
  BY DEF Run, At, Turning
<1>3. ~ At(f, "idle") /\ Acts(f) /\ events = 0 /\ flow[f] \in Activation
  BY <1>2, TurningFacts
<1> PICK r : r = [flow[f] EXCEPT !.pc = "release", !.outcome = outcome]
  OBVIOUS
<1>4. r.pc = "release" /\ r.token = flow[f].token
  BY <1>3 DEF Activation
<1>5. flow' = [flow EXCEPT ![f] = r] /\ flow \in [Flow -> Activation \cup {Idle}]
  BY <1>1 DEF Run, TypeOK
<1>6. Only(f) /\ flow'[f].pc = "release" /\ flow'[f].token = flow[f].token
  BY <1>4, <1>5 DEF Only
<1>7. LeaseReturned'
  BY <1>1, <1>2, <1>6, LeaseKept DEF Run, At
<1> QED
  BY <1>2, <1>3, <1>6, <1>7, OnKeeps DEF Run, At

\* The turn is over: with the lease released, or with a release that failed.
LEMMA ReleasedKeeps ==
    ASSUME IInv, Base', NEW f \in Flow, Released(f),
           UNCHANGED <<started, status, dlqEmitted, events, processed>>,
           \/ lease' = Freed(f) /\ faults' = faults
           \/ lease' = lease /\ faults'.fail # 0
    PROVE  IInv'
<1>1. TypeOK /\ LeaseReturned
  BY DEF IInv
<1>2. flow[f].pc = "release" /\ flow[f].pc \in Turning
  BY DEF Released, At, Turning
<1>3. ~ At(f, "idle") /\ Acts(f) /\ events = 0 /\ DlqEntry(f) = "dlqLoad"
  BY <1>2, TurningFacts
<1>4. ASSUME Only(f) PROVE LeaseReturned'
  <2>1. CASE lease' = Freed(f) /\ faults' = faults
    <3>1. lease' \in {lease, NoLease} /\ (lease # NoLease /\ lease.token = flow[f].token => lease' = NoLease)
      BY <2>1 DEF Freed
    <3> QED
      BY <1>1, <1>4, <2>1, <3>1, LeaseKept
  <2>2. CASE faults'.fail # 0
    BY <2>2 DEF LeaseReturned
  <2> QED
    BY <2>1, <2>2
<1>5. CASE Reject(f)
  <2>1. Only(f)
    BY <1>1, <1>5, LeaveFacts DEF Reject
  <2> QED
    BY <1>2, <1>4, <1>5, <2>1, RejectKeeps
<1>6. CASE Goto(f, AfterRelease(f)) /\ queue' = queue /\ dlq' = dlq
  <2> PICK pc : pc = AfterRelease(f)
    OBVIOUS
  <2>1. pc \in {"enqueue", "finalize", "dlqLoad"}
    BY <1>3 DEF AfterRelease
  <2>2. pc \in Step /\ Goto(f, pc)
    BY <1>6, <2>1 DEF Step
  <2>3. Only(f) /\ flow'[f].pc = pc
    BY <1>1, <1>3, <2>2, GotoFacts
  <2>4. LeaseReturned'
    BY <1>4, <2>3
  <2>5. faults'.fail = 0 => faults.fail = 0
    OBVIOUS
  <2> QED
    BY <1>2, <1>3, <1>6, <2>1, <2>3, <2>4, <2>5, OnKeeps DEF At
<1> QED
  BY <1>5, <1>6 DEF Released

LEMMA ReleaseKeeps == ASSUME IInv, Base', NEW f \in Flow, Release(f) PROVE IInv'
  BY ReleasedKeeps DEF Release

LEMMA EnqueueKeeps == ASSUME IInv, Base', NEW f \in Flow, Enqueue(f) PROVE IInv'
<1>1. TypeOK /\ OneChain /\ NothingAtEnds /\ OutcomesAgree /\ EmissionRemembered /\ LeaseReturned
  BY DEF IInv
<1>2. flow[f].pc = "enqueue" /\ flow[f].outcome = "yield" /\ flow[f].pc \in Turning
  BY <1>1 DEF Enqueue, At, OutcomesAgree, Turning
<1>3. ~ At(f, "idle") /\ Acts(f) /\ events = 0
  BY <1>2, TurningFacts
<1> PICK k \in Job : k = NextTurn(flow[f].job)
  BY <1>1, <1>2, NextTurnFacts DEF At
<1>4. Only(f) /\ flow'[f].pc = "ack" /\ flow'[f].outcome = "yield"
  BY <1>1, <1>2, <1>3, GotoFacts DEF Enqueue, Step
<1>5. ~ Acts(f)'
  BY <1>4 DEF Acts, At, Signals
<1>6. OneChain'
  BY <1>1, <1>3, <1>4, <1>5, ChainPassed DEF Enqueue
<1>7. NothingAtEnds'
  BY <1>1, <1>3, ActingIsMidway DEF Enqueue, NothingAtEnds
<1>8. EmissionRemembered'
  BY <1>1, <1>3, <1>4, EmissionFacts, NotYetEmitted DEF Only, Enqueue
<1>9. LeaseReturned'
  BY <1>1, <1>2, <1>4, LeaseKept DEF Enqueue, At
<1> QED
  BY <1>6, <1>7, <1>8, <1>9 DEF IInv, Base

LEMMA FinalizeKeeps == ASSUME IInv, Base', NEW f \in Flow, Finalize(f) PROVE IInv'
<1>1. TypeOK /\ OneChain /\ NothingAtEnds /\ OutcomesAgree /\ EmissionRemembered
  BY DEF IInv
<1>2. flow[f].pc = "finalize" /\ flow[f].outcome = "complete" /\ flow[f].pc \in Turning
  BY <1>1 DEF Finalize, At, OutcomesAgree, Turning
<1>3. ~ At(f, "idle") /\ Acts(f) /\ events = 0 /\ flow[f].job \in Job
  BY <1>2, TurningFacts
<1>4. Only(f) /\ flow'[f].pc = "ack" /\ flow'[f].outcome = "complete"
  BY <1>1, <1>2, <1>3, GotoFacts DEF Finalize, Step
<1>5. ~ Acts(f)'
  BY <1>4 DEF Acts, At, Signals
<1>6. /\ OneChain' /\ \A g \in Flow : ~ Acts(g)'
      /\ \A j \in Job : queue[j] = 0 /\ dlq[j] = 0
  BY <1>1, <1>3, <1>4, <1>5, ChainPassed DEF Finalize
<1>7. \A j \in Job : queue'[j] = 0 /\ Held(j)' = 0
  BY <1>6 DEF Held, Finalize
<1>8. NothingAtEnds'
  BY <1>1, <1>3, <1>6, <1>7, ActingIsMidway DEF Finalize, NothingAtEnds
<1>9. EmissionRemembered'
  BY <1>1, <1>3, <1>4, EmissionFacts, NotYetEmitted DEF Only, Finalize
<1>10. LeaseReturned'
  BY DEF Finalize, LeaseReturned
<1> QED
  BY <1>6, <1>8, <1>9, <1>10 DEF IInv, Base

\* The emission: the one flow there is emits, and its process remembers.
LEMMA DlqLoadKeeps == ASSUME OneAtATime, IInv, Base', NEW f \in Flow, DlqLoad(f) PROVE IInv'
<1>1. TypeOK /\ OneChain /\ NothingAtEnds /\ EmissionRemembered /\ LeaseReturned
  BY DEF IInv
<1>2. flow[f].pc = "dlqLoad" /\ events = 0 /\ ~ At(f, "idle") /\ ~ At(f, "ack") /\ Acts(f)
  BY <1>1 DEF DlqLoad, At, EmissionRemembered, Acts
<1>3. Only(f) /\ flow'[f].pc = "dlqFinalize"
  BY <1>1, <1>2, GotoFacts DEF DlqLoad, Step
<1>4. events' # 0 /\ UNCHANGED <<started, status, lease, queue, dlq, processed, faults>>
  BY <1>2 DEF DlqLoad, Emit
<1>5. \A p \in Process : dlqEmitted'[p]
  <2>1. \A p \in Process : p = Proc(f)
    BY DEF OneAtATime, Process
  <2>2. dlqEmitted \in [Process -> BOOLEAN] /\ dlqEmitted' = [dlqEmitted EXCEPT ![Proc(f)] = TRUE]
    BY <1>1 DEF TypeOK, DlqLoad, Marked
  <2> QED
    BY <2>1, <2>2
<1>6. \A g \in Flow : g # f => ~ Acts(g)
  BY <1>1, <1>2 DEF OneChain
<1>7. \A g \in Flow : flow'[g].pc \notin Turning /\ flow'[g].pc # "dlqLoad"
  <2> SUFFICES ASSUME NEW g \in Flow, flow'[g].pc \in Turning \cup {"dlqLoad"} PROVE FALSE
    OBVIOUS
  <2>1. g # f
    BY <1>3 DEF Turning
  <2>2. flow[g].pc \in Turning \cup {"dlqLoad"}
    BY <1>3, <2>1 DEF Only
  <2>3. Acts(g)
    BY <2>2 DEF Acts, At, Turning
  <2> QED
    BY <1>6, <2>1, <2>3
<1>8. \A j \in Job : queue[j] = 0
  BY <1>1, <1>2, JobCounts DEF OneChain
<1>9. OneChain'
  BY <1>1, <1>2, <1>3, <1>4, ChainKept
<1>10. NothingAtEnds'
  BY <1>1, <1>2, <1>4, ActingIsMidway DEF NothingAtEnds
<1>11. EmissionRemembered'
  BY <1>3, <1>4, <1>5, <1>7, <1>8 DEF EmissionRemembered, At
<1>12. LeaseReturned'
  BY <1>1, <1>2, <1>3, <1>4, LeaseKept DEF At
<1> QED
  BY <1>9, <1>10, <1>11, <1>12 DEF IInv, Base

LEMMA DlqFinalizeKeeps == ASSUME IInv, Base', NEW f \in Flow, DlqFinalize(f) PROVE IInv'
<1>1. TypeOK /\ OneChain /\ NothingAtEnds /\ EmissionRemembered
  BY DEF IInv
<1>2. flow[f].pc = "dlqFinalize" /\ events # 0 /\ ~ At(f, "idle") /\ ~ At(f, "ack") /\ Acts(f)
  BY <1>1 DEF DlqFinalize, At, EmissionRemembered, Acts
<1>3. Only(f) /\ flow'[f].pc \in {"echo", "ack"}
  BY <1>1, <1>2, GotoFacts DEF DlqFinalize, AfterEmission, Step
<1>4. /\ UNCHANGED <<started, queue, dlq, dlqEmitted, events, processed>>
      /\ status' \in {"absent", "failed"} /\ lease' = NoLease
  BY DEF DlqFinalize
<1>5. OneChain'
  BY <1>1, <1>2, <1>3, <1>4, ChainKept
<1>6. NothingAtEnds'
  BY <1>1, <1>2, <1>4, ActingIsMidway DEF NothingAtEnds
<1>7. EmissionRemembered'
  BY <1>1, <1>2, <1>3, <1>4 DEF EmissionRemembered, At, Only, Turning
<1>8. LeaseReturned'
  BY <1>4 DEF LeaseReturned
<1> QED
  BY <1>5, <1>6, <1>7, <1>8 DEF IInv, Base

\* The observer emits once more.
LEMMA EchoKeeps == ASSUME IInv, Base', NEW f \in Flow, Echo(f) PROVE IInv'
<1>1. TypeOK /\ OneChain /\ NothingAtEnds /\ EmissionRemembered /\ LeaseReturned
  BY DEF IInv
<1>2. flow[f].pc = "echo" /\ events # 0 /\ ~ At(f, "idle") /\ ~ At(f, "ack") /\ Acts(f)
  BY <1>1 DEF Echo, At, EmissionRemembered, Acts
<1>3. Only(f) /\ flow'[f].pc = "ack"
  BY <1>1, <1>2, GotoFacts DEF Echo, Step
<1>4. events' # 0 /\ UNCHANGED <<started, status, lease, queue, dlq, dlqEmitted, processed, faults>>
  BY <1>1 DEF Echo, Emit, TypeOK
<1>5. OneChain'
  BY <1>1, <1>2, <1>3, <1>4, ChainKept
<1>6. NothingAtEnds'
  BY <1>1, <1>2, <1>4, ActingIsMidway DEF NothingAtEnds
<1>7. EmissionRemembered'
  BY <1>1, <1>2, <1>3, <1>4 DEF EmissionRemembered, At, Only, Turning
<1>8. LeaseReturned'
  BY <1>1, <1>2, <1>3, <1>4, LeaseKept DEF At
<1> QED
  BY <1>5, <1>6, <1>7, <1>8 DEF IInv, Base

\* The handler returns: with a job for the dead letters if it signalled a terminal failure.
LEMMA AckKeeps == ASSUME IInv, Base', NEW f \in Flow, Ack(f) PROVE IInv'
<1>1. TypeOK /\ OneChain /\ NothingAtEnds /\ EmissionRemembered /\ LeaseReturned
  BY DEF IInv
<1>2. flow[f].pc = "ack" /\ ~ At(f, "idle")
  BY DEF Ack, At
<1>3. /\ flow' \in [Flow -> Activation \cup {Idle}] /\ Only(f) /\ flow'[f].pc = "idle"
  BY <1>1, LeaveFacts DEF Ack
<1>4. UNCHANGED <<started, status, lease, queue, dlqEmitted, events, executed, processed, pastDeadline, faults>>
  BY DEF Ack
<1>5. ~ Acts(f)' /\ \A g \in Flow : g # f => (Acts(g)' <=> Acts(g))
  BY <1>3 DEF Acts, At, Only, Signals
<1>6. OneChain' /\ NothingAtEnds' /\ dlq' \in [Job -> Nat]
  <2>1. CASE Signals(f)
    <3>1. Acts(f) /\ flow[f].job \in Job
      BY <1>1, <1>2, <2>1, FlowFacts, ActivationFacts DEF Acts
    <3>2. OneChain' /\ dlq' \in [Job -> Nat]
      BY <1>1, <1>3, <1>4, <1>5, <2>1, <3>1, ChainPassed DEF Ack
    <3> QED
      BY <1>1, <1>4, <3>1, <3>2, ActingIsMidway DEF NothingAtEnds
  <2>2. CASE ~ Signals(f)
    <3>1. dlq' = dlq
      BY <2>2 DEF Ack
    <3>2. \A j \in Job : Held(j)' = Held(j)
      BY <1>4, <3>1 DEF Held
    <3>3. \A g \in Flow : Acts(g)' => Acts(g)
      BY <1>5
    <3>4. OneChain' /\ NothingAtEnds'
      BY <1>1, <1>4, <3>2, <3>3, ChainShrinks
    <3> QED
      BY <1>1, <3>1, <3>4 DEF TypeOK
  <2> QED
    BY <2>1, <2>2
<1>9. EmissionRemembered'
  BY <1>1, <1>2, <1>3, <1>4 DEF EmissionRemembered, At, Only, Turning
<1>11. LeaseReturned'
  BY <1>1, <1>2, <1>3, <1>4, LeaseKept DEF At
<1> QED
  BY <1>6, <1>9, <1>11 DEF IInv, Base

\* The observer, or a failed look of its, and a failed mark: on to the emission or the end.
LEMMA ObserverKeeps ==
    ASSUME IInv, Base', NEW f \in Flow, flow[f].pc \in {"observe", "dlqFinalize"},
           At(f, "observe") => Goto(f, DlqEntry(f)) \/ Goto(f, "ack"),
           At(f, "dlqFinalize") => Goto(f, AfterEmission(f)) /\ faults'.fail # 0,
           faults' = faults \/ faults'.fail # 0,
           UNCHANGED <<started, status, lease, queue, dlq, dlqEmitted, events, processed>>
    PROVE  IInv'
<1>1. TypeOK /\ EmissionRemembered /\ LeaseReturned
  BY DEF IInv
<1>2. ~ At(f, "idle") /\ ~ At(f, "ack") /\ Acts(f) /\ ~ At(f, "run") /\ ~ At(f, "release")
  BY DEF At, Acts
<1> PICK pc \in {"dlqLoad", "echo", "ack"} :
        Goto(f, pc) /\ (pc = "dlqLoad" => events = 0) /\ (pc = "echo" => events # 0)
  <2>1. CASE At(f, "observe")
    <3>1. DlqEntry(f) \in {"dlqLoad", "ack"} /\ (DlqEntry(f) = "dlqLoad" => events = 0)
      BY <1>1, EmissionFacts
    <3> QED
      BY <2>1, <3>1
  <2>2. CASE At(f, "dlqFinalize")
    <3>1. AfterEmission(f) \in {"echo", "ack"} /\ events # 0
      BY <1>1, <2>2 DEF AfterEmission, EmissionRemembered, At
    <3> QED
      BY <2>2, <3>1
  <2> QED
    BY <2>1, <2>2 DEF At
<1>3. Only(f) /\ flow'[f].pc = pc
  BY <1>1, <1>2, GotoFacts DEF Step
<1>4. LeaseReturned'
  BY <1>1, <1>2, <1>3, LeaseKept
<1> QED
  BY <1>2, <1>3, <1>4, OnKeeps DEF Turning

LEMMA ObserveLoadKeeps == ASSUME IInv, Base', NEW f \in Flow, ObserveLoad(f) PROVE IInv'
  BY ObserverKeeps DEF ObserveLoad, At

-----------------------------------------------------------------------------
(* The environment. *)

LEMMA CallFailsKeeps == ASSUME IInv, Base', NEW f \in Flow, CallFails(f) PROVE IInv'
<1>1. faults'.fail # 0
  BY FailureCounts DEF IInv
<1>2. LeaseReturned'
  BY <1>1 DEF LeaseReturned
<1>3. CASE flow[f].pc \in {"load", "resume", "enqueue", "finalize"} /\ Reject(f)
  BY <1>2, <1>3, RejectKeeps DEF CallFails, Turning
<1>4. CASE Released(f)
  BY <1>1, <1>4, ReleasedKeeps DEF CallFails
<1>5. CASE At(f, "observe") /\ Goto(f, DlqEntry(f)) /\ UNCHANGED <<queue, dlq>>
  BY <1>1, <1>5, ObserverKeeps DEF CallFails, At
<1>6. CASE At(f, "dlqFinalize") /\ Goto(f, AfterEmission(f)) /\ UNCHANGED <<queue, dlq>>
  BY <1>1, <1>6, ObserverKeeps DEF CallFails, At
<1> QED
  BY <1>3, <1>4, <1>5, <1>6 DEF CallFails

LEMMA TimeKeeps == ASSUME IInv, Base', Expire \/ Deadline PROVE IInv'
<1>1. /\ UNCHANGED <<started, status, queue, dlq, flow, dlqEmitted, events, processed, faults>>
      /\ lease' \in {lease, NoLease}
  BY DEF Expire, Deadline
<1>2. OneChain' /\ NothingAtEnds'
  BY <1>1 DEF IInv, OneChain, NothingAtEnds, Acts, At, Signals, Held
<1>3. EmissionRemembered'
  BY <1>1 DEF IInv, EmissionRemembered, At
<1>4. LeaseReturned'
  BY <1>1 DEF IInv, LeaseReturned, At
<1> QED
  BY <1>2, <1>3, <1>4 DEF IInv, Base

-----------------------------------------------------------------------------

LEMMA StepKeeps == ASSUME OneAtATime, IInv, [Next]_vars PROVE IInv'
<1>0. Base'
  BY BaseStep DEF IInv, Base
<1>1. CASE UNCHANGED vars
  <2>1. OneChain' /\ NothingAtEnds'
    BY <1>1 DEF vars, IInv, OneChain, NothingAtEnds, Acts, At, Signals, Held
  <2>2. EmissionRemembered' /\ LeaseReturned'
    BY <1>1 DEF vars, IInv, EmissionRemembered, LeaseReturned, At
  <2> QED
    BY <1>0, <2>1, <2>2 DEF IInv, Base
<1>2. CASE Create
  BY <1>0, <1>2, CreateKeeps
<1>3. CASE EnqueueFirst \/ Tick
  BY <1>0, <1>3, EnqueueFirstKeeps
<1>4. CASE Receive
  BY <1>0, <1>4, DeliverKeeps, ObserveKeeps DEF Receive
<1>5. CASE Expire \/ Deadline
  BY <1>0, <1>5, TimeKeeps
<1>6. ASSUME NEW f \in Flow, Handle(f) PROVE IInv'
  BY <1>0, <1>6, LoadKeeps, ResumeKeeps, ReleaseKeeps, EnqueueKeeps, FinalizeKeeps, DlqLoadKeeps,
     DlqFinalizeKeeps, EchoKeeps, ObserveLoadKeeps, AckKeeps, RunKeeps DEF Handle
<1>7. (\A f \in Flow : ~ Redeliver(f)) /\ (\A p \in Process : ~ Crash(p))
  <2>1. faults.crash \in 0 .. MaxCrash /\ faults.redeliver \in 0 .. MaxRedeliver
    BY DEF IInv, TypeOK
  <2> QED
    BY <2>1 DEF Redeliver, Crash, OneAtATime
<1>8. ASSUME NEW f \in Flow, CallFails(f) PROVE IInv'
  BY <1>0, <1>8, CallFailsKeeps
<1> QED
  BY <1>1, <1>2, <1>3, <1>4, <1>5, <1>6, <1>7, <1>8 DEF Next

LEMMA Invariance == OneAtATime => (Spec => []IInv)
<1> SUFFICES ASSUME OneAtATime PROVE Spec => []IInv
  OBVIOUS
<1>1. IInv /\ [Next]_vars => IInv'
  BY StepKeeps
<1> QED
  BY <1>1, InitHolds, PTL DEF Spec

\* When one thing happens at a time and every call succeeds, a lease is always some live
\* flow's to give back, whatever the outcome of the turn (dispatch, completeTurn).
THEOREM LeaseIsReturned == OneAtATime => (Spec => []LeaseReturned)
<1>1. IInv => LeaseReturned
  BY DEF IInv
<1> QED
  BY <1>1, Invariance, PTL

\* When one thing happens at a time and every call succeeds, a session that is done has
\* been dead-lettered exactly if it is marked failed.
THEOREM DeadLettersAreMarked == OneAtATime => (Spec => []DeadLettersMatch)
<1>1. IInv => DeadLettersMatch
  <2> SUFFICES ASSUME IInv, faults.fail = 0, Quiet, status # "absent"
               PROVE  events > 0 <=> status = "failed"
    BY DEF DeadLettersMatch, DeadLetterMeansFailed
  <2>1. events \in Nat
    BY DEF IInv, TypeOK
  <2>2. \A f \in Flow : ~ At(f, "dlqFinalize")
    BY DEF Quiet, At
  <2> QED
    BY <2>1, <2>2 DEF IInv, EmissionRemembered
<1> QED
  BY <1>1, Invariance, PTL

\* When one thing happens at a time the turns of a session form one chain: there are never
\* two jobs alive, in the queue or in a handler (enqueueNext, dispatch).
THEOREM ChainIsOne == OneAtATime => (Spec => []OneContinuation)
<1>1. IInv => OneContinuation
  <2> SUFFICES ASSUME IInv PROVE OneContinuation
    OBVIOUS
  <2> DEFINE waiting == {j \in Job : queue[j] > 0}
             handled == {f \in Flow : ~ At(f, "idle") /\ ~ At(f, "ack") /\ flow[f].outcome # "observer"}
  <2>1. TypeOK /\ OneChain
    BY DEF IInv
  <2>2. \A j \in Job : queue[j] \in Nat /\ dlq[j] \in Nat /\ Held(j) = queue[j] + dlq[j] /\ Held(j) <= 1
    BY <2>1, JobCounts DEF OneChain
  <2>3. \A j \in waiting : queue[j] = 1 /\ Held(j) > 0
    BY <2>2
  <2>4. \A j, k \in waiting : j = k
    BY <2>1, <2>3 DEF OneChain
  <2>5. \A f \in handled : Acts(f)
    BY DEF Acts
  <2>6. \A f, g \in handled : f = g
    BY <2>1, <2>5 DEF OneChain
  <2>7. waiting = {} \/ handled = {}
    <3> SUFFICES ASSUME NEW j \in waiting, NEW f \in handled PROVE FALSE
      OBVIOUS
    <3>1. Acts(f) /\ Held(j) > 0
      BY <2>3, <2>5
    <3> QED
      BY <2>1, <3>1 DEF OneChain
  <2> HIDE DEF waiting, handled
  <2>8. Cardinality(waiting) \in {0, 1} /\ (waiting = {} => Cardinality(waiting) = 0)
    BY <2>4, AtMostOne
  <2>9. Cardinality(handled) \in {0, 1} /\ (handled = {} => Cardinality(handled) = 0)
    BY <2>6, AtMostOne
  <2>10. Cardinality(waiting) + Cardinality(handled) <= 1
    BY <2>7, <2>8, <2>9
  <2> USE DEF waiting, handled
  <2> QED
    BY <2>3, <2>10 DEF OneContinuation
<1> QED
  BY <1>1, Invariance, PTL

=============================================================================
