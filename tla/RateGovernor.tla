---------------------------- MODULE RateGovernor ----------------------------
(***************************************************************************)
(* The rate governor of one provider account: slots, token bucket and      *)
(* queue (runtime/src/cost-governor/rate-governor-impl.ts, token-bucket.ts, *)
(* backpressure-queue.ts), as pacta's throttler middleware drives it: every *)
(* caller acquires a slot, runs, and releases it whatever happened.        *)
(*                                                                         *)
(* acquireSlot has one await, in the queue.  To be woken is to have one's   *)
(* promise resolved; the code after the await runs later, and others may   *)
(* run first.  Entries that timed out or were aborted are left out of      *)
(* `queue', as dequeue leaves them out.                                    *)
(*                                                                         *)
(* Time is counted in ticks.  A tick is longer than a slot's lifetime (one *)
(* minute), and SleepAfter (five minutes) is some ticks.                   *)
(***************************************************************************)
EXTENDS Naturals, SequencesExt

CONSTANTS
    Caller,
    ConcurrentCap, BurstCapacity, WeeklyCap,
    Window,       \* ticks in which an empty bucket is full again
    SleepAfter,   \* the longest time between two refills that is not a sleep
    Week,         \* ticks of a week
    Watchdog      \* TRUE: leaked slots are swept

ASSUME GovernorAssumption ==
    /\ IsFiniteSet(Caller)
    /\ {ConcurrentCap, BurstCapacity, Window, Week} \subseteq Nat \ {0}
    /\ {WeeklyCap, SleepAfter} \subseteq Nat
    /\ SleepAfter < Window /\ Window < Week
    /\ Watchdog \in BOOLEAN

VARIABLES
    pc,        \* where each caller is
    active,    \* the callers that have a slot on the books
    overdue,   \* those whose slot is older than its maximal lifetime
    queue,     \* callers waiting, the oldest first
    bucket,    \* burstConsumed, weeklyConsumed, inFlight
    elapsed,   \* ticks since the last refill, at most Window
    weekAge,   \* ticks since the week started, at most Week
    swept      \* the watchdog has ever swept a slot

vars == <<pc, active, overdue, queue, bucket, elapsed, weekAge, swept>>

TypeOK ==
    /\ pc \in [Caller -> {"idle", "queued", "woken", "running"}]
    /\ active \subseteq Caller
    /\ overdue \subseteq active
    /\ queue \in Seq({c \in Caller : pc[c] = "queued"})
    /\ bucket \in [burst : 0 .. BurstCapacity, weekly : 0 .. WeeklyCap, inFlight : Nat]
    /\ elapsed \in 0 .. Window
    /\ weekAge \in 0 .. Week
    /\ swept \in BOOLEAN

Init ==
    /\ pc = [c \in Caller |-> "idle"]
    /\ active = {}
    /\ overdue = {}
    /\ queue = <<>>
    /\ bucket = [burst |-> 0, weekly |-> 0, inFlight |-> 0]
    /\ elapsed = 0
    /\ weekAge = 0
    /\ swept = FALSE

-----------------------------------------------------------------------------
(* The token bucket. *)

Asleep == elapsed > SleepAfter

\* Tokens that come back in the time since the last refill.
Due == (elapsed * BurstCapacity) \div Window

WeekOver == weekAge = Week

\* refill: after a sleep the bucket is set to half, and that is all; otherwise
\* whole tokens come back, the fraction is forgotten, and a new week may begin.
Refilled ==
    IF Asleep
    THEN [bucket EXCEPT !.burst = BurstCapacity \div 2]
    ELSE [bucket EXCEPT !.burst = IF Due < @ THEN @ - Due ELSE 0,
                        !.weekly = IF WeekOver THEN 0 ELSE @]

\* What else a refill changes.
Refill ==
    /\ elapsed' = 0
    /\ weekAge' = IF ~ Asleep /\ WeekOver THEN 0 ELSE weekAge

\* tryConsume would allow a message.
Allows(b) ==
    /\ b.inFlight < ConcurrentCap
    /\ b.burst < BurstCapacity
    /\ WeeklyCap > 0 => b.weekly < WeeklyCap

\* weeklyConsumed is read only under a weekly cap, and counted here only then.
Consumed(b) ==
    [burst |-> b.burst + 1, weekly |-> IF WeeklyCap > 0 THEN b.weekly + 1 ELSE 0,
     inFlight |-> b.inFlight + 1]

Released(b) == [b EXCEPT !.inFlight = IF @ > 0 THEN @ - 1 ELSE 0]

-----------------------------------------------------------------------------
(* The governor. *)

\* The callers' states and the queue after n signals to the queue.
Woken(states, n) ==
    [c \in Caller |-> IF \E i \in 1 .. Len(queue) : i <= n /\ queue[i] = c THEN "woken" ELSE states[c]]
Waiting(n) == SubSeq(queue, n + 1, Len(queue))

\* tryConsume succeeds, and the slot is made.
Take(c) ==
    /\ Allows(Refilled)
    /\ bucket' = Consumed(Refilled)
    /\ active' = active \cup {c}
    /\ pc' = [pc EXCEPT ![c] = "running"]
    /\ UNCHANGED <<overdue, queue, swept>>

Acquire(c) ==
    /\ pc[c] = "idle"
    /\ Refill
    /\ Take(c)

\* No slot at once: into the queue.  (A request aborted before is in and out.)
Enqueue(c) ==
    /\ pc[c] = "idle"
    /\ ~ Allows(Refilled)
    /\ Refill
    /\ bucket' = Refilled
    /\ queue' = Append(queue, c)
    /\ pc' = [pc EXCEPT ![c] = "queued"]
    /\ UNCHANGED <<active, overdue, swept>>

\* The wait runs out, or the request is aborted.
GiveUp(c) ==
    /\ pc[c] = "queued"
    /\ \E i \in 1 .. Len(queue) : queue[i] = c /\ queue' = RemoveAt(queue, i)
    /\ pc' = [pc EXCEPT ![c] = "idle"]
    /\ UNCHANGED <<active, overdue, bucket, elapsed, weekAge, swept>>

TakeUnasked(c) ==
    /\ pc[c] = "woken"
    /\ Refill
    /\ bucket' = Consumed(Refilled)
    /\ active' = active \cup {c}
    /\ pc' = [pc EXCEPT ![c] = "running"]
    /\ UNCHANGED <<overdue, queue, swept>>

\* A woken caller tries again, once.
Retry(c) ==
    /\ pc[c] = "woken"
    /\ Refill
    /\ Take(c)

\* The second try fails: a SaturationError.
Refuse(c) ==
    /\ pc[c] = "woken"
    /\ ~ Allows(Refilled)
    /\ Refill
    /\ bucket' = Refilled
    /\ pc' = [pc EXCEPT ![c] = "idle"]
    /\ UNCHANGED <<active, overdue, queue, swept>>

\* releaseSlot does its work whether or not the slot is still on the books.
Release(c) ==
    /\ pc[c] = "running"
    /\ active' = active \ {c}
    /\ overdue' = overdue \ {c}
    /\ bucket' = Released(bucket)
    /\ pc' = [Woken(pc, 1) EXCEPT ![c] = "idle"]
    /\ queue' = Waiting(1)
    /\ UNCHANGED <<elapsed, weekAge, swept>>

SweptCount == Cardinality(overdue)

SweepKeepsCount == bucket

SweptBucket ==
    [bucket EXCEPT !.inFlight = IF @ > Cardinality(overdue) THEN @ - Cardinality(overdue) ELSE 0]

\* sweep: the callers of the leaked slots know nothing of it.
Sweep ==
    /\ Watchdog
    /\ overdue # {}
    /\ active' = active \ overdue
    /\ overdue' = {}
    /\ bucket' = SweptBucket
    /\ pc' = Woken(pc, SweptCount)
    /\ queue' = Waiting(SweptCount)
    /\ swept' = TRUE
    /\ UNCHANGED <<elapsed, weekAge>>

\* utilization, available.
Poll ==
    /\ Refill
    /\ bucket' = Refilled
    /\ UNCHANGED <<pc, active, overdue, queue, swept>>

Tick ==
    /\ elapsed' = IF elapsed < Window THEN elapsed + 1 ELSE Window
    /\ weekAge' = IF weekAge < Week THEN weekAge + 1 ELSE Week
    /\ overdue' = active
    /\ UNCHANGED <<pc, active, queue, bucket, swept>>

Call(c) == Acquire(c) \/ Enqueue(c)

Next ==
    \/ \E c \in Caller : Call(c) \/ GiveUp(c) \/ Retry(c) \/ Refuse(c) \/ Release(c)
    \/ Sweep \/ Poll \/ Tick

Spec == Init /\ [][Next]_vars

\* Time passes, what is running ends, and callers keep calling.
Fairness ==
    /\ WF_vars(Tick)
    /\ \A c \in Caller : WF_vars(Call(c)) /\ WF_vars(Retry(c) \/ Refuse(c)) /\ WF_vars(Release(c))

FairSpec == Spec /\ Fairness

-----------------------------------------------------------------------------

\* Nobody waits in two places of the queue.
OnceInQueue == \A i, j \in 1 .. Len(queue) : queue[i] = queue[j] => i = j

\* A slot on the books is a caller's that runs.
SlotsAreRunning == \A c \in active : pc[c] = "running"

\* Until a sweep, whoever runs is on the books, and the bucket counts no less.
BooksMatch ==
    ~ swept =>
        /\ \A c \in Caller : pc[c] = "running" => c \in active
        /\ bucket.inFlight = Cardinality(active)

\* There are never more slots on the books than the concurrency cap.
CapRespected == Cardinality(active) <= ConcurrentCap

\* As long as no slot was swept, there are not: whatever the order of wake-ups,
\* retries, timeouts and releases (acquireSlot, releaseSlot).
CapUnlessSwept == ~ swept => CapRespected

\* The count of slots in flight never exceeds the slots on the books: a leak
\* that was swept, or a release, leaves no capacity behind that nobody uses.
NothingLeaks == bucket.inFlight <= Cardinality(active)

\* The inductive invariant of the proofs.
IInv ==
    /\ TypeOK
    /\ OnceInQueue
    /\ SlotsAreRunning
    /\ BooksMatch
    /\ NothingLeaks
    /\ CapUnlessSwept

\* The queue drains when capacity returns: no waiter is left to its timeout.
Drains == \A c \in Caller : (pc[c] = "queued") ~> (pc[c] # "queued")

\* As time passes, a bucket that no message leaves has tokens to give.
Refills == ~ <>[] (Refilled.burst = BurstCapacity /\ bucket.inFlight = 0)

\* After a week a spent weekly allowance is renewed.
WeekRenews == (WeeklyCap > 0 /\ bucket.weekly = WeeklyCap) ~> (bucket.weekly < WeeklyCap)

\* The reset after a sleep gives back no more than the time slept is worth.
SleepIsConservative ==
    [][ bucket'.burst >= bucket.burst \/ bucket.burst - bucket'.burst <= Due ]_vars

\* A caller is refused only when its own wait is over.
RefusedInTime == [][ \A c \in Caller : pc[c] = "woken" => pc'[c] # "idle" ]_vars

=============================================================================
