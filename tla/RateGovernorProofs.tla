------------------------- MODULE RateGovernorProofs -------------------------
(***************************************************************************)
(* Proofs about RateGovernor, for every set of callers, every cap, window  *)
(* and week, with and without the watchdog.                                *)
(***************************************************************************)
EXTENDS RateGovernor, FiniteSetTheorems, SequenceTheorems, TLAPS

USE GovernorAssumption

-----------------------------------------------------------------------------
(* The bucket. *)

\* What comes back with time is a natural number.
LEMMA DueType == ASSUME TypeOK PROVE Due \in Nat
<1> DEFINE n == elapsed * BurstCapacity
<1>1. n \in Nat /\ Window \in Nat \ {0}
  BY DEF TypeOK
<1> HIDE DEF n
<1>2. n \div Window \in Nat
  BY <1>1
<1> QED
  BY <1>2 DEF Due, n

\* A refill never leaves the bucket's range and never touches the slots in flight.
LEMMA RefilledType ==
    ASSUME TypeOK
    PROVE  /\ Refilled.burst \in 0 .. BurstCapacity
           /\ Refilled.weekly \in 0 .. WeeklyCap
           /\ Refilled.inFlight = bucket.inFlight
           /\ Refilled \in [burst : 0 .. BurstCapacity, weekly : 0 .. WeeklyCap, inFlight : Nat]
<1>1. BurstCapacity \div 2 \in 0 .. BurstCapacity
  OBVIOUS
<1>2. Due \in Nat
  BY DueType
<1>3. bucket \in [burst : 0 .. BurstCapacity, weekly : 0 .. WeeklyCap, inFlight : Nat]
  BY DEF TypeOK
<1>4. CASE Asleep
  BY <1>1, <1>3, <1>4 DEF Refilled
<1>5. CASE ~ Asleep
  <2>1. (IF Due < bucket.burst THEN bucket.burst - Due ELSE 0) \in 0 .. BurstCapacity
    BY <1>2, <1>3
  <2>2. (IF WeekOver THEN 0 ELSE bucket.weekly) \in 0 .. WeeklyCap
    BY <1>3
  <2> QED
    BY <1>3, <1>5, <2>1, <2>2 DEF Refilled
<1> QED
  BY <1>4, <1>5

\* A message that is allowed fits.
LEMMA ConsumedType ==
    ASSUME TypeOK, Allows(Refilled)
    PROVE  /\ Consumed(Refilled) \in [burst : 0 .. BurstCapacity, weekly : 0 .. WeeklyCap, inFlight : Nat]
           /\ Consumed(Refilled).inFlight = bucket.inFlight + 1
           /\ bucket.inFlight < ConcurrentCap
<1> PICK b \in [burst : 0 .. BurstCapacity, weekly : 0 .. WeeklyCap, inFlight : Nat] : b = Refilled
  BY RefilledType
<1>1. /\ b.burst \in 0 .. BurstCapacity /\ b.burst < BurstCapacity
      /\ b.weekly \in 0 .. WeeklyCap /\ (WeeklyCap > 0 => b.weekly < WeeklyCap)
      /\ b.inFlight \in Nat /\ b.inFlight < ConcurrentCap
      /\ b.inFlight = bucket.inFlight
  BY RefilledType DEF Allows
<1>2. (IF WeeklyCap > 0 THEN b.weekly + 1 ELSE 0) \in 0 .. WeeklyCap
  BY <1>1
<1>3. Consumed(b) \in [burst : 0 .. BurstCapacity, weekly : 0 .. WeeklyCap, inFlight : Nat]
  BY <1>1, <1>2 DEF Consumed
<1> QED
  BY <1>1, <1>3 DEF Consumed

\* Refilling moves the two clocks within their bounds.
LEMMA RefillType ==
    ASSUME TypeOK, Refill
    PROVE  elapsed' \in 0 .. Window /\ weekAge' \in 0 .. Week
  BY DEF TypeOK, Refill

\* A bucket may count any number of slots.
LEMMA SlotsCounted ==
    ASSUME TypeOK, NEW n \in Nat
    PROVE  /\ [bucket EXCEPT !.inFlight = n] \in
                [burst : 0 .. BurstCapacity, weekly : 0 .. WeeklyCap, inFlight : Nat]
           /\ [bucket EXCEPT !.inFlight = n].inFlight = n
<1>1. bucket \in [burst : 0 .. BurstCapacity, weekly : 0 .. WeeklyCap, inFlight : Nat]
  BY DEF TypeOK
<1> QED
  BY <1>1

-----------------------------------------------------------------------------
(* The queue. *)

\* Who waits is a caller whose state says so.
LEMMA WaiterIsQueued ==
    ASSUME TypeOK, NEW i \in 1 .. Len(queue)
    PROVE  queue[i] \in Caller /\ pc[queue[i]] = "queued"
<1>1. queue[i] \in {c \in Caller : pc[c] = "queued"}
  BY ElementOfSeq DEF TypeOK
<1> QED
  BY <1>1

\* What is left of a sequence when one element is removed.
LEMMA RemoveAtProperties ==
    ASSUME NEW S, NEW s, Len(s) \in Nat, NEW k \in 1 .. Len(s),
           \A i \in 1 .. Len(s) : i # k => s[i] \in S
    PROVE  /\ RemoveAt(s, k) \in Seq(S)
           /\ Len(RemoveAt(s, k)) = Len(s) - 1
           /\ \A i \in 1 .. Len(s) - 1 : RemoveAt(s, k)[i] = IF i < k THEN s[i] ELSE s[i + 1]
<1> DEFINE before == SubSeq(s, 1, k - 1)
           after == SubSeq(s, k + 1, Len(s))
<1>1. /\ before \in Seq(S)
      /\ Len(before) = k - 1
      /\ \A i \in 1 .. k - 1 : before[i] = s[i]
  <2>1. \A i \in 1 .. k - 1 : s[i] \in S
    OBVIOUS
  <2>2. /\ before \in Seq(S)
        /\ Len(before) = IF 1 <= k - 1 THEN k - 1 - 1 + 1 ELSE 0
        /\ \A i \in 1 .. k - 1 - 1 + 1 : before[i] = s[1 + i - 1]
    BY <2>1, SubSeqProperties
  <2> HIDE DEF before
  <2> QED
    BY <2>2
<1>2. /\ after \in Seq(S)
      /\ Len(after) = Len(s) - k
      /\ \A i \in 1 .. Len(s) - k : after[i] = s[k + i]
  <2>1. \A i \in k + 1 .. Len(s) : s[i] \in S
    OBVIOUS
  <2>2. /\ after \in Seq(S)
        /\ Len(after) = IF k + 1 <= Len(s) THEN Len(s) - (k + 1) + 1 ELSE 0
        /\ \A i \in 1 .. Len(s) - (k + 1) + 1 : after[i] = s[k + 1 + i - 1]
    BY <2>1, SubSeqProperties
  <2> HIDE DEF after
  <2> QED
    BY <2>2
<1>3. RemoveAt(s, k) = before \o after
  BY DEF RemoveAt
<1> HIDE DEF before, after
<1> PICK t : t = before \o after
  OBVIOUS
<1>4. /\ t \in Seq(S)
      /\ Len(t) = Len(before) + Len(after)
      /\ \A i \in 1 .. Len(before) + Len(after) :
             t[i] = IF i <= Len(before) THEN before[i] ELSE after[i - Len(before)]
  BY <1>1, <1>2, ConcatProperties
<1>5. Len(before) + Len(after) = Len(s) - 1
  BY <1>1, <1>2
<1>6. ASSUME NEW i \in 1 .. Len(s) - 1
      PROVE  t[i] = IF i < k THEN s[i] ELSE s[i + 1]
  <2>0. i \in 1 .. Len(before) + Len(after) /\ Len(before) = k - 1
    BY <1>1, <1>5
  <2>1. t[i] = IF i <= k - 1 THEN before[i] ELSE after[i - (k - 1)]
    BY <1>4, <2>0
  <2>2. CASE i < k
    BY <1>1, <2>1, <2>2
  <2>3. CASE ~ (i < k)
    <3>1. i - (k - 1) \in 1 .. Len(s) - k /\ k + (i - (k - 1)) = i + 1
      BY <2>3
    <3> QED
      BY <1>2, <2>1, <2>3, <3>1
  <2> QED
    BY <2>2, <2>3
<1> QED
  BY <1>3, <1>4, <1>5, <1>6

\* A queue stays well-typed when its callers stay queued.
LEMMA QueueStaysTyped ==
    ASSUME TypeOK,
           \A i \in 1 .. Len(queue) : pc'[queue[i]] = "queued"
    PROVE  queue \in Seq({c \in Caller : pc'[c] = "queued"})
<1> DEFINE S == {c \in Caller : pc'[c] = "queued"}
<1>1. queue \in Seq(Caller)
  <2>1. {c \in Caller : pc[c] = "queued"} \subseteq Caller
    OBVIOUS
  <2> QED
    BY <2>1, SeqMonotonic DEF TypeOK
<1>2. \A i \in 1 .. Len(queue) : queue[i] \in S
  BY WaiterIsQueued
<1>3. Len(queue) \in Nat
  BY <1>1, LenProperties
<1> HIDE DEF S
<1>4. SubSeq(queue, 1, Len(queue)) \in Seq(S)
  BY <1>2, <1>3, SubSeqProperties
<1>5. SubSeq(queue, 1, Len(queue)) = queue
  BY <1>1, SubSeqFull
<1> QED
  BY <1>4, <1>5 DEF S

\* After n signals the others wait in the same order, each once.
LEMMA SignalKeepsQueue ==
    ASSUME IInv, NEW n \in Nat,
           pc' \in [Caller -> {"idle", "queued", "woken", "running"}],
           \A i \in 1 .. Len(queue) : i > n => pc'[queue[i]] = "queued",
           queue' = Waiting(n)
    PROVE  /\ queue' \in Seq({c \in Caller : pc'[c] = "queued"})
           /\ OnceInQueue'
<1> DEFINE S == {c \in Caller : pc'[c] = "queued"}
<1>0. TypeOK /\ OnceInQueue
  BY DEF IInv
<1>1. Len(queue) \in Nat
  BY <1>0, LenProperties DEF TypeOK
<1>2. \A i \in n + 1 .. Len(queue) : queue[i] \in S
  BY <1>0, <1>1, WaiterIsQueued
<1> HIDE DEF S
<1>3. /\ queue' \in Seq(S)
      /\ Len(queue') = IF n + 1 <= Len(queue) THEN Len(queue) - (n + 1) + 1 ELSE 0
      /\ \A i \in 1 .. Len(queue) - (n + 1) + 1 : queue'[i] = queue[n + 1 + i - 1]
  BY <1>1, <1>2, SubSeqProperties DEF Waiting
<1>4. OnceInQueue'
  <2> SUFFICES ASSUME NEW i \in 1 .. Len(queue'), NEW j \in 1 .. Len(queue'),
                      queue'[i] = queue'[j]
               PROVE  i = j
    BY DEF OnceInQueue
  <2>a. Len(queue') = Len(queue) - n /\ n + 1 <= Len(queue)
    BY <1>1, <1>3
  <2>b. i \in 1 .. Len(queue) - (n + 1) + 1 /\ j \in 1 .. Len(queue) - (n + 1) + 1
    BY <1>1, <2>a
  <2>c. queue'[i] = queue[n + 1 + i - 1] /\ queue'[j] = queue[n + 1 + j - 1]
    BY <1>3, <2>b
  <2>d. n + 1 + i - 1 = n + i /\ n + 1 + j - 1 = n + j
    BY <2>b
  <2>e. n + i \in 1 .. Len(queue) /\ n + j \in 1 .. Len(queue)
    BY <1>1, <2>b
  <2>1. queue[n + i] = queue[n + j] /\ n + i \in 1 .. Len(queue) /\ n + j \in 1 .. Len(queue)
    BY <2>c, <2>d, <2>e
  <2>2. n + i = n + j
    BY <1>0, <2>1 DEF OnceInQueue
  <2> QED
    BY <1>1, <1>3, <2>2
<1> QED
  BY <1>3, <1>4 DEF S

\* A signal changes only callers that are queued, and none of those left in the queue.
LEMMA WokenFacts ==
    ASSUME IInv, NEW n \in Nat
    PROVE  /\ Woken(pc, n) \in [Caller -> {"idle", "queued", "woken", "running"}]
           /\ \A c \in Caller : pc[c] # "queued" => Woken(pc, n)[c] = pc[c]
           /\ \A c \in Caller : Woken(pc, n)[c] = "running" => pc[c] = "running"
           /\ \A i \in 1 .. Len(queue) : i > n => Woken(pc, n)[queue[i]] = "queued"
<1>0. TypeOK /\ OnceInQueue
  BY DEF IInv
<1>1. \A i \in 1 .. Len(queue) : queue[i] \in Caller /\ pc[queue[i]] = "queued"
  BY <1>0, WaiterIsQueued
<1>2. pc \in [Caller -> {"idle", "queued", "woken", "running"}]
  BY <1>0 DEF TypeOK
<1>3. Len(queue) \in Nat
  BY <1>0, LenProperties DEF TypeOK
<1>4. ASSUME NEW i \in 1 .. Len(queue), i > n
      PROVE  Woken(pc, n)[queue[i]] = "queued"
  <2>1. ~ \E j \in 1 .. Len(queue) : j <= n /\ queue[j] = queue[i]
    BY <1>0, <1>3, <1>4 DEF OnceInQueue
  <2> QED
    BY <1>1, <2>1 DEF Woken
<1>5. Woken(pc, n) \in [Caller -> {"idle", "queued", "woken", "running"}]
  BY <1>2 DEF Woken
<1>6. \A c \in Caller : pc[c] # "queued" => Woken(pc, n)[c] = pc[c]
  BY <1>1 DEF Woken
<1>7. \A c \in Caller : Woken(pc, n)[c] = "running" => pc[c] = "running"
  BY DEF Woken
<1> QED
  BY <1>4, <1>5, <1>6, <1>7

-----------------------------------------------------------------------------
(* The slots. *)

\* The slots on the books can be counted.
LEMMA SlotsFinite ==
    ASSUME TypeOK
    PROVE  /\ IsFiniteSet(active) /\ Cardinality(active) \in Nat
           /\ IsFiniteSet(overdue) /\ Cardinality(overdue) \in Nat
           /\ Cardinality(active \ overdue) = Cardinality(active) - Cardinality(overdue)
<1>1. active \in SUBSET Caller /\ overdue \in SUBSET active /\ IsFiniteSet(Caller)
  BY DEF TypeOK
<1>2. IsFiniteSet(active)
  BY <1>1, FS_Subset
<1>3. IsFiniteSet(overdue) /\ IsFiniteSet(active \ overdue)
  BY <1>1, <1>2, FS_Subset
<1>4. Cardinality((active \ overdue) \cup overdue)
      = Cardinality(active \ overdue) + Cardinality(overdue) - Cardinality((active \ overdue) \cap overdue)
  BY <1>3, FS_Union
<1>5. (active \ overdue) \cup overdue = active /\ (active \ overdue) \cap overdue = {}
  BY <1>1
<1>6. Cardinality(active \ overdue) \in Nat /\ Cardinality(overdue) \in Nat /\ Cardinality(active) \in Nat
  BY <1>2, <1>3, FS_CardinalityType
<1>7. Cardinality((active \ overdue) \cap overdue) = 0
  BY <1>5, FS_EmptySet
<1>8. Cardinality(active) = Cardinality(active \ overdue) + Cardinality(overdue) - 0
  BY <1>4, <1>5, <1>7
<1> QED
  BY <1>2, <1>3, <1>6, <1>8

\* What only moves callers that have no slot and do not get one, leaves the slots alone.
LEMMA SlotsUntouched ==
    ASSUME IInv,
           active' = active, swept' = swept, bucket'.inFlight = bucket.inFlight,
           \A c \in Caller : pc'[c] = "running" <=> pc[c] = "running"
    PROVE  SlotsAreRunning' /\ BooksMatch' /\ NothingLeaks' /\ CapUnlessSwept'
  BY DEF IInv, TypeOK, SlotsAreRunning, BooksMatch, NothingLeaks, CapUnlessSwept, CapRespected

LEMMA InitHolds == Init => IInv
<1> SUFFICES ASSUME Init PROVE IInv
  OBVIOUS
<1>1. TypeOK
  <2>1. \A S : <<>> \in Seq(S)
    BY EmptySeq
  <2>2. queue \in Seq({c \in Caller : pc[c] = "queued"})
    <3> PICK S : S = {c \in Caller : pc[c] = "queued"}
      OBVIOUS
    <3> QED
      BY <2>1 DEF Init
  <2>3. bucket \in [burst : 0 .. BurstCapacity, weekly : 0 .. WeeklyCap, inFlight : Nat]
    <3>1. 0 \in 0 .. BurstCapacity /\ 0 \in 0 .. WeeklyCap /\ 0 \in Nat
      OBVIOUS
    <3> QED
      BY <3>1 DEF Init
  <2>4. /\ pc \in [Caller -> {"idle", "queued", "woken", "running"}]
        /\ active \subseteq Caller /\ overdue \subseteq active /\ swept \in BOOLEAN
    BY DEF Init
  <2>5. elapsed \in 0 .. Window /\ weekAge \in 0 .. Week
    BY DEF Init
  <2> QED
    BY <2>2, <2>3, <2>4, <2>5 DEF TypeOK
<1>2. Len(queue) = 0 /\ Cardinality(active) = 0
  BY EmptySeq, FS_EmptySet DEF Init
<1>3. OnceInQueue /\ SlotsAreRunning /\ BooksMatch /\ NothingLeaks
  BY <1>2 DEF Init, OnceInQueue, SlotsAreRunning, BooksMatch, NothingLeaks
<1>4. CapUnlessSwept
  BY <1>2 DEF Init, CapUnlessSwept, CapRespected
<1> QED
  BY <1>1, <1>3, <1>4 DEF IInv

\* A caller that takes a slot, from outside or after it was woken.
LEMMA TakeKeeps ==
    ASSUME IInv, NEW c \in Caller, pc[c] \in {"idle", "woken"}, Refill, Take(c)
    PROVE  IInv'
<1>1. TypeOK /\ OnceInQueue /\ SlotsAreRunning /\ BooksMatch /\ NothingLeaks /\ CapUnlessSwept
  BY DEF IInv
<1>2. c \notin active
  BY <1>1 DEF SlotsAreRunning
<1>3. /\ Cardinality(active') = Cardinality(active) + 1
      /\ Cardinality(active) \in Nat
  BY <1>1, <1>2, SlotsFinite, FS_AddElement DEF Take
<1>4. /\ bucket' \in [burst : 0 .. BurstCapacity, weekly : 0 .. WeeklyCap, inFlight : Nat]
      /\ bucket'.inFlight = bucket.inFlight + 1
      /\ bucket.inFlight < ConcurrentCap /\ bucket.inFlight \in Nat
  BY <1>1, ConsumedType DEF Take, TypeOK
<1>5. TypeOK'
  <2>1. \A i \in 1 .. Len(queue) : pc'[queue[i]] = "queued"
    BY <1>1, WaiterIsQueued DEF Take, TypeOK
  <2>2. queue' \in Seq({d \in Caller : pc'[d] = "queued"})
    BY <1>1, <2>1, QueueStaysTyped DEF Take
  <2> QED
    BY <1>1, <1>4, <2>2, RefillType DEF Take, TypeOK
<1>6. OnceInQueue'
  BY <1>1 DEF Take, OnceInQueue
<1>7. SlotsAreRunning'
  BY <1>1 DEF Take, TypeOK, SlotsAreRunning
<1>8. BooksMatch' /\ CapUnlessSwept'
  <2>1. swept' = swept
    BY DEF Take
  <2>2. ASSUME ~ swept
        PROVE  bucket'.inFlight = Cardinality(active') /\ Cardinality(active') <= ConcurrentCap
    BY <1>1, <1>3, <1>4, <2>2 DEF BooksMatch
  <2>3. ASSUME ~ swept, NEW d \in Caller, pc'[d] = "running"
        PROVE  d \in active'
    BY <1>1, <2>3 DEF BooksMatch, Take, TypeOK
  <2> QED
    BY <2>1, <2>2, <2>3 DEF BooksMatch, CapUnlessSwept, CapRespected
<1>9. NothingLeaks'
  BY <1>1, <1>3, <1>4 DEF NothingLeaks
<1> QED
  BY <1>5, <1>6, <1>7, <1>8, <1>9 DEF IInv

\* A caller joins the queue, once.
LEMMA EnqueueKeeps == ASSUME IInv, NEW c \in Caller, Enqueue(c) PROVE IInv'
<1>1. TypeOK /\ OnceInQueue
  BY DEF IInv
<1> DEFINE S == {d \in Caller : pc'[d] = "queued"}
<1>2. \A i \in 1 .. Len(queue) : queue[i] \in Caller /\ pc[queue[i]] = "queued" /\ queue[i] # c
  BY <1>1, WaiterIsQueued DEF Enqueue
<1>3. queue \in Seq(S) /\ c \in S
  BY <1>1, <1>2, QueueStaysTyped DEF Enqueue, TypeOK
<1> HIDE DEF S
<1>4. /\ queue' \in Seq(S)
      /\ Len(queue') = Len(queue) + 1 /\ Len(queue) \in Nat
      /\ \A i \in 1 .. Len(queue) : queue'[i] = queue[i]
      /\ queue'[Len(queue) + 1] = c
  BY <1>3 DEF Enqueue
<1>5. OnceInQueue'
  <2> SUFFICES ASSUME NEW i \in 1 .. Len(queue'), NEW j \in 1 .. Len(queue'),
                      queue'[i] = queue'[j]
               PROVE  i = j
    BY DEF OnceInQueue
  <2>1. /\ i \in 1 .. Len(queue) \/ i = Len(queue) + 1
        /\ j \in 1 .. Len(queue) \/ j = Len(queue) + 1
    BY <1>4
  <2>2. \A l, m \in 1 .. Len(queue) : queue[l] = queue[m] => l = m
    BY <1>1 DEF OnceInQueue
  <2>3. \A m \in 1 .. Len(queue) : queue'[m] = queue[m] /\ queue'[m] # c
    BY <1>2, <1>4
  <2> QED
    BY <1>4, <2>1, <2>2, <2>3
<1>6. bucket' \in [burst : 0 .. BurstCapacity, weekly : 0 .. WeeklyCap, inFlight : Nat]
      /\ bucket'.inFlight = bucket.inFlight
  BY <1>1, RefilledType DEF Enqueue
<1>7. TypeOK'
  BY <1>1, <1>4, <1>6, RefillType DEF Enqueue, TypeOK, S
<1>8. SlotsAreRunning' /\ BooksMatch' /\ NothingLeaks' /\ CapUnlessSwept'
  BY <1>1, <1>6, SlotsUntouched DEF Enqueue, TypeOK
<1> QED
  BY <1>5, <1>7, <1>8 DEF IInv

\* A caller leaves the queue and the others keep their order.
LEMMA GiveUpKeeps == ASSUME IInv, NEW c \in Caller, GiveUp(c) PROVE IInv'
<1>1. TypeOK /\ OnceInQueue
  BY DEF IInv
<1> PICK k \in 1 .. Len(queue) : queue[k] = c /\ queue' = RemoveAt(queue, k)
  BY DEF GiveUp
<1> DEFINE S == {d \in Caller : pc'[d] = "queued"}
<1>2. Len(queue) \in Nat
  BY <1>1, LenProperties DEF TypeOK
<1>3. \A i \in 1 .. Len(queue) : i # k => queue[i] \in S
  <2> SUFFICES ASSUME NEW i \in 1 .. Len(queue), i # k PROVE queue[i] \in S
    OBVIOUS
  <2>1. queue[i] # c
    BY <1>1 DEF OnceInQueue
  <2> QED
    BY <1>1, <2>1, WaiterIsQueued DEF GiveUp, TypeOK
<1> HIDE DEF S
<1>7. /\ queue' \in Seq(S)
      /\ Len(queue') = Len(queue) - 1
      /\ \A i \in 1 .. Len(queue) - 1 : queue'[i] = IF i < k THEN queue[i] ELSE queue[i + 1]
  BY <1>2, <1>3, RemoveAtProperties
<1>8. OnceInQueue'
  <2> SUFFICES ASSUME NEW i \in 1 .. Len(queue'), NEW j \in 1 .. Len(queue'),
                      queue'[i] = queue'[j]
               PROVE  i = j
    BY DEF OnceInQueue
  <2>1. \A m \in 1 .. Len(queue) - 1 : m \in 1 .. Len(queue) /\ m + 1 \in 1 .. Len(queue)
    BY <1>2
  <2>2. i \in 1 .. Len(queue) - 1 /\ j \in 1 .. Len(queue) - 1
    BY <1>7
  <2>3. \A l, m \in 1 .. Len(queue) : queue[l] = queue[m] => l = m
    BY <1>1 DEF OnceInQueue
  <2> DEFINE kept(m) == IF m < k THEN m ELSE m + 1
  <2>4. kept(i) \in 1 .. Len(queue) /\ kept(j) \in 1 .. Len(queue)
    BY <2>1, <2>2
  <2>5. queue'[i] = queue[kept(i)] /\ queue'[j] = queue[kept(j)]
    BY <1>7, <2>2
  <2>6. kept(i) = kept(j)
    <3> HIDE DEF kept
    <3> QED
      BY <2>3, <2>4, <2>5
  <2> QED
    BY <1>2, <2>2, <2>6
<1>9. TypeOK'
  BY <1>1, <1>7 DEF GiveUp, TypeOK, S
<1>10. SlotsAreRunning' /\ BooksMatch' /\ NothingLeaks' /\ CapUnlessSwept'
  BY <1>1, SlotsUntouched DEF GiveUp, TypeOK
<1> QED
  BY <1>8, <1>9, <1>10 DEF IInv

\* The second try fails: the caller goes, the others stay as they are.
LEMMA RefuseKeeps == ASSUME IInv, NEW c \in Caller, Refuse(c) PROVE IInv'
<1>1. TypeOK /\ OnceInQueue
  BY DEF IInv
<1>2. \A i \in 1 .. Len(queue) : pc'[queue[i]] = "queued"
  BY <1>1, WaiterIsQueued DEF Refuse, TypeOK
<1>3. queue' \in Seq({d \in Caller : pc'[d] = "queued"})
  BY <1>1, <1>2, QueueStaysTyped DEF Refuse
<1>4. bucket' \in [burst : 0 .. BurstCapacity, weekly : 0 .. WeeklyCap, inFlight : Nat]
      /\ bucket'.inFlight = bucket.inFlight
  BY <1>1, RefilledType DEF Refuse
<1>5. TypeOK'
  BY <1>1, <1>3, <1>4, RefillType DEF Refuse, TypeOK
<1>6. OnceInQueue'
  BY <1>1 DEF Refuse, OnceInQueue
<1>7. SlotsAreRunning' /\ BooksMatch' /\ NothingLeaks' /\ CapUnlessSwept'
  BY <1>1, <1>4, SlotsUntouched DEF Refuse, TypeOK
<1> QED
  BY <1>5, <1>6, <1>7 DEF IInv

\* A slot is given back, on the books or swept before, and one waiter is woken.
LEMMA ReleaseKeeps == ASSUME IInv, NEW c \in Caller, Release(c) PROVE IInv'
<1>1. TypeOK /\ OnceInQueue /\ SlotsAreRunning /\ BooksMatch /\ NothingLeaks /\ CapUnlessSwept
  BY DEF IInv
<1>2. pc' \in [Caller -> {"idle", "queued", "woken", "running"}]
  BY WokenFacts DEF Release
<1>3. \A i \in 1 .. Len(queue) : i > 1 => pc'[queue[i]] = "queued"
  <2> SUFFICES ASSUME NEW i \in 1 .. Len(queue), i > 1 PROVE pc'[queue[i]] = "queued"
    OBVIOUS
  <2>1. queue[i] \in Caller /\ queue[i] # c
    BY <1>1, WaiterIsQueued DEF Release
  <2>2. Woken(pc, 1)[queue[i]] = "queued" /\ Woken(pc, 1) \in [Caller -> {"idle", "queued", "woken", "running"}]
    BY WokenFacts
  <2> QED
    BY <2>1, <2>2 DEF Release
<1>4. queue' \in Seq({d \in Caller : pc'[d] = "queued"}) /\ OnceInQueue'
  BY <1>2, <1>3, SignalKeepsQueue DEF Release
<1>5. /\ bucket' \in [burst : 0 .. BurstCapacity, weekly : 0 .. WeeklyCap, inFlight : Nat]
      /\ bucket'.inFlight = IF bucket.inFlight > 0 THEN bucket.inFlight - 1 ELSE 0
      /\ bucket.inFlight \in Nat
  <2>1. bucket.inFlight \in Nat
    BY <1>1 DEF TypeOK
  <2>2. PICK m \in Nat : m = IF bucket.inFlight > 0 THEN bucket.inFlight - 1 ELSE 0
    BY <2>1
  <2>3. bucket' = [bucket EXCEPT !.inFlight = m]
    BY <2>2 DEF Release, Released
  <2> QED
    BY <1>1, <2>1, <2>2, <2>3, SlotsCounted
<1>6. TypeOK'
  <2>1. active' \subseteq Caller /\ overdue' \subseteq active'
    BY <1>1 DEF Release, TypeOK
  <2>2. elapsed' \in 0 .. Window /\ weekAge' \in 0 .. Week /\ swept' \in BOOLEAN
    BY <1>1 DEF Release, TypeOK
  <2> QED
    BY <1>2, <1>4, <1>5, <2>1, <2>2 DEF TypeOK
<1>7. SlotsAreRunning'
  <2> SUFFICES ASSUME NEW d \in active' PROVE pc'[d] = "running"
    BY DEF SlotsAreRunning
  <2>1. d \in Caller /\ d # c /\ pc[d] = "running"
    BY <1>1 DEF Release, TypeOK, SlotsAreRunning
  <2>2. Woken(pc, 1)[d] = "running" /\ Woken(pc, 1) \in [Caller -> {"idle", "queued", "woken", "running"}]
    BY <2>1, WokenFacts
  <2> QED
    BY <2>1, <2>2 DEF Release
<1>8. /\ Cardinality(active') = IF c \in active THEN Cardinality(active) - 1 ELSE Cardinality(active)
      /\ Cardinality(active) \in Nat /\ Cardinality(active') \in Nat
  <2>1. IsFiniteSet(active) /\ active' = active \ {c}
    BY <1>1, SlotsFinite DEF Release
  <2> QED
    BY <2>1, FS_RemoveElement, FS_CardinalityType
<1>9. NothingLeaks'
  BY <1>1, <1>5, <1>8 DEF NothingLeaks
<1>10. BooksMatch' /\ CapUnlessSwept'
  <2>1. swept' = swept
    BY DEF Release
  <2>2. ASSUME ~ swept
        PROVE  bucket'.inFlight = Cardinality(active') /\ Cardinality(active') <= ConcurrentCap
    <3>1. c \in active
      BY <1>1, <2>2 DEF BooksMatch, Release
    <3> QED
      BY <1>1, <1>5, <1>8, <2>2, <3>1 DEF BooksMatch, CapUnlessSwept, CapRespected
  <2>3. ASSUME ~ swept, NEW d \in Caller, pc'[d] = "running"
        PROVE  d \in active'
    <3>1. Woken(pc, 1) \in [Caller -> {"idle", "queued", "woken", "running"}]
      BY WokenFacts
    <3>2. d # c /\ Woken(pc, 1)[d] = "running"
      BY <2>3, <3>1 DEF Release
    <3>3. pc[d] = "running"
      BY <3>2, WokenFacts
    <3> QED
      BY <1>1, <2>3, <3>2, <3>3 DEF BooksMatch, Release
  <2> QED
    BY <2>1, <2>2, <2>3 DEF BooksMatch, CapUnlessSwept, CapRespected
<1> QED
  BY <1>4, <1>6, <1>7, <1>9, <1>10 DEF IInv

\* The watchdog takes the overdue slots off the books and wakes as many waiters.
LEMMA SweepKeeps == ASSUME IInv, Sweep PROVE IInv'
<1>1. TypeOK /\ OnceInQueue /\ SlotsAreRunning /\ NothingLeaks
  BY DEF IInv
<1> PICK n \in Nat : n = Cardinality(overdue)
  BY <1>1, SlotsFinite
<1>2. pc' = Woken(pc, n) /\ queue' = Waiting(n)
  BY DEF Sweep, SweptCount
<1>3. pc' \in [Caller -> {"idle", "queued", "woken", "running"}]
  BY <1>2, WokenFacts
<1>4. queue' \in Seq({d \in Caller : pc'[d] = "queued"}) /\ OnceInQueue'
  BY <1>2, <1>3, WokenFacts, SignalKeepsQueue
<1>5. /\ bucket' \in [burst : 0 .. BurstCapacity, weekly : 0 .. WeeklyCap, inFlight : Nat]
      /\ bucket'.inFlight = IF bucket.inFlight > n THEN bucket.inFlight - n ELSE 0
      /\ bucket.inFlight \in Nat
  <2>1. bucket.inFlight \in Nat
    BY <1>1 DEF TypeOK
  <2>2. PICK m \in Nat : m = IF bucket.inFlight > n THEN bucket.inFlight - n ELSE 0
    BY <2>1
  <2>3. bucket' = [bucket EXCEPT !.inFlight = m]
    BY <2>2 DEF Sweep, SweptBucket
  <2> QED
    BY <1>1, <2>1, <2>2, <2>3, SlotsCounted
<1>6. TypeOK'
  <2>1. active' \subseteq Caller /\ overdue' \subseteq active'
    BY <1>1 DEF Sweep, TypeOK
  <2>2. elapsed' \in 0 .. Window /\ weekAge' \in 0 .. Week /\ swept' \in BOOLEAN
    BY <1>1 DEF Sweep, TypeOK
  <2> QED
    BY <1>3, <1>4, <1>5, <2>1, <2>2 DEF TypeOK
<1>7. SlotsAreRunning'
  BY <1>1, <1>2, WokenFacts DEF Sweep, TypeOK, SlotsAreRunning
<1>8. Cardinality(active') = Cardinality(active) - n /\ Cardinality(active) \in Nat
      /\ Cardinality(active') \in Nat
  <2>1. IsFiniteSet(active') /\ active' = active \ overdue
    BY <1>1, SlotsFinite, FS_Subset DEF Sweep
  <2> QED
    BY <1>1, <2>1, SlotsFinite, FS_CardinalityType
<1>9. NothingLeaks'
  BY <1>1, <1>5, <1>8 DEF NothingLeaks
<1>10. BooksMatch' /\ CapUnlessSwept'
  BY DEF Sweep, BooksMatch, CapUnlessSwept
<1> QED
  BY <1>4, <1>6, <1>7, <1>9, <1>10 DEF IInv

\* Reading the load refills the bucket and moves nobody.
LEMMA PollKeeps == ASSUME IInv, Poll PROVE IInv'
<1>1. TypeOK /\ OnceInQueue
  BY DEF IInv
<1>2. bucket' \in [burst : 0 .. BurstCapacity, weekly : 0 .. WeeklyCap, inFlight : Nat]
      /\ bucket'.inFlight = bucket.inFlight
  BY <1>1, RefilledType DEF Poll
<1>3. TypeOK'
  <2>1. elapsed' \in 0 .. Window /\ weekAge' \in 0 .. Week
    BY <1>1, RefillType DEF Poll
  <2>2. UNCHANGED <<pc, active, overdue, queue, swept>>
    BY DEF Poll
  <2> QED
    BY <1>1, <1>2, <2>1, <2>2 DEF TypeOK
<1>4. OnceInQueue'
  BY <1>1 DEF Poll, OnceInQueue
<1>5. SlotsAreRunning' /\ BooksMatch' /\ NothingLeaks' /\ CapUnlessSwept'
  BY <1>2, SlotsUntouched DEF Poll
<1> QED
  BY <1>3, <1>4, <1>5 DEF IInv

\* Time passes: every slot on the books becomes overdue.
LEMMA TickKeeps == ASSUME IInv, Tick PROVE IInv'
<1>1. TypeOK'
  BY DEF IInv, TypeOK, Tick
<1>2. OnceInQueue'
  BY DEF IInv, OnceInQueue, Tick
<1>3. SlotsAreRunning' /\ BooksMatch' /\ NothingLeaks' /\ CapUnlessSwept'
  BY SlotsUntouched DEF Tick
<1> QED
  BY <1>1, <1>2, <1>3 DEF IInv

-----------------------------------------------------------------------------

\* Every operation of the governor keeps the invariant.
LEMMA StepKeeps == IInv /\ [Next]_vars => IInv'
<1> SUFFICES ASSUME IInv, [Next]_vars PROVE IInv'
  OBVIOUS
<1>1. CASE UNCHANGED vars
  BY <1>1 DEF vars, IInv, TypeOK, OnceInQueue, SlotsAreRunning, BooksMatch, NothingLeaks,
              CapUnlessSwept, CapRespected
<1>2. ASSUME NEW c \in Caller, Acquire(c) PROVE IInv'
  BY <1>2, TakeKeeps DEF Acquire
<1>3. ASSUME NEW c \in Caller, Enqueue(c) PROVE IInv'
  BY <1>3, EnqueueKeeps
<1>4. ASSUME NEW c \in Caller, GiveUp(c) PROVE IInv'
  BY <1>4, GiveUpKeeps
<1>5. ASSUME NEW c \in Caller, Retry(c) PROVE IInv'
  BY <1>5, TakeKeeps DEF Retry
<1>6. ASSUME NEW c \in Caller, Refuse(c) PROVE IInv'
  BY <1>6, RefuseKeeps
<1>7. ASSUME NEW c \in Caller, Release(c) PROVE IInv'
  BY <1>7, ReleaseKeeps
<1>8. CASE Sweep
  BY <1>8, SweepKeeps
<1>9. CASE Poll
  BY <1>9, PollKeeps
<1>10. CASE Tick
  BY <1>10, TickKeeps
<1> QED
  BY <1>1, <1>2, <1>3, <1>4, <1>5, <1>6, <1>7, <1>8, <1>9, <1>10 DEF Next, Call

LEMMA Invariance == Spec => []IInv
  BY InitHolds, StepKeeps, PTL DEF Spec

\* The governor's state is always of its type: no counter of the bucket leaves its
\* range, and whoever is in the queue is a caller that waits (rate-governor-impl.ts,
\* token-bucket.ts, backpressure-queue.ts).
THEOREM TypeCorrect == Spec => []TypeOK
<1>1. IInv => TypeOK
  BY DEF IInv
<1> QED
  BY <1>1, Invariance, PTL

\* Until a slot is swept there are never more slots on the books than the
\* concurrency cap, whatever the order of wake-ups, second tries, timeouts and
\* releases (acquireSlot, releaseSlot).
THEOREM CapHolds == Spec => []CapUnlessSwept
<1>1. IInv => CapUnlessSwept
  BY DEF IInv
<1> QED
  BY <1>1, Invariance, PTL

\* The bucket never counts more slots in flight than there are on the books, sweeps
\* and releases of swept slots included (TokenBucket.release, sweepLeakedSlots).
THEOREM NoSlotLeaks == Spec => []NothingLeaks
<1>1. IInv => NothingLeaks
  BY DEF IInv
<1> QED
  BY <1>1, Invariance, PTL

=============================================================================
