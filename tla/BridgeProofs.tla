---------------------------- MODULE BridgeProofs ----------------------------
(***************************************************************************)
(* Proofs about three parts of a bridge process that keep state of their   *)
(* own and are stepped by themselves: the event bus with its persistence   *)
(* sink (EventLog), the node's part in the cluster (Membership), and the   *)
(* checkpoint sink of a session (CheckpointSink).                          *)
(***************************************************************************)
EXTENDS EventLog, Membership, CheckpointSink, SequenceTheorems, WellFoundedInduction, TLAPS

-----------------------------------------------------------------------------
(* The event log: first, induction over the natural numbers with a set for *)
(* the induction hypothesis, and what a fold of OnEvent keeps.             *)

LEMMA NatOrder ==
    \E R : IsWellFoundedOn(R, Nat) /\ \A x, y \in Nat : x < y => <<x, y>> \in R
<1> DEFINE R == OpToRel(<, Nat)
<1>1. IsWellFoundedOn(R, Nat)
  BY NatLessThanWellFounded
<1>2. \A x, y \in Nat : x < y => <<x, y>> \in R
  BY DEF OpToRel
<1> HIDE DEF R
<1> QED
  BY <1>1, <1>2

LEMMA LeastNat ==
    ASSUME NEW T, T \subseteq Nat, T # {}
    PROVE  \E x \in T : \A y \in T : x <= y
<1>1. PICK R : IsWellFoundedOn(R, Nat) /\ \A x, y \in Nat : x < y => <<x, y>> \in R
  BY NatOrder
<1>2. IsWellFoundedOn(R, Nat)
  BY <1>1
<1>3. PICK x \in T : \A y \in T : ~ (<<y, x>> \in R)
  BY <1>2, WFMin, Zenon
<1>4. ASSUME NEW y \in Nat, ~ (<<y, x>> \in R) PROVE x <= y
  BY <1>1, <1>4
<1>5. \A y \in T : x <= y
  BY <1>3, <1>4
<1> QED
  BY <1>5

LEMMA NatInductionSet ==
    ASSUME NEW T, 0 \in T, \A n \in Nat : n \in T => n + 1 \in T
    PROVE  Nat \subseteq T
<1> SUFFICES ASSUME Nat \ T # {} PROVE FALSE
  OBVIOUS
<1>1. PICK n \in Nat \ T : \A m \in Nat \ T : n <= m
  BY LeastNat
<1>2. n - 1 \in Nat /\ n - 1 \in T
  BY <1>1
<1> QED
  BY <1>2

LEMMA MaxFacts ==
    ASSUME NEW T, T \subseteq Nat, T # {}, NEW b \in Nat, \A y \in T : y <= b
    PROVE  Max(T) \in T /\ \A y \in T : y <= Max(T)
<1> DEFINE B == {m \in Nat : \A y \in T : y <= m}
<1>1. PICK m \in B : \A x \in B : m <= x
  <2>1. B \subseteq Nat /\ b \in B
    OBVIOUS
  <2> HIDE DEF B
  <2> QED
    BY <2>1, LeastNat
<1>2. m \in T
  <2> SUFFICES ASSUME m \notin T PROVE FALSE
    OBVIOUS
  <2>1. \A y \in T : y <= m - 1
    OBVIOUS
  <2>2. PICK y \in T : y <= m - 1
    BY <2>1
  <2>3. m - 1 \in B
    BY <2>1, <2>2
  <2> QED
    BY <1>1, <2>3
<1>3. \A y \in T : m >= y
  OBVIOUS
<1>4. Max(T) \in T /\ \A y \in T : Max(T) >= y
  BY <1>2, <1>3 DEF Max
<1> QED
  BY <1>4

\* g folds OnEvent over the events, from k, as far as the sets of D go.
Folded(g, k, events, D) ==
    \A s \in D : g[s] = IF s = {} THEN k ELSE OnEvent(g[s \ {Max(s)}], events[Max(s)])

LEMMA Shorter ==
    ASSUME NEW n \in Nat, NEW s \in SUBSET (1 .. n + 1), s # {}
    PROVE  Max(s) \in 1 .. n + 1 /\ s \ {Max(s)} \in SUBSET (1 .. n)
<1>1. s \subseteq Nat /\ n + 1 \in Nat /\ \A y \in s : y <= n + 1
  OBVIOUS
<1>2. Max(s) \in s /\ \A y \in s : y <= Max(s)
  BY <1>1, MaxFacts
<1>3. Max(s) \in 1 .. n + 1
  BY <1>2
<1>4. ASSUME NEW y \in s \ {Max(s)} PROVE y \in 1 .. n
  BY <1>2, <1>3
<1> QED
  BY <1>3, <1>4

Foldable(K, k, events, n) ==
    \E g \in [SUBSET (1 .. n) -> K] : Folded(g, k, events, SUBSET (1 .. n))

LEMMA FoldExists ==
    ASSUME NEW K, NEW S, NEW k \in K, NEW events \in Seq(S),
           \A j \in K, e \in S : OnEvent(j, e) \in K
    PROVE  Foldable(K, k, events, Len(events))
<1> DEFINE D(n) == SUBSET (1 .. n)
           T == {n \in Nat : n <= Len(events) => Foldable(K, k, events, n)}
<1>1. 0 \in T
  <2>1. \A s \in D(0) : s = {}
    OBVIOUS
  <2>2. [s \in D(0) |-> k] \in [D(0) -> K] /\ Folded([s \in D(0) |-> k], k, events, D(0))
    BY <2>1 DEF Folded
  <2> QED
    BY <2>2 DEF Foldable
<1>2. ASSUME NEW n \in Nat, n \in T PROVE n + 1 \in T
  <2> SUFFICES ASSUME n + 1 <= Len(events)
               PROVE  Foldable(K, k, events, n + 1)
    OBVIOUS
  <2>0. Foldable(K, k, events, n)
    BY <1>2
  <2>1. PICK g \in [D(n) -> K] : Folded(g, k, events, D(n))
    BY <2>0 DEF Foldable
  <2> DEFINE h == [s \in D(n + 1) |-> IF s = {} THEN k ELSE OnEvent(g[s \ {Max(s)}], events[Max(s)])]
  <2>2. \A s \in D(n + 1) : s # {} => s \ {Max(s)} \in D(n) /\ events[Max(s)] \in S
    BY Shorter
  <2>3. h \in [D(n + 1) -> K]
    <3>1. \A s \in D(n + 1) : s # {} => g[s \ {Max(s)}] \in K
      BY <2>2
    <3> HIDE DEF D
    <3> QED
      BY <2>2, <3>1
  <2>4. ASSUME NEW s \in D(n) PROVE s \in D(n + 1) /\ h[s] = g[s]
    <3>1. s \in D(n + 1)
      OBVIOUS
    <3>2. g[s] = IF s = {} THEN k ELSE OnEvent(g[s \ {Max(s)}], events[Max(s)])
      BY <2>1 DEF Folded
    <3> QED
      BY <3>1, <3>2
  <2>5. ASSUME NEW s \in D(n + 1)
        PROVE  h[s] = IF s = {} THEN k ELSE OnEvent(h[s \ {Max(s)}], events[Max(s)])
    BY <2>2, <2>4
  <2> HIDE DEF h
  <2>6. Folded(h, k, events, D(n + 1))
    BY <2>5 DEF Folded
  <2> QED
    BY <2>3, <2>6 DEF Foldable
<1>3. Len(events) \in T
  <2> HIDE DEF T
  <2> QED
    BY <1>1, <1>2, NatInductionSet
<1> QED
  BY <1>3

Within(K, g, n) == \A s \in SUBSET (1 .. n) : g[s] \in K

\* A set of sinks that OnEvent does not leave is not left by a replay.
LEMMA FoldStays ==
    ASSUME NEW K, NEW S, NEW k \in K, NEW events \in Seq(S),
           \A j \in K, e \in S : OnEvent(j, e) \in K
    PROVE  FoldLeft(OnEvent, k, events) \in K
<1> DEFINE D(n) == SUBSET (1 .. n)
           All == SUBSET (1 .. Len(events))
           Body(g) == [s \in All |-> IF s = {} THEN k ELSE OnEvent(g[s \ {Max(s)}], events[Max(s)])]
           it == CHOOSE g : g = Body(g)
<1>1. PICK g \in [All -> K] : Folded(g, k, events, All)
  BY FoldExists DEF Foldable
<1>2. g = Body(g)
  BY <1>1 DEF Folded
<1>3. it = Body(it)
  BY <1>2
<1>4. DOMAIN events = 1 .. Len(events)
  OBVIOUS
<1>5. FoldLeft(OnEvent, k, events) = it[1 .. Len(events)]
  BY <1>4 DEF FoldLeft, MapThenFoldSet
<1>6. Folded(it, k, events, All)
  BY <1>3 DEF Folded
<1> HIDE DEF it
<1> DEFINE T == {n \in Nat : n <= Len(events) => Within(K, it, n)}
<1>7. 0 \in T
  <2>1. \A s \in D(0) : s = {} /\ s \in All
    OBVIOUS
  <2> QED
    BY <1>6, <2>1 DEF Folded, Within
<1>8. ASSUME NEW n \in Nat, n \in T PROVE n + 1 \in T
  <2> SUFFICES ASSUME n + 1 <= Len(events) PROVE Within(K, it, n + 1)
    OBVIOUS
  <2>0. Within(K, it, n)
    BY <1>8
  <2> SUFFICES ASSUME NEW s \in D(n + 1) PROVE it[s] \in K
    BY DEF Within
  <2>1. s \in All
    OBVIOUS
  <2>2. CASE s = {}
    BY <1>6, <2>1, <2>2 DEF Folded
  <2>3. CASE s # {}
    <3>1. Max(s) \in 1 .. n + 1 /\ s \ {Max(s)} \in D(n)
      BY <2>3, Shorter
    <3>3. events[Max(s)] \in S
      BY <3>1
    <3>2. it[s \ {Max(s)}] \in K
      BY <2>0, <3>1 DEF Within
    <3> QED
      BY <1>6, <2>1, <2>3, <3>2, <3>3 DEF Folded
  <2> QED
    BY <2>2, <2>3
<1>9. Len(events) \in T
  <2> HIDE DEF T
  <2> QED
    BY <1>7, <1>8, NatInductionSet
<1>10. it[1 .. Len(events)] \in K
  BY <1>9 DEF Within
<1> QED
  BY <1>5, <1>10

LEMMA FoldOfNothing == \A k : FoldLeft(OnEvent, k, <<>>) = k
<1> SUFFICES ASSUME NEW k PROVE FoldLeft(OnEvent, k, <<>>) = k
  OBVIOUS
<1> DEFINE K == {k}
           S == {}
           none == <<>>
<1>1. none \in Seq(S) /\ k \in K /\ \A j \in K, e \in S : OnEvent(j, e) \in K
  OBVIOUS
<1>2. \A x \in K : x = k
  OBVIOUS
<1> HIDE DEF K, S, none
<1>3. FoldLeft(OnEvent, k, none) \in K
  BY <1>1, FoldStays
<1> QED
  BY <1>2, <1>3 DEF none

-----------------------------------------------------------------------------
(* Types, and the numbers of what the sink has taken in.                   *)

SinkOf(n, m) ==
    [buffer : Seq(Upto(n)), batch : Seq(Upto(n)), last : 0 .. m, timer : BOOLEAN,
     pc : {"idle", "append", "load", "save"}, pending : 0 .. m]

Counted ==
    /\ phase \in {"down", "starting", "initialized", "live", "stopping", "disposed"}
    /\ sequence \in Nat /\ emitted \in 0 .. MaxEvents /\ sequence <= emitted
    /\ cursor \in 0 .. emitted
    /\ saving \in [pc : {"none", "load", "save", "done"}, value : 0 .. emitted]
    /\ fresh \subseteq Event
    /\ lives \in 0 .. MaxLives /\ failures \in 0 .. MaxFail

Sunk == sink \in SinkOf(sequence, emitted)

Working == phase \in {"live", "stopping", "disposed"}

Logged ==
    /\ log \in Seq(Upto(emitted))
    /\ (FullWindow /\ Working) => log \in Seq(Upto(sequence))

LEMMA UptoGrows ==
    ASSUME NEW n \in Nat, NEW m \in Nat, n <= m
    PROVE  Upto(n) \subseteq Upto(m) /\ Seq(Upto(n)) \subseteq Seq(Upto(m))
<1>1. Upto(n) \subseteq Upto(m)
  BY DEF Upto
<1> QED
  BY <1>1

LEMMA UptoIsEvent ==
    ASSUME Parameters, NEW n \in 0 .. MaxEvents
    PROVE  Upto(n) \subseteq Event /\ Seq(Upto(n)) \subseteq Seq(Event)
<1>1. Upto(n) \subseteq Event
  BY DEF Parameters, Upto, Event
<1> QED
  BY <1>1

LEMMA SeenParts ==
    Parameters => (SeenInv <=> Counted /\ Sunk /\ Logged /\ DownIsEmpty)
<1> SUFFICES ASSUME Parameters PROVE SeenInv <=> Counted /\ Sunk /\ Logged /\ DownIsEmpty
  OBVIOUS
<1>0. MaxEvents \in Nat
  BY DEF Parameters
<1>1. ASSUME SeenInv PROVE Counted /\ Sunk /\ Logged /\ DownIsEmpty
  <2>1. TypeOK /\ SeenIsNumbered /\ DownIsEmpty
    BY <1>1 DEF SeenInv
  <2>2. Counted
    BY <1>0, <2>1 DEF TypeOK, SeenIsNumbered, Counted
  <2>3. Sunk
    BY <1>0, <2>1 DEF TypeOK, SeenIsNumbered, Sunk, SinkOf
  <2>4. Logged
    BY <2>1 DEF SeenIsNumbered, Logged, Working
  <2> QED
    BY <2>1, <2>2, <2>3, <2>4
<1>2. ASSUME Counted, Sunk, Logged, DownIsEmpty PROVE SeenInv
  <2>1. sequence \in 0 .. MaxEvents /\ emitted \in 0 .. MaxEvents
    BY <1>0, <1>2 DEF Counted
  <2>2. sink.buffer \in Seq(Event) /\ sink.batch \in Seq(Event) /\ log \in Seq(Event)
    BY <1>2, <2>1, UptoIsEvent DEF Sunk, SinkOf, Logged
  <2>7. 0 .. emitted \subseteq 0 .. MaxEvents
    BY <1>0, <2>1
  <2>3. sink \in [buffer : Seq(Event), batch : Seq(Event), last : 0 .. MaxEvents,
  timer : BOOLEAN,
                   pc : {"idle", "append", "load", "save"}, pending : 0 .. MaxEvents]
    <3>1. sink \in [buffer : Seq(Upto(sequence)), batch : Seq(Upto(sequence)),
    last : 0 .. emitted,
                    timer : BOOLEAN, pc : {"idle", "append", "load", "save"}, pending : 0 .. emitted]
      BY <1>2 DEF Sunk, SinkOf
    <3> HIDE <1>2
    <3> QED
      BY <2>2, <2>7, <3>1
  <2>4. cursor \in 0 .. MaxEvents /\ saving \in [pc : {"none", "load", "save", "done"}, value : 0 .. MaxEvents]
    BY <1>2, <2>7 DEF Counted
  <2>5. TypeOK
    BY <1>2, <2>1, <2>2, <2>3, <2>4 DEF TypeOK, Counted
  <2>6. SeenIsNumbered
    BY <1>2, <2>1 DEF SeenIsNumbered, Counted, Sunk, SinkOf, Logged, Working
  <2> QED
    BY <1>2, <2>5, <2>6 DEF SeenInv
<1> QED
  BY <1>1, <1>2

LEMMA SinkGrows ==
    ASSUME NEW n \in Nat, NEW m \in Nat, NEW p \in Nat, NEW q \in Nat, n <= p, m <= q
    PROVE  SinkOf(n, m) \subseteq SinkOf(p, q)
<1>1. Seq(Upto(n)) \subseteq Seq(Upto(p)) /\ 0 .. m \subseteq 0 .. q
  BY UptoGrows
<1> QED
  BY <1>1 DEF SinkOf

LEMMA BeginFlushStays ==
    ASSUME NEW n \in Nat, NEW m \in Nat, NEW k \in SinkOf(n, m)
    PROVE  BeginFlush(k) \in SinkOf(n, m)
<1>1. <<>> \in Seq(Upto(n))
  OBVIOUS
<1> QED
  BY <1>1 DEF BeginFlush, SinkOf

LEMMA OnEventStays ==
    ASSUME NEW n \in Nat, NEW m \in Nat, n <= m, NEW k \in SinkOf(n, m), NEW e \in Upto(n)
    PROVE  OnEvent(k, e) \in SinkOf(n, m)
<1> DEFINE fed == [k EXCEPT !.buffer = Append(@, e), !.last = e.sequence]
<1>1. e.sequence \in 0 .. m
  BY DEF Upto
<1>2. Append(k.buffer, e) \in Seq(Upto(n))
  BY DEF SinkOf
<1>3. fed \in SinkOf(n, m)
  BY <1>1, <1>2 DEF SinkOf
<1>4. BeginFlush(fed) \in SinkOf(n, m)
  BY <1>3, BeginFlushStays
<1>5. [fed EXCEPT !.timer = TRUE] \in SinkOf(n, m)
  BY <1>3 DEF SinkOf
<1> QED
  BY <1>3, <1>4, <1>5 DEF OnEvent

LEMMA EmptySinkIsOne == \A n, m \in Nat : FreshSink \in SinkOf(n, m)
<1>1. \A n \in Nat : <<>> \in Seq(Upto(n))
  OBVIOUS
<1> QED
  BY <1>1 DEF FreshSink, SinkOf

\* An event is emitted on a sink that has seen no others.
LEMMA EmitSinks ==
    ASSUME Parameters, Counted, NEW k \in SinkOf(sequence, emitted), EmitTo(k)
    PROVE  /\ emitted' = emitted + 1 /\ sequence' = sequence + 1 /\ emitted' \in 0 .. MaxEvents
           /\ fresh' \subseteq Event
           /\ sink' \in SinkOf(sequence', emitted')
           /\ cursor \in 0 .. emitted'
           /\ saving \in [pc : {"none", "load", "save", "done"}, value : 0 .. emitted']
           /\ \A n \in Nat : n <= emitted => Seq(Upto(n)) \subseteq Seq(Upto(n + 1))
<1> DEFINE e == [sequence |-> sequence + 1, id |-> emitted + 1]
<1>0. MaxEvents \in Nat
  BY DEF Parameters
<1>1. sequence' = sequence + 1 /\ emitted' = emitted + 1 /\ emitted' \in 0 .. MaxEvents
  BY <1>0 DEF EmitTo, Counted
<1>2. e \in Upto(sequence + 1) /\ e \in Event
  BY <1>0, <1>1 DEF Upto, Event, Counted
<1>3. k \in SinkOf(sequence + 1, emitted + 1)
  BY SinkGrows DEF Counted
<1>4. OnEvent(k, e) \in SinkOf(sequence + 1, emitted + 1)
  <2> HIDE DEF e
  <2> QED
    BY <1>2, <1>3, OnEventStays DEF Counted
<1>5. fresh' \subseteq Event
  BY <1>2 DEF EmitTo, Counted
<1>6. cursor \in 0 .. emitted' /\ saving \in [pc : {"none", "load", "save", "done"}, value : 0 .. emitted']
  BY <1>1 DEF Counted
<1>7. sink' \in SinkOf(sequence', emitted')
  BY <1>1, <1>4 DEF EmitTo
<1>8. \A n \in Nat : n <= emitted => Seq(Upto(n)) \subseteq Seq(Upto(n + 1))
  BY UptoGrows
<1> QED
  BY <1>1, <1>5, <1>6, <1>7, <1>8

LEMMA InitSeen == Parameters /\ Init => SeenInv
<1> SUFFICES ASSUME Parameters, Init PROVE SeenInv
  OBVIOUS
<1>1. Counted
  BY DEF Parameters, Init, NotSaving, Counted
<1>2. Sunk
  BY EmptySinkIsOne DEF Init, Sunk
<1>3. Logged
  BY DEF Init, Logged, Working
<1>4. DownIsEmpty
  BY DEF Init, DownIsEmpty
<1> QED
  BY <1>1, <1>2, <1>3, <1>4, SeenParts

\* The parts of the invariant, for a step that says what becomes of each.
Parts == Counted /\ Sunk /\ Logged /\ DownIsEmpty

LEMMA LoggedStays ==
    ASSUME Parts, log' = log, sequence' \in Nat, sequence <= sequence', emitted' \in Nat, emitted <= emitted',
           Working' => Working
    PROVE  Logged'
<1>1. PICK n \in Nat, m \in Nat : n = sequence' /\ m = emitted'
  OBVIOUS
<1>2. sequence \in Nat /\ emitted \in Nat
  BY DEF Parts, Counted
<1>3. Seq(Upto(sequence)) \subseteq Seq(Upto(n)) /\ Seq(Upto(emitted)) \subseteq Seq(Upto(m))
  BY <1>1, <1>2, UptoGrows
<1>4. log' \in Seq(Upto(m)) /\ ((FullWindow /\ Working') => log' \in Seq(Upto(n)))
  BY <1>3 DEF Parts, Logged
<1> QED
  BY <1>1, <1>4 DEF Logged, Upto

LEMMA StartSeen == ASSUME Parameters, Parts, Start PROVE Parts'
<1>1. sequence = 0 /\ EmitTo(FreshSink)
  BY DEF Start, Parts, DownIsEmpty
<1>2. Counted /\ FreshSink \in SinkOf(sequence, emitted)
  BY <1>1, EmptySinkIsOne DEF Parts, Counted
<1>3. Counted'
  BY <1>1, <1>2, EmitSinks DEF Start, Counted, Event, Parameters
<1>4. Sunk'
  BY <1>1, <1>2, EmitSinks DEF Sunk, SinkOf, Upto
<1>5. ~ Working' /\ phase' # "down"
  BY DEF Start, Working
<1>6. Logged'
  BY <1>1, <1>2, <1>5, EmitSinks, LoggedStays DEF Start, Counted
<1>7. DownIsEmpty'
  BY <1>5 DEF DownIsEmpty
<1> QED
  BY <1>3, <1>4, <1>6, <1>7 DEF Parts

LEMMA EmitSeen ==
    ASSUME Parameters, Parts, EmitTo(sink), UNCHANGED <<log, cursor, saving, lives, failures>>,
           Working, Working'
    PROVE  Parts'
<1>1. Counted /\ sink \in SinkOf(sequence, emitted)
  BY DEF Parts, Sunk
<1>2. Counted'
  BY <1>1, EmitSinks DEF Counted, Event, Working
<1>3. Sunk'
  BY <1>1, EmitSinks DEF Sunk, SinkOf, Upto
<1>4. Logged' /\ DownIsEmpty'
  BY <1>1, EmitSinks, LoggedStays DEF Counted, Working, DownIsEmpty
<1> QED
  BY <1>2, <1>3, <1>4 DEF Parts

LEMMA InitSinkSeen == ASSUME Parameters, Parts, InitSink PROVE Parts'
<1>1. Counted'
  BY DEF InitSink, Parts, Counted, Event
<1>2. [sink EXCEPT !.last = cursor] \in SinkOf(sequence, emitted)
  BY DEF Parts, Sunk, SinkOf, Counted
<1>3. Sunk'
  BY <1>2 DEF InitSink, Sunk, SinkOf, Upto
<1>4. Logged' /\ DownIsEmpty'
  BY DEF InitSink, Parts, Logged, Working, DownIsEmpty, Upto
<1> QED
  BY <1>1, <1>3, <1>4 DEF Parts

\* The counter after an import is not behind the events imported, nor ahead of
\* what was ever emitted.
LEMMA ImportFacts ==
    ASSUME Parts, NEW events \in Seq(Upto(emitted))
    PROVE  /\ Import(events) \in Nat /\ sequence <= Import(events) /\ Import(events) <= emitted
           /\ events \in Seq(Upto(Import(events)))
<1> DEFINE T == {sequence} \cup {e.sequence : e \in Range(events)}
<1>1. \A i \in 1 .. Len(events) : events[i].sequence \in T
  BY DEF Range
<1>2. T \subseteq 0 .. emitted /\ emitted \in Nat
  <2>1. sequence \in 0 .. emitted /\ emitted \in Nat
    BY DEF Parts, Counted
  <2>2. ASSUME NEW e \in Range(events) PROVE e.sequence \in 0 .. emitted
    <3>1. PICK i \in 1 .. Len(events) : e = events[i]
      BY DEF Range
    <3>2. events[i] \in Upto(emitted)
      BY <3>1
    <3>3. e.sequence \in 1 .. emitted
      BY <3>1, <3>2 DEF Upto
    <3> QED
      BY <2>1, <3>3
  <2> QED
    BY <2>1, <2>2
<1>3. sequence \in T
  OBVIOUS
<1> HIDE DEF T
<1>4. Max(T) \in T /\ \A y \in T : y <= Max(T)
  <2>1. T \subseteq Nat /\ T # {} /\ \A y \in T : y <= emitted
    BY <1>2, <1>3
  <2> QED
    BY <1>2, <2>1, MaxFacts
<1>5. Import(events) = Max(T)
  BY DEF Import, T
<1>6. Max(T) \in Nat /\ sequence <= Max(T) /\ Max(T) <= emitted
  <2>1. Max(T) \in 0 .. emitted /\ sequence <= Max(T)
    BY <1>2, <1>3, <1>4, Zenon
  <2> QED
    BY <1>2, <2>1
<1>7. ASSUME NEW i \in 1 .. Len(events) PROVE events[i] \in Upto(Max(T))
  <2>1. events[i] \in Upto(emitted) /\ events[i].sequence <= Max(T)
    BY <1>1, <1>4
  <2> QED
    BY <1>6, <2>1 DEF Upto
<1>8. events \in Seq(Upto(Max(T)))
  BY <1>7
<1> QED
  BY <1>5, <1>6, <1>8

LEMMA ReplaySeen ==
    ASSUME Parameters, Parts, NEW from \in 1 .. Len(log) + 1, Replay(from)
    PROVE  Parts'
<1> DEFINE events == SubSeq(log, from, Len(log))
<1>1. log \in Seq(Upto(emitted)) /\ events \in Seq(Upto(emitted))
  BY DEF Parts, Logged
<1>2. sequence' = Import(events) /\ sink' = FoldLeft(OnEvent, sink, events)
  BY DEF Replay
<1>3. FullWindow => events = log
  BY <1>1 DEF Replay
<1> HIDE DEF events
<1>4. /\ sequence' \in Nat /\ sequence <= sequence' /\ sequence' <= emitted
      /\ events \in Seq(Upto(sequence'))
  BY <1>1, <1>2, ImportFacts
<1>5. sequence \in Nat /\ emitted \in Nat
  BY DEF Parts, Counted
<1>6. PICK n \in Nat : n = sequence'
  BY <1>4
<1>7. sink \in SinkOf(n, emitted)
  BY <1>4, <1>5, <1>6, SinkGrows DEF Parts, Sunk
<1>8. \A j \in SinkOf(n, emitted), e \in Upto(n) : OnEvent(j, e) \in SinkOf(n, emitted)
  BY <1>4, <1>5, <1>6, OnEventStays
<1>9. FoldLeft(OnEvent, sink, events) \in SinkOf(n, emitted)
  BY <1>4, <1>6, <1>7, <1>8, FoldStays
<1>10. emitted' = emitted
  BY DEF Replay
<1>11. Counted'
  BY <1>4, <1>10 DEF Replay, Parts, Counted, Event
<1>12. Sunk'
  BY <1>2, <1>6, <1>9, <1>10 DEF Sunk, SinkOf, Upto
<1>13. Logged' /\ DownIsEmpty'
  BY <1>1, <1>3, <1>4, <1>10 DEF Replay, Logged, Working, DownIsEmpty, Upto
<1> QED
  BY <1>11, <1>12, <1>13 DEF Parts

\* A step that neither emits nor writes the log, of a process that goes on.
LEMMA QuietStep ==
    ASSUME Parameters, Parts, UNCHANGED <<sequence, emitted, log, fresh, lives>>,
           sink' \in SinkOf(sequence, emitted),
           phase' \in {"starting", "initialized", "live", "stopping", "disposed"}, Working' => Working,
           cursor' \in 0 .. emitted, failures' \in 0 .. MaxFail,
           saving' \in [pc : {"none", "load", "save", "done"}, value : 0 .. emitted]
    PROVE  Parts'
<1>1. Counted'
  BY DEF Parts, Counted, Event
<1>2. Sunk'
  BY DEF Sunk, SinkOf, Upto
<1>3. Logged'
  BY LoggedStays DEF Parts, Counted
<1>4. DownIsEmpty'
  BY DEF DownIsEmpty
<1> QED
  BY <1>1, <1>2, <1>3, <1>4 DEF Parts

LEMMA WorkSeen ==
    ASSUME Parameters, Parts,
           Dispose \/ ShutdownLoad \/ ShutdownSave \/ FireTimer \/ LoadCursors \/ SaveCursors \/ SaveFails
    PROVE  Parts'
<1>1. /\ sink \in SinkOf(sequence, emitted) /\ sequence \in Nat /\ emitted \in Nat
      /\ cursor \in 0 .. emitted /\ failures \in 0 .. MaxFail /\ MaxFail \in Nat
      /\ saving \in [pc : {"none", "load", "save", "done"}, value : 0 .. emitted]
      /\ phase \in {"down", "starting", "initialized", "live", "stopping", "disposed"}
  BY DEF Parts, Sunk, Counted, Parameters
<1>2. phase = "down" => sink.pc = "idle" /\ ~ sink.timer /\ saving.pc = "none"
  BY DEF Parts, DownIsEmpty, FreshSink, NotSaving
<1>3. [sink EXCEPT !.timer = FALSE] \in SinkOf(sequence, emitted)
  BY <1>1 DEF SinkOf
<1>4. BeginFlush([sink EXCEPT !.timer = FALSE]) \in SinkOf(sequence, emitted)
  BY <1>1, <1>3, BeginFlushStays
<1>5. CASE Dispose
  BY <1>1, <1>4, <1>5, QuietStep DEF Dispose, Working
<1>6. CASE ShutdownLoad
  BY <1>1, <1>2, <1>6, QuietStep DEF ShutdownLoad, Working
<1>7. CASE ShutdownSave
  BY <1>1, <1>2, <1>7, QuietStep DEF ShutdownSave, Working
<1>8. CASE FireTimer
  BY <1>1, <1>2, <1>4, <1>8, QuietStep DEF FireTimer, Working
<1>9. CASE LoadCursors
  <2>1. [sink EXCEPT !.pc = "save", !.pending = sink.last] \in SinkOf(sequence, emitted)
    BY <1>1 DEF SinkOf
  <2> QED
    BY <1>1, <1>2, <1>9, <2>1, QuietStep DEF LoadCursors, Working
<1>10. [sink EXCEPT !.pc = "idle", !.pending = 0] \in SinkOf(sequence, emitted)
  <2>1. 0 \in 0 .. emitted
    BY <1>1
  <2> QED
    BY <1>1, <2>1 DEF SinkOf
<1>11. CASE SaveCursors
  <2>1. sink.pending \in 0 .. emitted
    BY <1>1 DEF SinkOf
  <2> QED
    BY <1>1, <1>2, <1>10, <1>11, <2>1, QuietStep DEF SaveCursors, Working
<1>12. CASE SaveFails
  BY <1>1, <1>2, <1>10, <1>12, QuietStep DEF SaveFails, Working
<1> QED
  BY <1>5, <1>6, <1>7, <1>8, <1>9, <1>11, <1>12

LEMMA EndSeen == ASSUME Parameters, Parts, End PROVE Parts'
<1>1. Counted'
  BY DEF End, Parts, Counted, NotSaving
<1>2. Sunk'
  <2>1. FreshSink \in SinkOf(0, emitted)
    BY EmptySinkIsOne DEF Parts, Counted
  <2> QED
    BY <2>1 DEF End, Sunk, SinkOf, Upto
<1>3. Logged' /\ DownIsEmpty'
  BY DEF End, Parts, Logged, Working, Upto, DownIsEmpty
<1> QED
  BY <1>1, <1>2, <1>3 DEF Parts

LEMMA AppendSeen == ASSUME Parameters, Parts, AppendBatch PROVE Parts'
<1>1. sink \in SinkOf(sequence, emitted) /\ sequence \in Nat /\ emitted \in Nat /\ sequence <= emitted
  BY DEF Parts, Sunk, Counted
<1>2. phase # "down"
  BY DEF AppendBatch, Parts, DownIsEmpty, FreshSink
<1>3. Counted'
  BY DEF AppendBatch, Parts, Counted, Event
<1>4. [sink EXCEPT !.batch = <<>>, !.pc = "load"] \in SinkOf(sequence, emitted)
  <2>1. <<>> \in Seq(Upto(sequence))
    OBVIOUS
  <2> QED
    BY <1>1, <2>1 DEF SinkOf
<1>5. Sunk'
  BY <1>4 DEF AppendBatch, Sunk, SinkOf, Upto
<1>6. sink.batch \in Seq(Upto(sequence)) /\ sink.batch \in Seq(Upto(emitted))
  BY <1>1, UptoGrows DEF SinkOf
<1>7. log \o sink.batch \in Seq(Upto(emitted))
  BY <1>6, ConcatProperties DEF Parts, Logged
<1>8. (FullWindow /\ Working) => log \o sink.batch \in Seq(Upto(sequence))
  BY <1>6, ConcatProperties DEF Parts, Logged
<1>9. Logged'
  BY <1>7, <1>8 DEF AppendBatch, Logged, Working, Upto
<1>10. DownIsEmpty'
  BY <1>2 DEF AppendBatch, DownIsEmpty
<1> QED
  BY <1>3, <1>5, <1>9, <1>10 DEF Parts

LEMMA PutBackStays ==
    ASSUME NEW n \in Nat, NEW m \in Nat, NEW k \in SinkOf(n, m)
    PROVE  PutBack(k) \in SinkOf(n, m)
<1>1. k.batch \o k.buffer \in Seq(Upto(n)) /\ <<>> \in Seq(Upto(n))
  BY ConcatProperties DEF SinkOf
<1> QED
  BY <1>1 DEF PutBack, SinkOf

LEMMA FailSeen == ASSUME Parameters, Parts, AppendFails PROVE Parts'
<1> DEFINE e == [sequence |-> sequence + 1, id |-> emitted + 1]
<1>0. MaxEvents \in Nat
  BY DEF Parameters
<1>1. /\ sink \in SinkOf(sequence, emitted) /\ sequence \in Nat /\ emitted \in Nat /\ sequence <= emitted
      /\ emitted + 1 <= MaxEvents
  BY <1>0 DEF AppendFails, Parts, Sunk, Counted
<1>2. phase # "down"
  BY DEF AppendFails, Parts, DownIsEmpty, FreshSink
<1>3. e \in Upto(sequence + 1) /\ e \in Event
  BY <1>0, <1>1 DEF Upto, Event
<1>4. sequence' = sequence + 1 /\ emitted' = emitted + 1 /\ fresh' = fresh \cup {e} /\ sink' = PutBack(OnEvent(sink, e))
  BY DEF AppendFails
<1> HIDE DEF e
<1>5. PutBack(OnEvent(sink, e)) \in SinkOf(sequence + 1, emitted + 1)
  <2>1. sink \in SinkOf(sequence + 1, emitted + 1)
    BY <1>1, SinkGrows
  <2>2. OnEvent(sink, e) \in SinkOf(sequence + 1, emitted + 1)
    BY <1>1, <1>3, <2>1, OnEventStays
  <2> QED
    BY <1>1, <2>2, PutBackStays
<1>6. failures' \in 0 .. MaxFail /\ UNCHANGED <<phase, log, cursor, saving, lives>>
  BY DEF AppendFails, Parts, Counted, Parameters
<1>7. Counted'
  BY <1>0, <1>1, <1>3, <1>4, <1>6 DEF Parts, Counted, Event
<1>8. Sunk'
  BY <1>4, <1>5 DEF Sunk, SinkOf, Upto
<1>9. Logged'
  BY <1>1, <1>4, <1>6, LoggedStays DEF Working
<1>10. DownIsEmpty'
  BY <1>2, <1>6 DEF DownIsEmpty
<1> QED
  BY <1>7, <1>8, <1>9, <1>10 DEF Parts

LEMMA StillSeen == ASSUME Parts, UNCHANGED vars PROVE Parts'
<1>1. Counted' /\ Sunk' /\ Logged' /\ DownIsEmpty'
  BY DEF vars, Parts, Counted, Event, Sunk, SinkOf, Upto, Logged, Working, DownIsEmpty
<1> QED
  BY <1>1 DEF Parts

LEMMA StepSeen == ASSUME Parameters, Parts, [Next]_vars PROVE Parts'
<1>1. CASE Emit \/ Stop
  BY <1>1, EmitSeen DEF Emit, Stop, Working
<1>2. CASE File
  BY <1>2, AppendSeen, WorkSeen DEF File
<1> QED
  BY <1>1, <1>2, StartSeen, InitSinkSeen, WorkSeen, EndSeen, ReplaySeen, FailSeen,
     StillSeen DEF Next

LEMMA SeenKept == Parameters /\ SeenInv /\ [Next]_vars => SeenInv'
<1>1. Parameters => (SeenInv <=> Parts)
  BY SeenParts DEF Parts
<1>2. Parameters => Parameters'
  BY DEF Parameters
<1>3. Parameters => (SeenInv' <=> Parts')
  BY <1>1, <1>2, PTL
<1> QED
  BY <1>1, <1>3, StepSeen

\* Every number, buffer and file of the bus and its sink stays within its type, for every
\* batch size, window and number of processes.
THEOREM TypeCorrect == Spec => []TypeOK
<1> SUFFICES ASSUME Parameters PROVE Spec => []TypeOK
  BY EventLogAssumption
<1>1. Init => SeenInv
  BY InitSeen
<1>2. SeenInv /\ [Next]_vars => SeenInv'
  BY SeenKept
<1>3. SeenInv => TypeOK
  BY DEF SeenInv
<1> QED
  BY <1>1, <1>2, <1>3, PTL DEF Spec

\* When the replay window covers the whole log, a process numbers what it emits after all
\* that the log holds, whichever process wrote it (importEvent, emit, replay).
THEOREM NumbersGoOn == FullWindow => (Spec => []FreshSequence)
<1> SUFFICES ASSUME Parameters, FullWindow PROVE Spec => []FreshSequence
  BY EventLogAssumption
<1>1. Init => SeenInv
  BY InitSeen
<1>2. SeenInv /\ [Next]_vars => SeenInv'
  BY SeenKept
<1>3. SeenInv => FreshSequence
  <2> SUFFICES ASSUME SeenInv, Working, NEW i \in 1 .. Len(log) PROVE log[i].sequence <= sequence
    BY DEF FreshSequence, Working
  <2>1. log \in Seq(Upto(sequence))
    BY DEF SeenInv, SeenIsNumbered, Working
  <2>2. log[i] \in Upto(sequence)
    BY <2>1
  <2>3. log[i].sequence \in 1 .. sequence
    BY <2>2 DEF Upto
  <2>4. sequence \in Nat
    BY DEF SeenInv, TypeOK
  <2> QED
    BY <2>3, <2>4
<1> QED
  BY <1>1, <1>2, <1>3, PTL DEF Spec

-----------------------------------------------------------------------------
(* The first process: log, batch and buffer are what it has emitted.       *)

Holds(k) == k.pc # "append" => k.batch = <<>>

Pending(k) == k.batch \o k.buffer

LEMMA Associate ==
    ASSUME NEW S, NEW s \in Seq(S), NEW t \in Seq(S), NEW u \in Seq(S)
    PROVE  s \o (t \o u) = (s \o t) \o u
  BY ConcatAssociative

LEMMA BeginFlushHolds ==
    ASSUME NEW n \in Nat, NEW m \in Nat, NEW k \in SinkOf(n, m), Holds(k)
    PROVE  /\ Holds(BeginFlush(k)) /\ Pending(BeginFlush(k)) = Pending(k)
           /\ BeginFlush(k).last = k.last
           /\ k.pc = "append" => BeginFlush(k) = k
<1>1. CASE k.pc # "idle" \/ k.buffer = <<>>
  BY <1>1 DEF BeginFlush
<1>2. CASE k.pc = "idle" /\ k.buffer # <<>>
  <2>1. k.batch = <<>> /\ k.buffer \in Seq(Upto(n))
    BY <1>2 DEF Holds, SinkOf
  <2>2. /\ BeginFlush(k).pc = "append" /\ BeginFlush(k).batch = k.buffer /\ BeginFlush(k).buffer = <<>>
        /\ BeginFlush(k).last = k.last
    BY <1>2 DEF BeginFlush, SinkOf
  <2>3. k.buffer \o <<>> = <<>> \o k.buffer
    BY <2>1, ConcatEmptySeq
  <2> QED
    BY <1>2, <2>1, <2>2, <2>3 DEF Holds, Pending
<1> QED
  BY <1>1, <1>2

LEMMA OnEventHolds ==
    ASSUME NEW n \in Nat, NEW m \in Nat, n <= m, NEW k \in SinkOf(n, m), Holds(k), NEW e \in Upto(n)
    PROVE  Holds(OnEvent(k, e))
<1> DEFINE fed == [k EXCEPT !.buffer = Append(@, e), !.last = e.sequence]
<1>1. fed \in SinkOf(n, m) /\ Holds(fed)
  <2>1. Append(k.buffer, e) \in Seq(Upto(n)) /\ e.sequence \in 0 .. m
    BY DEF SinkOf, Upto
  <2> QED
    BY <2>1 DEF SinkOf, Holds
<1>2. Holds(BeginFlush(fed))
  BY <1>1, BeginFlushHolds
<1>3. Holds([fed EXCEPT !.timer = TRUE])
  BY <1>1 DEF Holds, SinkOf
<1> QED
  BY <1>2, <1>3 DEF OnEvent

\* A new event goes behind all that waits.
LEMMA OnEventFeeds ==
    ASSUME NEW n \in Nat, NEW m \in Nat, n <= m, NEW k \in SinkOf(n, m), Holds(k), NEW e \in Upto(n),
           k.last < e.sequence
    PROVE  /\ Pending(OnEvent(k, e)) = Append(Pending(k), e)
           /\ OnEvent(k, e).last = e.sequence
<1> DEFINE fed == [k EXCEPT !.buffer = Append(@, e), !.last = e.sequence]
<1>0. k.last \in Nat /\ e.sequence \in Nat
  BY DEF SinkOf, Upto
<1>1. fed \in SinkOf(n, m) /\ Holds(fed) /\ fed.batch = k.batch /\ fed.buffer = Append(k.buffer, e) /\ fed.last = e.sequence
  <2>1. Append(k.buffer, e) \in Seq(Upto(n)) /\ e.sequence \in 0 .. m
    BY DEF SinkOf, Upto
  <2> QED
    BY <2>1 DEF SinkOf, Holds
<1>2. Pending(fed) = Append(Pending(k), e)
  <2>1. k.batch \in Seq(Upto(n)) /\ k.buffer \in Seq(Upto(n)) /\ k.batch \o k.buffer \in Seq(Upto(n)) /\ <<e>> \in Seq(Upto(n))
    BY ConcatProperties DEF SinkOf
  <2>2. Append(k.buffer, e) = k.buffer \o <<e>> /\ Append(k.batch \o k.buffer, e) = (k.batch \o k.buffer) \o <<e>>
    BY <2>1, AppendIsConcat
  <2>3. k.batch \o (k.buffer \o <<e>>) = (k.batch \o k.buffer) \o <<e>>
    <3> DEFINE s == k.batch
               t == k.buffer
               u == <<e>>
               S == Upto(n)
    <3>1. s \in Seq(S) /\ t \in Seq(S) /\ u \in Seq(S)
      BY <2>1
    <3> HIDE DEF s, t, u, S
    <3>2. s \o (t \o u) = (s \o t) \o u
      BY <3>1, Associate
    <3> QED
      BY <3>2 DEF s, t, u
  <2> QED
    BY <1>1, <2>2, <2>3 DEF Pending
<1>3. [fed EXCEPT !.timer = TRUE].batch = fed.batch /\ [fed EXCEPT !.timer = TRUE].buffer = fed.buffer /\ [fed EXCEPT !.timer = TRUE].last = fed.last
  OBVIOUS
<1> HIDE DEF fed
<1>4. Pending(BeginFlush(fed)) = Pending(fed) /\ BeginFlush(fed).last = e.sequence
  BY <1>1, BeginFlushHolds
<1>5. OnEvent(k, e) = BeginFlush(fed) \/ OnEvent(k, e) = [fed EXCEPT !.timer = TRUE]
  BY <1>0 DEF OnEvent, fed
<1> QED
  BY <1>1, <1>2, <1>3, <1>4, <1>5 DEF Pending

LEMMA NumberedGrows ==
    ASSUME Parameters, NEW n \in Nat, n + 1 <= MaxEvents, NEW e, e = [sequence |-> n + 1, id |-> n + 1]
    PROVE  /\ Numbered(n) \in Seq(Event) /\ Len(Numbered(n)) = n
           /\ Append(Numbered(n), e) = Numbered(n + 1)
           /\ Range(Numbered(n + 1)) = Range(Numbered(n)) \cup {e}
<1>0. MaxEvents \in Nat
  BY DEF Parameters
<1>1. Numbered(n) \in Seq(Event) /\ Len(Numbered(n)) = n
  BY <1>0 DEF Numbered, Event
<1>2. Append(Numbered(n), e) = Numbered(n + 1)
  BY <1>1 DEF Numbered
<1>3. Range(Numbered(n + 1)) = Range(Numbered(n)) \cup {e}
  <2>1. DOMAIN Numbered(n + 1) = 1 .. n + 1 /\ DOMAIN Numbered(n) = 1 .. n
    BY DEF Numbered
  <2>2. \A i \in 1 .. n : Numbered(n + 1)[i] = Numbered(n)[i]
    BY DEF Numbered
  <2>3. Numbered(n + 1)[n + 1] = e
    BY DEF Numbered
  <2>4. 1 .. n + 1 = (1 .. n) \cup {n + 1}
    OBVIOUS
  <2> HIDE DEF Numbered
  <2> QED
    BY <2>1, <2>2, <2>3, <2>4 DEF Range
<1> QED
  BY <1>1, <1>2, <1>3

\* What the first process has emitted is what is in the log or waits for it.
Tracked ==
    /\ log \o Pending(sink) = Numbered(emitted)
    /\ fresh = Range(Numbered(emitted))
    /\ sequence = emitted /\ sink.last <= sequence

Early ==
    phase \in {"starting", "initialized"} => log = <<>> /\ sink.pc = "idle" /\ Len(sink.buffer) = 1

LEMMA PendingAll ==
    ASSUME Parameters, Parts
    PROVE  /\ log \in Seq(Event) /\ sink.batch \in Seq(Event) /\ sink.buffer \in Seq(Event)
           /\ Pending(sink) \in Seq(Event)
           /\ log \o sink.batch \o sink.buffer = log \o Pending(sink)
<1>1. log \in Seq(Event) /\ sink.batch \in Seq(Event) /\ sink.buffer \in Seq(Event)
  <2>1. SeenInv
    BY SeenParts DEF Parts
  <2> QED
    BY <2>1 DEF SeenInv, TypeOK
<1>2. Pending(sink) \in Seq(Event)
  BY <1>1, ConcatProperties DEF Pending
<1>3. (log \o sink.batch) \o sink.buffer = log \o (sink.batch \o sink.buffer)
  <2> DEFINE s == log
             t == sink.batch
             u == sink.buffer
  <2>1. s \in Seq(Event) /\ t \in Seq(Event) /\ u \in Seq(Event)
    BY <1>1
  <2> HIDE DEF s, t, u
  <2>2. s \o (t \o u) = (s \o t) \o u
    BY <2>1, Associate
  <2> QED
    BY <2>2 DEF s, t, u
<1> QED
  BY <1>1, <1>2, <1>3 DEF Pending

FirstLifeParts ==
    /\ lives = 0 => phase = "down" /\ log = <<>> /\ emitted = 0
    /\ (lives = 1 /\ phase = "down") => log = Numbered(Len(log))
    /\ (lives = 1 /\ phase # "down") => Tracked /\ Early

LEMMA FirstLifeIff ==
    Parameters /\ Parts => (FirstLifeInOrder <=> FirstLifeParts)
  BY PendingAll DEF FirstLifeInOrder, FirstLifeParts, Tracked, Early

LEMMA NumberedNext ==
    ASSUME NEW n, emitted' = n
    PROVE  Numbered(emitted)' = Numbered(n) /\ Range(Numbered(emitted))' = Range(Numbered(n))
  BY DEF Numbered, Range

\* An event is emitted and goes behind all others.
LEMMA EmitTracked ==
    ASSUME Parameters, Parts, Tracked, Holds(sink), emitted < MaxEvents,
           NEW e, e = [sequence |-> sequence + 1, id |-> emitted + 1]
    PROVE  /\ log \o Pending(OnEvent(sink, e)) = Numbered(emitted + 1)
           /\ fresh \cup {e} = Range(Numbered(emitted + 1))
           /\ OnEvent(sink, e).last = sequence + 1
           /\ sequence + 1 = emitted + 1
<1>0. MaxEvents \in Nat /\ emitted \in Nat /\ sequence = emitted /\ emitted + 1 <= MaxEvents
  BY DEF Parameters, Parts, Counted, Tracked
<1>1. sink \in SinkOf(emitted + 1, emitted + 1) /\ e \in Upto(emitted + 1) /\ e \in Event
  BY <1>0, SinkGrows DEF Parts, Sunk, Upto, Event
<1>2. e.sequence = emitted + 1 /\ sink.last < e.sequence
  BY <1>0, <1>1 DEF Tracked, SinkOf
<1>3. Pending(OnEvent(sink, e)) = Append(Pending(sink), e) /\ OnEvent(sink, e).last = e.sequence
  BY <1>0, <1>1, <1>2, OnEventFeeds
<1>4. log \o Append(Pending(sink), e) = Append(log \o Pending(sink), e)
  <2>1. log \in Seq(Event) /\ Pending(sink) \in Seq(Event) /\ log \o Pending(sink) \in Seq(Event) /\ <<e>> \in Seq(Event)
    BY <1>1, PendingAll, ConcatProperties
  <2>2. Append(Pending(sink), e) = Pending(sink) \o <<e>> /\ Append(log \o Pending(sink), e) = (log \o Pending(sink)) \o <<e>>
    BY <1>1, <2>1, AppendIsConcat
  <2>3. (log \o Pending(sink)) \o <<e>> = log \o (Pending(sink) \o <<e>>)
    <3>1. \A u \in Seq(Event) : (log \o Pending(sink)) \o u = log \o (Pending(sink) \o u)
      BY <2>1, Associate
    <3> QED
      BY <2>1, <3>1
  <2> QED
    BY <2>2, <2>3
<1>5. Append(Numbered(emitted), e) = Numbered(emitted + 1) /\ Range(Numbered(emitted + 1)) = Range(Numbered(emitted)) \cup {e}
  BY <1>0, NumberedGrows
<1> QED
  BY <1>0, <1>2, <1>3, <1>4, <1>5 DEF Tracked

LEMMA StartTracked ==
    ASSUME Parameters, Parts, FirstLifeParts, Batch > 1, Start
    PROVE  FirstLifeParts' /\ Holds(sink)'
<1> DEFINE e == [sequence |-> sequence + 1, id |-> emitted + 1]
<1>0. Batch \in Nat /\ MaxEvents \in Nat /\ lives \in Nat
  BY DEF Parameters, Parts, Counted
<1>1. sequence = 0 /\ phase = "down" /\ sink' = OnEvent(FreshSink, e) /\ emitted < MaxEvents
  BY DEF Start, EmitTo, Parts, DownIsEmpty
<1>2. sink' = [FreshSink EXCEPT !.buffer = <<e>>, !.last = 1, !.timer = TRUE]
  <2>1. FreshSink.buffer = <<>> /\ FreshSink.last = 0 /\ Append(<<>>, e) = <<e>> /\ Len(<<e>>) = 1
    BY DEF FreshSink
  <2> QED
    BY <1>0, <1>1, <2>1 DEF OnEvent, FreshSink
<1>3. sink'.buffer = <<e>> /\ sink'.batch = <<>> /\ sink'.pc = "idle" /\ sink'.last = 1
  BY <1>2 DEF FreshSink
<1>4. Holds(sink)'
  BY <1>3 DEF Holds
<1>5. lives' = lives + 1 /\ phase' = "starting" /\ log' = log /\ emitted' = emitted + 1 /\ sequence' = 1
  BY <1>1 DEF Start, EmitTo
<1>6. CASE lives = 0
  <2>1. log = <<>> /\ emitted = 0 /\ fresh = {}
    BY <1>1, <1>6 DEF FirstLifeParts, Parts, DownIsEmpty
  <2>2. e = [sequence |-> 1, id |-> 1] /\ fresh' = {e}
    BY <1>1, <2>1 DEF Start, EmitTo
  <2>3. Numbered(1) = <<e>>
    BY <2>2 DEF Numbered
  <2>4. Range(Numbered(1)) = {e}
    BY <2>3 DEF Range
  <2>5. <<>> \o (<<>> \o <<e>>) = <<e>>
    OBVIOUS
  <2> HIDE DEF e
  <2>6. Tracked'
    BY <1>3, <1>5, <2>1, <2>2, <2>3, <2>4, <2>5 DEF Tracked, Pending, Numbered
  <2>7. Early'
    BY <1>3, <1>5, <2>1 DEF Early
  <2> QED
    BY <1>4, <1>5, <1>6, <2>6, <2>7 DEF FirstLifeParts
<1>7. CASE lives # 0
  BY <1>0, <1>4, <1>5, <1>7 DEF FirstLifeParts
<1> QED
  BY <1>6, <1>7

Ready == Parts /\ Holds(sink) /\ FirstLifeParts

\* A step of the first process that goes on and leaves the log with what waits as it is.
LEMMA GoesOn ==
    ASSUME Ready, Tracked => Tracked', (lives = 1 /\ Early) => Early', lives' = lives,
           phase # "down", phase' # "down"
    PROVE  FirstLifeParts'
  BY DEF Ready, FirstLifeParts

LEMMA SameTracked ==
    ASSUME Pending(sink)' = Pending(sink), sink'.last = sink.last, UNCHANGED <<log, emitted, sequence, fresh>>
    PROVE  Tracked => Tracked'
  BY DEF Tracked, Numbered

LEMMA NotDown ==
    ASSUME Ready, sink.pc # "idle" \/ sink.timer \/ saving.pc # "none"
    PROVE  phase # "down"
  BY DEF Ready, Parts, DownIsEmpty, FreshSink, NotSaving

LEMMA SinkFields ==
    ASSUME Ready
    PROVE  /\ sink \in SinkOf(sequence, emitted) /\ sequence \in Nat /\ emitted \in Nat /\ lives \in Nat
           /\ sink.batch \in Seq(Upto(sequence)) /\ sink.buffer \in Seq(Upto(sequence))
  BY DEF Ready, Parts, Sunk, SinkOf, Counted

LEMMA InitSinkFirst == ASSUME Parameters, Ready, InitSink PROVE FirstLifeParts' /\ Holds(sink)'
<1>1. sink' = [sink EXCEPT !.last = cursor] /\ sink \in SinkOf(sequence, emitted)
  BY SinkFields DEF InitSink
<1>2. sink'.batch = sink.batch /\ sink'.buffer = sink.buffer /\ sink'.pc = sink.pc /\ sink'.last = cursor
  BY <1>1 DEF SinkOf
<1>3. cursor <= emitted
  BY DEF Ready, Parts, Counted
<1>4. Tracked => Tracked'
  BY <1>2, <1>3 DEF InitSink, Tracked, Pending, Numbered
<1>5. Early => Early'
  BY <1>2 DEF InitSink, Early
<1>6. Holds(sink)'
  BY <1>2 DEF Ready, Holds
<1> QED
  BY <1>4, <1>5, <1>6, GoesOn DEF InitSink

LEMMA FlushFirst ==
    ASSUME Ready, NEW k, k = [sink EXCEPT !.timer = FALSE]
    PROVE  /\ Holds(BeginFlush(k)) /\ Pending(BeginFlush(k)) = Pending(sink)
           /\ BeginFlush(k).last = sink.last
<1>1. k \in SinkOf(sequence, emitted) /\ Holds(k) /\ Pending(k) = Pending(sink) /\ k.last = sink.last
  BY SinkFields DEF Ready, SinkOf, Holds, Pending
<1> QED
  BY <1>1, SinkFields, BeginFlushHolds

LEMMA DisposeFirst == ASSUME Parameters, Ready, Dispose PROVE FirstLifeParts' /\ Holds(sink)'
<1>1. PICK k : k = [sink EXCEPT !.timer = FALSE]
  OBVIOUS
<1>2. sink' = BeginFlush(k)
  BY <1>1 DEF Dispose
<1>3. Holds(sink)' /\ Pending(sink)' = Pending(sink) /\ sink'.last = sink.last
  BY <1>1, <1>2, FlushFirst DEF Holds, Pending
<1>4. Tracked => Tracked'
  BY <1>3, SameTracked DEF Dispose
<1>5. Early'
  BY DEF Dispose, Early
<1> QED
  BY <1>3, <1>4, <1>5, GoesOn DEF Dispose

LEMMA TimerFirst ==
    ASSUME Parameters, ~SlowStart, Ready, FireTimer
    PROVE FirstLifeParts' /\ Holds(sink)'
<1>1. PICK k : k = [sink EXCEPT !.timer = FALSE]
  OBVIOUS
<1>2. sink' = BeginFlush(k)
  BY <1>1 DEF FireTimer
<1>3. Holds(sink)' /\ Pending(sink)' = Pending(sink) /\ sink'.last = sink.last
  BY <1>1, <1>2, FlushFirst DEF Holds, Pending
<1>4. Tracked => Tracked'
  BY <1>3, SameTracked DEF FireTimer
<1>5. Early'
  BY DEF FireTimer, Early
<1> QED
  BY <1>3, <1>4, <1>5, NotDown, GoesOn DEF FireTimer

LEMMA SavingFirst ==
    ASSUME Parameters, Ready, ShutdownLoad \/ ShutdownSave
    PROVE FirstLifeParts' /\ Holds(sink)'
<1>1. UNCHANGED <<phase, sink, log, emitted, sequence, fresh, lives>>
  BY DEF ShutdownLoad, ShutdownSave
<1>2. phase # "down"
  BY NotDown DEF ShutdownLoad, ShutdownSave
<1>3. Tracked => Tracked'
  BY <1>1, SameTracked DEF Pending
<1>4. Early => Early'
  BY <1>1 DEF Early
<1>5. Holds(sink)'
  BY <1>1 DEF Ready, Holds
<1> QED
  BY <1>1, <1>2, <1>3, <1>4, <1>5, GoesOn

\* The first process has nothing under way while it reads the cursor.
LEMMA BusyIsLate ==
    ASSUME Ready, sink.pc # "idle", lives = 1
    PROVE phase \notin {"starting", "initialized"}
  BY NotDown DEF Ready, FirstLifeParts, Early

LEMMA CursorFirst ==
    ASSUME Parameters, Ready, LoadCursors \/ SaveCursors \/ SaveFails
    PROVE  FirstLifeParts' /\ Holds(sink)'
<1>1. sink.pc \in {"load", "save"} /\ UNCHANGED <<phase, log, emitted, sequence, fresh, lives>>
  BY DEF LoadCursors, SaveCursors, SaveFails
<1>2. sink'.batch = sink.batch /\ sink'.buffer = sink.buffer /\ sink'.last = sink.last /\ sink'.pc \in {"save", "idle"}
  BY SinkFields DEF LoadCursors, SaveCursors, SaveFails, SinkOf
<1>3. Holds(sink)'
  BY <1>1, <1>2 DEF Ready, Holds
<1>4. Tracked => Tracked'
  BY <1>1, <1>2, SameTracked DEF Pending
<1>5. lives = 1 => Early'
  BY <1>1, BusyIsLate DEF Early
<1> QED
  BY <1>1, <1>3, <1>4, <1>5, NotDown, GoesOn

LEMMA AppendFirst == ASSUME Parameters, Ready, AppendBatch PROVE FirstLifeParts' /\ Holds(sink)'
<1>1. UNCHANGED <<phase, emitted, sequence, fresh, lives>> /\ log' = log \o sink.batch /\ sink.pc = "append"
  BY DEF AppendBatch
<1>2. sink'.batch = <<>> /\ sink'.buffer = sink.buffer /\ sink'.last = sink.last /\ sink'.pc = "load"
  BY SinkFields DEF AppendBatch, SinkOf
<1>3. Holds(sink)'
  BY <1>2 DEF Holds
<1>4. Tracked => Tracked'
  <2>1. log \o sink.batch \o sink.buffer = log \o Pending(sink) /\ sink.buffer \in Seq(Event)
    BY PendingAll DEF Ready
  <2>2. <<>> \o sink.buffer = sink.buffer
    BY <2>1
  <2>3. log' \o Pending(sink)' = log \o Pending(sink)
    BY <1>1, <1>2, <2>1, <2>2 DEF Pending
  <2> QED
    BY <1>1, <1>2, <2>3 DEF Tracked, Numbered
<1>5. lives = 1 => Early'
  BY <1>1, BusyIsLate DEF Early
<1> QED
  BY <1>1, <1>3, <1>4, <1>5, NotDown, GoesOn

LEMMA EmitHolds ==
    ASSUME Parameters, Ready, emitted < MaxEvents, NEW e, e = [sequence |-> sequence + 1, id |-> emitted + 1]
    PROVE  /\ Holds(OnEvent(sink, e))
           /\ OnEvent(sink, e) \in SinkOf(sequence + 1, emitted + 1)
           /\ sink.pc = "append" => OnEvent(sink, e).pc = "append"
<1>1. sink \in SinkOf(sequence + 1, emitted + 1) /\ e \in Upto(sequence + 1) /\ sequence <= emitted
  BY SinkFields, SinkGrows DEF Ready, Parts, Counted, Upto, Parameters
<1>2. Holds(OnEvent(sink, e)) /\ OnEvent(sink, e) \in SinkOf(sequence + 1, emitted + 1)
  BY <1>1, SinkFields, OnEventHolds, OnEventStays DEF Ready
<1>3. sink.pc = "append" => OnEvent(sink, e).pc = "append"
  BY <1>1 DEF OnEvent, BeginFlush, SinkOf
<1> QED
  BY <1>2, <1>3

LEMMA EmitFirst == ASSUME Parameters, Ready, Emit \/ Stop PROVE FirstLifeParts' /\ Holds(sink)'
<1>1. PICK e : e = [sequence |-> sequence + 1, id |-> emitted + 1]
  OBVIOUS
<1>2. /\ phase # "down" /\ phase' \notin {"down", "starting", "initialized"}
      /\ emitted < MaxEvents /\ sequence' = sequence + 1 /\ emitted' = emitted + 1
      /\ fresh' = fresh \cup {e} /\ sink' = OnEvent(sink, e) /\ log' = log /\ lives' = lives
  BY <1>1 DEF Emit, Stop, EmitTo
<1>3. Holds(sink)'
  BY <1>1, <1>2, EmitHolds DEF Holds
<1>4. Tracked => Tracked'
  <2> SUFFICES ASSUME Tracked PROVE Tracked'
    OBVIOUS
  <2>1. /\ log \o Pending(OnEvent(sink, e)) = Numbered(emitted + 1)
        /\ fresh \cup {e} = Range(Numbered(emitted + 1))
        /\ OnEvent(sink, e).last = sequence + 1 /\ sequence + 1 = emitted + 1
    BY <1>1, <1>2, EmitTracked DEF Ready
  <2>2. Pending(sink)' = Pending(OnEvent(sink, e)) /\ sink'.last = OnEvent(sink, e).last
    BY <1>2 DEF Pending
  <2> QED
    BY <1>2, <2>1, <2>2, SinkFields, NumberedNext DEF Tracked
<1>5. Early'
  BY <1>2 DEF Early
<1> QED
  BY <1>2, <1>3, <1>4, <1>5, GoesOn

LEMMA PutBackHolds ==
    ASSUME NEW n \in Nat, NEW m \in Nat, NEW k \in SinkOf(n, m)
    PROVE  Holds(PutBack(k)) /\ Pending(PutBack(k)) = Pending(k) /\ PutBack(k).last = k.last
<1>1. PutBack(k).batch = <<>> /\ PutBack(k).buffer = k.batch \o k.buffer /\ PutBack(k).last = k.last
  BY DEF PutBack, SinkOf
<1>2. k.batch \o k.buffer \in Seq(Upto(n))
  BY ConcatProperties DEF SinkOf
<1>3. <<>> \o (k.batch \o k.buffer) = k.batch \o k.buffer
  BY <1>2, ConcatEmptySeq
<1> QED
  BY <1>1, <1>3 DEF Holds, Pending

LEMMA FailFirst == ASSUME Parameters, Ready, AppendFails PROVE FirstLifeParts' /\ Holds(sink)'
<1>1. PICK e : e = [sequence |-> sequence + 1, id |-> emitted + 1]
  OBVIOUS
<1>2. /\ sink.pc = "append" /\ phase' = phase
      /\ emitted < MaxEvents /\ sequence' = sequence + 1 /\ emitted' = emitted + 1
      /\ fresh' = fresh \cup {e} /\ sink' = PutBack(OnEvent(sink, e)) /\ log' = log /\ lives' = lives
  BY <1>1 DEF AppendFails
<1>3. OnEvent(sink, e) \in SinkOf(sequence + 1, emitted + 1) /\ sequence + 1 \in Nat /\ emitted + 1 \in Nat
  BY <1>1, <1>2, EmitHolds, SinkFields
<1>4. /\ Holds(PutBack(OnEvent(sink, e))) /\ Pending(PutBack(OnEvent(sink, e))) = Pending(OnEvent(sink, e))
      /\ PutBack(OnEvent(sink, e)).last = OnEvent(sink, e).last
  BY <1>3, PutBackHolds
<1>5. Holds(sink)'
  BY <1>2, <1>4 DEF Holds
<1>6. Tracked => Tracked'
  <2> SUFFICES ASSUME Tracked PROVE Tracked'
    OBVIOUS
  <2>1. /\ log \o Pending(OnEvent(sink, e)) = Numbered(emitted + 1)
        /\ fresh \cup {e} = Range(Numbered(emitted + 1))
        /\ OnEvent(sink, e).last = sequence + 1 /\ sequence + 1 = emitted + 1
    BY <1>1, <1>2, EmitTracked DEF Ready
  <2>2. Pending(sink)' = Pending(OnEvent(sink, e)) /\ sink'.last = OnEvent(sink, e).last
    BY <1>2, <1>4 DEF Pending
  <2> QED
    BY <1>2, <2>1, <2>2, SinkFields, NumberedNext DEF Tracked
<1>7. lives = 1 => Early'
  BY <1>2, BusyIsLate DEF Early
<1> QED
  BY <1>2, <1>5, <1>6, <1>7, NotDown, GoesOn

\* What the first process replays is nothing; what others replay goes the same way
\* as what they emit.
LEMMA ReplayFirst ==
    ASSUME Parameters, Ready, NEW from \in 1 .. Len(log) + 1, Replay(from)
    PROVE  FirstLifeParts' /\ Holds(sink)'
<1> DEFINE events == SubSeq(log, from, Len(log))
<1>1. log \in Seq(Upto(emitted)) /\ events \in Seq(Upto(emitted))
  BY DEF Ready, Parts, Logged
<1>2. sequence' = Import(events) /\ sink' = FoldLeft(OnEvent, sink, events)
  BY DEF Replay
<1>3. log = <<>> => events = <<>>
  <2> SUFFICES ASSUME log = <<>> PROVE events = <<>>
    OBVIOUS
  <2>1. from = 1 /\ Len(log) = 0
    OBVIOUS
  <2> QED
    BY <2>1, SubSeqEmpty
<1> HIDE DEF events
<1>4. /\ Import(events) \in Nat /\ sequence <= Import(events) /\ Import(events) <= emitted
      /\ events \in Seq(Upto(Import(events)))
  BY <1>1, ImportFacts DEF Ready
<1>5. Holds(sink)'
  <2>1. PICK n \in Nat : n = Import(events)
    BY <1>4
  <2> DEFINE K == {k \in SinkOf(n, emitted) : Holds(k)}
  <2>2. sink \in K
    BY <1>4, <2>1, SinkFields, SinkGrows DEF Ready
  <2>3. \A k \in K, e \in Upto(n) : OnEvent(k, e) \in K
    BY <1>4, <2>1, SinkFields, OnEventStays, OnEventHolds
  <2>4. \A k \in K : Holds(k)
    OBVIOUS
  <2> HIDE DEF K
  <2>5. FoldLeft(OnEvent, sink, events) \in K
    BY <1>4, <2>1, <2>2, <2>3, FoldStays
  <2> QED
    BY <1>2, <2>4, <2>5 DEF Holds
<1>6. UNCHANGED <<log, emitted, fresh, lives>> /\ phase = "initialized" /\ phase' = "live"
  BY DEF Replay
<1>7. CASE lives = 1
  <2>1. Tracked /\ events = <<>>
    BY <1>3, <1>6, <1>7 DEF Ready, FirstLifeParts, Early
  <2>2. sink' = sink
    BY <1>2, <2>1, FoldOfNothing
  <2>3. sequence' = sequence
    BY <1>2, <1>4, <2>1, SinkFields DEF Tracked
  <2>4. Tracked'
    BY <1>6, <2>1, <2>2, <2>3, SameTracked DEF Pending
  <2>5. Early'
    BY <1>6 DEF Early
  <2> QED
    BY <1>5, <1>6, <1>7, <2>4, <2>5 DEF FirstLifeParts
<1>8. CASE lives # 1
  BY <1>5, <1>6, <1>8 DEF Ready, FirstLifeParts
<1> QED
  BY <1>7, <1>8

LEMMA EndFirst == ASSUME Parameters, Ready, End PROVE FirstLifeParts' /\ Holds(sink)'
<1>1. phase # "down" /\ phase' = "down" /\ UNCHANGED <<log, emitted, lives>> /\ sink' = FreshSink
  BY DEF End
<1>2. Holds(sink)'
  BY <1>1 DEF Holds, FreshSink
<1>3. lives = 1 => log = Numbered(Len(log))
  <2> SUFFICES ASSUME lives = 1 PROVE log = Numbered(Len(log))
    OBVIOUS
  <2>1. log \o Pending(sink) = Numbered(emitted) /\ emitted \in Nat
    BY <1>1, SinkFields DEF Ready, FirstLifeParts, Tracked
  <2>2. log \in Seq(Event) /\ Pending(sink) \in Seq(Event)
    BY PendingAll DEF Ready
  <2>3. Len(log) + Len(Pending(sink)) = emitted /\ Len(log) \in Nat /\ Len(Pending(sink)) \in Nat
    BY <2>1, <2>2, ConcatProperties DEF Numbered
  <2>4. ASSUME NEW i \in 1 .. Len(log) PROVE log[i] = [sequence |-> i, id |-> i]
    <3>1. (log \o Pending(sink))[i] = log[i]
      BY <2>2, ConcatProperties
    <3>2. i \in 1 .. emitted
      BY <2>3
    <3>3. Numbered(emitted)[i] = [sequence |-> i, id |-> i]
      BY <3>2 DEF Numbered
    <3> QED
      BY <2>1, <3>1, <3>3
  <2>5. log = [i \in 1 .. Len(log) |-> log[i]]
    BY <2>2
  <2> QED
    BY <2>4, <2>5 DEF Numbered
<1>4. lives # 0
  BY <1>1 DEF Ready, FirstLifeParts
<1>5. lives' = 1 => log' = Numbered(Len(log))'
  BY <1>1, <1>3 DEF Numbered
<1> QED
  BY <1>1, <1>2, <1>4, <1>5 DEF FirstLifeParts

LEMMA StillFirst == ASSUME Ready, UNCHANGED vars PROVE FirstLifeParts' /\ Holds(sink)'
<1>1. Tracked => Tracked'
  BY SameTracked DEF vars, Pending
<1>2. Early => Early'
  BY DEF vars, Early
<1>3. Holds(sink)' /\ (log' = Numbered(Len(log))' <=> log = Numbered(Len(log)))
  BY DEF Ready, vars, Holds, Numbered
<1> QED
  BY <1>1, <1>2, <1>3 DEF Ready, vars, FirstLifeParts

LEMMA StepFirst ==
    ASSUME Parameters, Batch > 1, ~SlowStart, Ready, [Next]_vars
    PROVE  FirstLifeParts' /\ Holds(sink)'
<1>1. CASE File
  BY <1>1, AppendFirst, CursorFirst DEF File
<1>2. CASE Start
  BY <1>2, StartTracked DEF Ready
<1> QED
  BY <1>1, <1>2, InitSinkFirst, EmitFirst, DisposeFirst, SavingFirst, EndFirst, ReplayFirst,
     TimerFirst, FailFirst, CursorFirst, StillFirst DEF Next

LEMMA ReadyIsInv == Parameters => (IInv <=> Ready)
  BY SeenParts, FirstLifeIff DEF IInv, Ready, Parts, Holds, OnlyAppendsHoldABatch

LEMMA InvKept ==
    Parameters /\ Batch > 1 /\ ~SlowStart /\ IInv /\ [Next]_vars => IInv'
<1>1. Parameters => Parameters'
  BY DEF Parameters
<1>2. Parameters => (IInv' <=> Ready')
  BY <1>1, ReadyIsInv, PTL
<1>3. ASSUME Parameters, Batch > 1, ~SlowStart, Ready, [Next]_vars PROVE Ready'
  <2>1. Parts'
    BY <1>3, StepSeen DEF Ready
  <2>2. FirstLifeParts' /\ Holds(sink)'
    BY <1>3, StepFirst
  <2> QED
    BY <2>1, <2>2 DEF Ready
<1> QED
  BY <1>2, <1>3, ReadyIsInv

LEMMA InitInv == Parameters /\ Init => IInv
<1> SUFFICES ASSUME Parameters, Init PROVE IInv
  OBVIOUS
<1>1. SeenInv
  BY InitSeen
<1>2. OnlyAppendsHoldABatch /\ FirstLifeInOrder
  BY DEF Init, FreshSink, OnlyAppendsHoldABatch, FirstLifeInOrder
<1> QED
  BY <1>1, <1>2 DEF IInv

\* In the first life the log with all that waits is a run of numbered events.
LEMMA AllNumbered ==
    ASSUME Parameters, Ready, FirstLife
    PROVE  \E n \in Nat : log \o sink.batch \o sink.buffer = Numbered(n)
<1>1. log \o sink.batch \o sink.buffer = log \o Pending(sink) /\ log \in Seq(Event) /\ lives \in Nat
  BY PendingAll, SinkFields DEF Ready
<1>2. CASE phase = "down"
  <2>1. Pending(sink) = <<>>
    BY <1>2 DEF Ready, Parts, DownIsEmpty, FreshSink, Pending
  <2>2. log \o Pending(sink) = log
    BY <1>1, <2>1, ConcatEmptySeq
  <2>3. log = Numbered(Len(log))
    <3>1. CASE lives = 0
      <4>1. log = <<>> /\ Len(log) = 0
        BY <3>1 DEF Ready, FirstLifeParts
      <4> QED
        BY <4>1 DEF Numbered
    <3>2. CASE lives = 1
      BY <1>2, <3>2 DEF Ready, FirstLifeParts
    <3> QED
      BY <1>1, <3>1, <3>2 DEF FirstLife
  <2>4. Len(log) \in Nat
    BY <1>1
  <2> QED
    BY <1>1, <2>2, <2>3, <2>4
<1>3. CASE phase # "down"
  <2>1. lives = 1
    BY <1>1, <1>3 DEF Ready, FirstLifeParts, FirstLife
  <2> QED
    BY <1>1, <1>3, <2>1, SinkFields DEF Ready, FirstLifeParts, Tracked
<1> QED
  BY <1>2, <1>3

\* The log of the first process holds its events in the order in which they were emitted,
\* whatever appends fail and wherever the process ends (flush puts a failed batch back
\* before the buffer).  Two or more events to a batch, and no flush before the replay.
THEOREM FirstLogIsOrdered == Batch > 1 /\ ~SlowStart => (Spec => []OrderedInOneLife)
<1> SUFFICES ASSUME Parameters, Batch > 1, ~SlowStart PROVE Spec => []OrderedInOneLife
  BY EventLogAssumption
<1>1. Init => IInv
  BY InitInv
<1>2. IInv /\ [Next]_vars => IInv'
  BY InvKept
<1>3. IInv => OrderedInOneLife
  <2> SUFFICES ASSUME IInv, FirstLife PROVE LogOrdered
    BY DEF OrderedInOneLife
  <2>1. Ready
    BY ReadyIsInv
  <2>2. PICK n \in Nat : log \o sink.batch \o sink.buffer = Numbered(n)
    BY <2>1, AllNumbered
  <2>3. Len(Numbered(n)) = n /\ \A i \in 1 .. n : Numbered(n)[i].id = i
    BY DEF Numbered
  <2> HIDE DEF Numbered
  <2> QED
    BY <2>2, <2>3 DEF LogOrdered
<1> QED
  BY <1>1, <1>2, <1>3, PTL DEF Spec

\* The first process skips no event: each is in the log, in the batch that is being written
\* or in the buffer, until the process is gone (onEvent, flush).
THEOREM FirstLogIsComplete == Batch > 1 /\ ~SlowStart => (Spec => []CompleteInOneLife)
<1> SUFFICES ASSUME Parameters, Batch > 1, ~SlowStart PROVE Spec => []CompleteInOneLife
  BY EventLogAssumption
<1>1. Init => IInv
  BY InitInv
<1>2. IInv /\ [Next]_vars => IInv'
  BY InvKept
<1>3. IInv => CompleteInOneLife
  <2> SUFFICES ASSUME IInv, FirstLife PROVE NoneSkipped
    BY DEF CompleteInOneLife
  <2>1. Ready
    BY ReadyIsInv
  <2>2. CASE phase = "down"
    BY <2>1, <2>2 DEF Ready, Parts, DownIsEmpty, NoneSkipped
  <2>3. CASE phase # "down"
    <3>1. lives = 1
      BY <2>1, <2>3, SinkFields DEF Ready, FirstLifeParts, FirstLife
    <3>2. fresh = Range(log \o Pending(sink))
      BY <2>1, <2>3, <3>1 DEF Ready, FirstLifeParts, Tracked
    <3>3. log \in Seq(Event) /\ sink.batch \in Seq(Event) /\ sink.buffer \in Seq(Event) /\ Pending(sink) \in Seq(Event)
      BY <2>1, PendingAll DEF Ready
    <3>4. Range(log \o Pending(sink)) = Range(log) \cup Range(Pending(sink))
      BY <3>3, RangeConcatenation
    <3>5. Range(Pending(sink)) = Range(sink.batch) \cup Range(sink.buffer)
      BY <3>3, RangeConcatenation DEF Pending
    <3> QED
      BY <3>2, <3>4, <3>5 DEF NoneSkipped, InMemory
  <2> QED
    BY <2>2, <2>3
<1> QED
  BY <1>1, <1>2, <1>3, PTL DEF Spec

-----------------------------------------------------------------------------
(* The cluster. *)

\* A view as a function.
View == [Node -> Entry \cup {Unknown}]

LEMMA EntryFacts ==
    ASSUME ClusterParameters
    PROVE  /\ Unknown \notin Entry
           /\ FreshEntry \in Entry
           /\ MaxAge \in Nat /\ MaxAge > 1
           /\ \A e \in Entry : /\ e.status \in {"alive", "suspect", "dead", "draining"}
                               /\ e.age \in 0 .. MaxAge
           /\ \A e \in Entry, s \in {"alive", "suspect", "dead", "draining"} :
                 [e EXCEPT !.status = s] \in Entry
<1>1. MaxAge \in Nat /\ MaxAge > 1
  BY DEF ClusterParameters, MaxAge
<1>2. ASSUME NEW e \in Entry
      PROVE e \in [status : {"alive", "suspect", "dead", "draining"}, age : Nat]
  BY <1>1 DEF Entry
<1>3. Unknown \notin Entry
  BY <1>2 DEF ClusterParameters
<1>4. FreshEntry \in Entry
  BY <1>1 DEF FreshEntry, Entry
<1> QED
  BY <1>1, <1>3, <1>4 DEF Entry

LEMMA TimerFacts ==
    ASSUME ClusterParameters
    PROVE  /\ Timer = {"ping", "sweep", "sync"}
           /\ Period["ping"] = 1 /\ Period["sweep"] = 1 /\ Period["sync"] = SyncEvery
           /\ \A t \in Timer : Period[t] \in Nat \ {0}
           /\ Period = [t \in Timer |-> Period[t]]
<1>1. Timer = {"ping", "sweep", "sync"}
  BY DEF Timer, Period
<1>2. Period["ping"] = 1 /\ Period["sweep"] = 1 /\ Period["sync"] = SyncEvery
  BY DEF Period
<1>3. Period = [t \in Timer |-> Period[t]]
  BY <1>1 DEF Period
<1> QED
  BY <1>1, <1>2, <1>3 DEF ClusterParameters

-----------------------------------------------------------------------------
(* What a message makes of a view. *)

LEMMA JoinedFacts ==
    ASSUME ClusterParameters, NEW view \in View, NEW p \in Node
    PROVE  /\ Joined(view, p) \in View
           /\ Joined(view, p)[p] = FreshEntry
           /\ \A q \in Node \ {p} : Joined(view, p)[q] = view[q]
  BY EntryFacts DEF Joined, View

LEMMA LeftFacts ==
    ASSUME ClusterParameters, NEW view \in View, NEW p \in Node
    PROVE  /\ Left(view, p) \in View
           /\ Left(view, p)[p] = Unknown
           /\ \A q \in Node \ {p} : Left(view, p)[q] = view[q]
  BY EntryFacts DEF Left, View

LEMMA HeartbeatFacts ==
    ASSUME ClusterParameters, NEW view \in View, NEW p \in Node
    PROVE  /\ Heartbeat(view, p) \in View
           /\ view[p] = Unknown => Heartbeat(view, p)[p] = Unknown
           /\ view[p] # Unknown => Heartbeat(view, p)[p] \in Entry
           /\ view[p] # Unknown => Heartbeat(view, p)[p].age = 0
           /\ (view[p] # Unknown /\ view[p].status = "alive") => Heartbeat(view, p)[p].status = "alive"
           /\ \A q \in Node \ {p} : Heartbeat(view, p)[q] = view[q]
<1>1. CASE view[p] = Unknown
  BY <1>1 DEF Heartbeat
<1>2. CASE view[p] # Unknown
  <2>1. view[p] \in Entry
    BY <1>2 DEF View
  <2> DEFINE now == [status |-> IF view[p].status = "suspect" THEN "alive" ELSE view[p].status, age |-> 0]
  <2>2. now \in Entry
    BY <2>1, EntryFacts DEF Entry
  <2>3. Heartbeat(view, p) = [view EXCEPT ![p] = now]
    BY <1>2 DEF Heartbeat
  <2> QED
    BY <1>2, <2>2, <2>3 DEF View
<1> QED
  BY <1>1, <1>2

\* A heartbeat makes nobody known or unknown.
LEMMA HeartbeatSame ==
    ASSUME ClusterParameters, NEW view \in View, NEW p \in Node, NEW q \in Node
    PROVE  Heartbeat(view, p)[q] = Unknown <=> view[q] = Unknown
<1>1. CASE q = p
  <2>1. view[p] = Unknown => Heartbeat(view, p)[p] = Unknown
    BY HeartbeatFacts
  <2>2. view[p] # Unknown => Heartbeat(view, p)[p] \in Entry
    BY HeartbeatFacts
  <2> QED
    BY <1>1, <2>1, <2>2, EntryFacts
<1>2. CASE q # p
  BY <1>2, HeartbeatFacts
<1> QED
  BY <1>1, <1>2

LEMMA SyncedIsView ==
    ASSUME ClusterParameters, ClusterTypeOK, NEW m \in Node, NEW n \in Node, m # n
    PROVE  Synced(m, n) \in View /\ Synced(m, n)[m] = peers[m][m]
<1>1. \A q \in Node : peers[m][q] \in Entry \cup {Unknown} /\ peers[n][q] \in Entry \cup {Unknown}
  BY DEF ClusterTypeOK
<1>2. Synced(m, n)[m] = peers[m][m]
  BY DEF Synced
<1>3. ASSUME NEW q \in Node PROVE Synced(m, n)[q] \in Entry \cup {Unknown}
  <2>1. CASE q = m \/ q \notin Known(n) \cup {n}
    BY <1>1, <2>1 DEF Synced
  <2>2. CASE q = n
    <3>1. status[n] \in {"alive", "draining"}
      BY DEF ClusterTypeOK
    <3>2. [status |-> IF SyncByJoin THEN "alive" ELSE status[n], age |-> 0] \in Entry
      BY <3>1, EntryFacts DEF Entry
    <3> QED
      BY <2>2, <3>2 DEF Synced
  <2>3. CASE q # m /\ q # n /\ q \in Known(n)
    <3>1. Merged(peers[m][q], peers[n][q]) \in Entry \cup {Unknown}
      BY <1>1 DEF Merged
    <3>2. Synced(m, n)[q] = IF SyncByJoin THEN FreshEntry ELSE Merged(peers[m][q], peers[n][q])
      BY <2>3 DEF Synced
    <3> QED
      BY <3>1, <3>2, EntryFacts
  <2> QED
    BY <2>1, <2>2, <2>3
<1>4. Synced(m, n) = [q \in Node |-> Synced(m, n)[q]]
  BY DEF Synced
<1>5. [q \in Node |-> Synced(m, n)[q]] \in View
  BY <1>3 DEF View
<1> QED
  BY <1>2, <1>4, <1>5

\* As the bridge takes a broadcast in, every node named in it is heard of anew.
LEMMA SyncedByJoin ==
    ASSUME SyncByJoin, NEW m \in Node, NEW n \in Node, m # n
    PROVE  \A q \in Node \ {m} : Synced(m, n)[q] = IF q = n \/ q \in Known(n) THEN FreshEntry ELSE peers[m][q]
  BY DEF Synced, FreshEntry

LEMMA SweptFacts ==
    ASSUME ClusterParameters, NEW e \in Entry \cup {Unknown}
    PROVE  /\ Swept(e) \in Entry \cup {Unknown}
           /\ e = Unknown => Swept(e) = Unknown
           /\ (e # Unknown /\ e.status = "alive" /\ e.age <= SuspectAfter) => Swept(e) = e
<1>1. CASE e = Unknown
  BY <1>1 DEF Swept
<1>2. CASE e \in Entry /\ e # Unknown
  <2>1. e.status \in {"alive", "suspect", "dead", "draining"} /\ e.age \in Nat
    BY <1>2, EntryFacts
  <2>2. Swept(e) \in Entry \cup {Unknown}
    BY <1>2, EntryFacts DEF Swept
  <2>3. SuspectAfter \in Nat
    BY DEF ClusterParameters
  <2>4. (e.status = "alive" /\ e.age <= SuspectAfter) => Swept(e) = e
    BY <1>2, <2>1, <2>3 DEF Swept
  <2> QED
    BY <1>2, <2>2, <2>4
<1> QED
  BY <1>1, <1>2

\* A network that loses nothing reaches all that run.
LEMMA ReachedFacts ==
    ASSUME NEW to, NEW reached \in Reached(to)
    PROVE  /\ reached \subseteq to
           /\ \A p \in reached : RunningNode(p)
           /\ ~Lossy => reached = {p \in to : RunningNode(p)}
  BY DEF Reached

-----------------------------------------------------------------------------
(* Types. *)

Views == /\ peers \in [Node -> View]
         /\ \A n \in Node : peers[n][n] = Unknown

Timers0 == \A n \in Node, t \in Timer : wait[n][t] \in 0 .. Period[t]

LEMMA InitHolds == ClusterParameters /\ ClusterInit => ClusterInv
<1> SUFFICES ASSUME ClusterParameters, ClusterInit PROVE ClusterInv
  OBVIOUS
<1>1. \A n, p \in Node : peers[n][p] = Unknown
  BY DEF ClusterInit, Nobody
<1>2. \A n \in Node : peers[n] = [p \in Node |-> Unknown]
  BY DEF ClusterInit, Nobody
<1>3. \A n \in Node : peers[n] \in [Node -> Entry \cup {Unknown}]
  BY <1>2
<1>4. peers \in [Node -> [Node -> Entry \cup {Unknown}]]
  BY <1>3 DEF ClusterInit, Nobody
<1>5. \A n \in Node, t \in Timer : wait[n][t] \in 0 .. Period[t]
  BY TimerFacts DEF ClusterInit
<1>6. 0 \in 0 .. Boots
  BY DEF ClusterParameters
<1>7. ClusterTypeOK
  BY <1>1, <1>4, <1>5, <1>6 DEF ClusterTypeOK, ClusterInit
<1>8. \A n \in Node : Known(n) = {} /\ toTell[n] = {} /\ nodePhase[n] = "down"
  BY <1>1 DEF Known, ClusterInit
<1> QED
  BY <1>7, <1>8 DEF ClusterInv, TellersLeave, UnknownUntilUp, RunnersHeard

\* Views are of the right type if each node's is.
LEMMA ViewsAre ==
    ASSUME peers' = [m \in Node |-> peers'[m]],
           \A m \in Node : peers'[m] \in View /\ peers'[m][m] = Unknown
    PROVE  Views'
<1>1. peers' \in [Node -> View]
  BY Zenon
<1>2. View' = View
  BY DEF View, Entry, MaxAge
<1> QED
  BY <1>1, <1>2 DEF Views

Lists == /\ nodePhase \in [Node -> {"down", "up", "leaving"}]
         /\ status \in [Node -> {"alive", "draining"}]
         /\ toTell \in [Node -> SUBSET Node]
         /\ heardOff \in [Node -> SUBSET Node]
         /\ boots \in [Node -> 0 .. Boots]

LEMMA TypeParts == ClusterTypeOK <=> Views /\ Timers0 /\ Lists
  BY DEF ClusterTypeOK, Views, Timers0, Lists, View

LEMMA StartTypes ==
    ASSUME ClusterParameters, ClusterTypeOK, NEW n \in Node, StartNode(n)
    PROVE ClusterTypeOK'
<1>0. Views /\ Timers0 /\ Lists
  BY TypeParts
<1>1. PICK reached \in Reached(Found \ {n}) :
         peers' = [m \in Node |-> IF m = n THEN Nobody
                                  ELSE IF m \in reached THEN Joined(peers[m], n) ELSE peers[m]]
  BY DEF StartNode
<1>2. Nobody \in View /\ \A m \in Node : Nobody[m] = Unknown
  BY DEF Nobody, View
<1>3. ASSUME NEW m \in Node PROVE peers'[m] \in View /\ peers'[m][m] = Unknown
  BY <1>0, <1>1, <1>2, JoinedFacts DEF Views
<1>4. Views'
  BY <1>1, <1>3, ViewsAre
<1>5. Timers0'
  BY <1>0, TimerFacts DEF StartNode, Timers0
<1>6. boots' \in [Node -> 0 .. Boots]
  BY <1>0 DEF StartNode, ClusterParameters, Lists
<1>7. Lists'
  BY <1>0, <1>6 DEF StartNode, Lists
<1> QED
  BY <1>4, <1>5, <1>7, TypeParts, PTL

LEMMA LeaveTypes ==
    ASSUME ClusterParameters, ClusterTypeOK, NEW n \in Node, Leave(n)
    PROVE ClusterTypeOK'
<1>0. Views /\ Timers0 /\ Lists
  BY TypeParts
<1>1. Views' /\ Timers0'
  BY <1>0 DEF Leave, Views, Timers0, View, Entry, Timer, Period
<1>2. WithStatus(n, {"alive", "suspect"}) \in SUBSET Node
  BY DEF WithStatus, Known
<1>3. Lists'
  BY <1>0, <1>2 DEF Leave, Lists
<1> QED
  BY <1>1, <1>3, TypeParts, PTL

LEMMA TellTypes ==
    ASSUME ClusterParameters, ClusterTypeOK, NEW n \in Node, NEW p \in Node, TellLeave(n, p)
    PROVE ClusterTypeOK'
<1>0. Views /\ Timers0 /\ Lists
  BY TypeParts
<1>1. PICK reached \in Reached({p}) :
         /\ peers' = [m \in Node |-> IF m \in reached THEN Left(peers[m], n) ELSE peers[m]]
         /\ heardOff' = [heardOff EXCEPT ![n] = @ \cup reached]
  BY DEF TellLeave
<1>2. ASSUME NEW m \in Node PROVE peers'[m] \in View /\ peers'[m][m] = Unknown
  <2>1. peers[m] \in View /\ peers[m][m] = Unknown
    BY <1>0 DEF Views
  <2>2. Left(peers[m], n) \in View /\ Left(peers[m], n)[m] = Unknown
    BY <2>1, LeftFacts
  <2> QED
    BY <1>1, <2>1, <2>2
<1>3. Views'
  BY <1>1, <1>2, ViewsAre
<1>4. Timers0'
  BY <1>0 DEF TellLeave, Timers0, Timer, Period
<1>5. reached \subseteq Node
  BY ReachedFacts
<1>6. heardOff' \in [Node -> SUBSET Node]
  BY <1>0, <1>1, <1>5 DEF Lists
<1>7. Lists'
  BY <1>0, <1>6 DEF TellLeave, Lists
<1> QED
  BY <1>3, <1>4, <1>7, TypeParts, PTL

LEMMA EndTypes ==
    ASSUME ClusterParameters, ClusterTypeOK, NEW n \in Node, EndNode(n)
    PROVE ClusterTypeOK'
<1>0. Views /\ Timers0 /\ Lists
  BY TypeParts
<1>1. Nobody \in View /\ \A m \in Node : Nobody[m] = Unknown
  BY DEF Nobody, View
<1>2. peers' = [m \in Node |-> IF m = n THEN Nobody ELSE peers[m]]
  BY <1>0 DEF EndNode, Views
<1>3. ASSUME NEW m \in Node PROVE peers'[m] \in View /\ peers'[m][m] = Unknown
  BY <1>0, <1>1, <1>2 DEF Views
<1>4. Views'
  BY <1>2, <1>3, ViewsAre
<1>5. Timers0'
  BY <1>0, TimerFacts DEF EndNode, Timers0
<1>6. Lists'
  BY <1>0 DEF EndNode, Lists
<1> QED
  BY <1>4, <1>5, <1>6, TypeParts, PTL

LEMMA SetStatusTypes ==
    ASSUME ClusterParameters, ClusterTypeOK, NEW n \in Node, NEW s \in {"alive", "draining"},
    SetStatus(n, s)
    PROVE  ClusterTypeOK'
<1>0. Views /\ Timers0 /\ Lists
  BY TypeParts
<1>1. Views' /\ Timers0'
  BY <1>0 DEF SetStatus, Views, Timers0, View, Entry, Timer, Period
<1>2. Lists'
  BY <1>0 DEF SetStatus, Lists
<1> QED
  BY <1>1, <1>2, TypeParts, PTL

LEMMA FiresTypes ==
    ASSUME ClusterParameters, ClusterTypeOK, NEW n \in Node, NEW t \in Timer, Fires(n, t)
    PROVE  Timers0' /\ Lists'
<1>0. Views /\ Timers0 /\ Lists
  BY TypeParts
<1>1. Timers0'
  BY <1>0, TimerFacts DEF Fires, Timers0
<1> QED
  BY <1>0, <1>1 DEF Fires, Lists

LEMMA PingTypes ==
    ASSUME ClusterParameters, ClusterTypeOK, NEW n \in Node, SendHeartbeats(n)
    PROVE ClusterTypeOK'
<1>0. Views /\ Timers0 /\ Lists
  BY TypeParts
<1>1. PICK reached \in Reached(WithStatus(n, {"alive", "suspect", "draining"})) :
         peers' = [m \in Node |-> IF m \in reached THEN Heartbeat(peers[m], n) ELSE peers[m]]
  BY DEF SendHeartbeats
<1>2. ASSUME NEW m \in Node PROVE peers'[m] \in View /\ peers'[m][m] = Unknown
  <2>1. peers[m] \in View /\ peers[m][m] = Unknown
    BY <1>0 DEF Views
  <2>2. Heartbeat(peers[m], n) \in View /\ Heartbeat(peers[m], n)[m] = Unknown
    BY <2>1, HeartbeatFacts
  <2> QED
    BY <1>1, <2>1, <2>2
<1>3. Views'
  BY <1>1, <1>2, ViewsAre
<1>4. Timers0' /\ Lists'
  BY FiresTypes, TimerFacts DEF SendHeartbeats
<1> QED
  BY <1>3, <1>4, TypeParts, PTL

LEMMA SyncTypes ==
    ASSUME ClusterParameters, ClusterTypeOK, NEW n \in Node, BroadcastState(n)
    PROVE ClusterTypeOK'
<1>0. Views /\ Timers0 /\ Lists
  BY TypeParts
<1>1. PICK reached \in Reached(WithStatus(n, {"alive", "suspect"})) :
         peers' = [m \in Node |-> IF m \in reached THEN Synced(m, n) ELSE peers[m]]
  BY DEF BroadcastState
<1>2. n \notin reached
  BY <1>0, ReachedFacts DEF WithStatus, Known, Views
<1>3. ASSUME NEW m \in Node PROVE peers'[m] \in View /\ peers'[m][m] = Unknown
  <2>1. peers[m] \in View /\ peers[m][m] = Unknown
    BY <1>0 DEF Views
  <2>2. m \in reached => Synced(m, n) \in View /\ Synced(m, n)[m] = Unknown
    BY <1>2, <2>1, SyncedIsView
  <2> QED
    BY <1>1, <2>1, <2>2
<1>4. Views'
  BY <1>1, <1>3, ViewsAre
<1>5. Timers0' /\ Lists'
  BY FiresTypes, TimerFacts DEF BroadcastState
<1> QED
  BY <1>4, <1>5, TypeParts, PTL

LEMMA SweepTypes ==
    ASSUME ClusterParameters, ClusterTypeOK, NEW n \in Node, Sweep(n)
    PROVE ClusterTypeOK'
<1>0. Views /\ Timers0 /\ Lists
  BY TypeParts
<1>1. peers' = [m \in Node |-> IF m = n THEN [p \in Node |-> Swept(peers[n][p])] ELSE peers[m]]
  BY <1>0 DEF Sweep, Views
<1>2. ASSUME NEW m \in Node PROVE peers'[m] \in View /\ peers'[m][m] = Unknown
  <2>1. peers[m] \in View /\ peers[m][m] = Unknown
    BY <1>0 DEF Views
  <2>2. \A p \in Node : Swept(peers[m][p]) \in Entry \cup {Unknown}
    BY <2>1, SweptFacts DEF View
  <2>3. [p \in Node |-> Swept(peers[m][p])] \in View
    BY <2>2 DEF View
  <2>4. Swept(peers[m][m]) = Unknown
    BY <2>1, SweptFacts
  <2> QED
    BY <1>1, <2>1, <2>3, <2>4
<1>3. Views'
  BY <1>1, <1>2, ViewsAre
<1>4. Timers0' /\ Lists'
  BY FiresTypes, TimerFacts DEF Sweep
<1> QED
  BY <1>3, <1>4, TypeParts, PTL

LEMMA OlderFacts ==
    ASSUME ClusterParameters, NEW e \in Entry
    PROVE  LET older == [e EXCEPT !.age = IF @ < MaxAge THEN @ + 1 ELSE @]
           IN  older \in Entry /\ older.status = e.status /\ older.age <= e.age + 1
  BY EntryFacts DEF Entry

LEMMA TickFacts ==
    ASSUME ClusterParameters, ClusterTypeOK, Tick, NEW n \in Node, NEW p \in Node
    PROVE  /\ peers[n][p] = Unknown => peers'[n][p] = Unknown
           /\ peers[n][p] # Unknown => /\ peers'[n][p] \in Entry
                                      /\ peers'[n][p].status = peers[n][p].status
                                      /\ peers'[n][p].age <= peers[n][p].age + 1
<1>1. peers[n][p] # Unknown => peers[n][p] \in Entry
  BY DEF ClusterTypeOK
<1>2. peers'[n][p] = IF peers[n][p] = Unknown THEN Unknown
                     ELSE [peers[n][p] EXCEPT !.age = IF @ < MaxAge THEN @ + 1 ELSE @]
  BY DEF Tick
<1> QED
  BY <1>1, <1>2, OlderFacts

LEMMA TickTypes == ASSUME ClusterParameters, ClusterTypeOK, Tick PROVE ClusterTypeOK'
<1>0. Views /\ Timers0 /\ Lists
  BY TypeParts
<1>1. peers' = [n \in Node |-> [p \in Node |-> peers'[n][p]]]
  BY DEF Tick
<1>2. ASSUME NEW m \in Node PROVE peers'[m] \in View /\ peers'[m][m] = Unknown
  <2>1. \A p \in Node : peers'[m][p] \in Entry \cup {Unknown}
    BY TickFacts
  <2>2. peers'[m] = [p \in Node |-> peers'[m][p]]
    BY <1>1
  <2>3. [p \in Node |-> peers'[m][p]] \in View
    BY <2>1 DEF View
  <2>4. peers'[m][m] = Unknown
    BY <1>0, TickFacts DEF Views
  <2> QED
    BY <2>2, <2>3, <2>4
<1>3. Views'
  BY <1>1, <1>2, ViewsAre
<1>4. ASSUME NEW n \in Node, NEW t \in Timer PROVE wait'[n][t] \in 0 .. Period[t]
  <2>1. wait'[n][t] = IF RunningNode(n) THEN wait[n][t] - 1 ELSE wait[n][t]
    BY DEF Tick
  <2>2. wait[n][t] \in 0 .. Period[t] /\ Period[t] \in Nat
    BY <1>0, TimerFacts DEF Timers0
  <2>3. RunningNode(n) => wait[n][t] > 0
    BY DEF Tick
  <2> QED
    BY <2>1, <2>2, <2>3
<1>5. Timers0'
  BY <1>4 DEF Timers0, Timer, Period
<1>6. Lists'
  BY <1>0 DEF Tick, Lists
<1> QED
  BY <1>3, <1>5, <1>6, TypeParts, PTL

LEMMA TypesKept ==
    ClusterParameters /\ ClusterTypeOK /\ [ClusterNext]_clusterVars => ClusterTypeOK'
<1> SUFFICES ASSUME ClusterParameters, ClusterTypeOK, [ClusterNext]_clusterVars
    PROVE ClusterTypeOK'
  OBVIOUS
<1>1. CASE UNCHANGED clusterVars
  BY <1>1 DEF clusterVars, ClusterTypeOK, Entry, MaxAge, Timer, Period
<1>2. CASE Tick
  BY <1>2, TickTypes
<1>3. ASSUME NEW n \in Node, StartNode(n) PROVE ClusterTypeOK'
  BY <1>3, StartTypes
<1>4. ASSUME NEW n \in Node, Leave(n) PROVE ClusterTypeOK'
  BY <1>4, LeaveTypes
<1>5. ASSUME NEW n \in Node, Crash(n) \/ Gone(n) PROVE ClusterTypeOK'
  BY <1>5, EndTypes DEF Crash, Gone
<1>6. ASSUME NEW n \in Node, NEW p \in Node, TellLeave(n, p) PROVE ClusterTypeOK'
  BY <1>6, TellTypes
<1>7. ASSUME NEW n \in Node, NEW s \in {"alive", "draining"}, SetStatus(n, s)
      PROVE ClusterTypeOK'
  BY <1>7, SetStatusTypes
<1>8. ASSUME NEW n \in Node, Timers(n) PROVE ClusterTypeOK'
  BY <1>8, PingTypes, SyncTypes, SweepTypes DEF Timers
<1> QED
  BY <1>1, <1>2, <1>3, <1>4, <1>5, <1>6, <1>7, <1>8 DEF ClusterNext, Telling

-----------------------------------------------------------------------------
(* News of running peers. *)

\* The invariant for one pair, and what it says of the numbers.
Heard(n, p) == (nodePhase[n] = "up" /\ nodePhase[p] = "up" /\ p \in Known(n)) => NewsInTime(n, p)

LEMMA HeardByAll == RunnersHeard <=> \A n, p \in Node : Heard(n, p)
  BY DEF RunnersHeard, Heard

InRange ==
    \A n, p \in Node :
        /\ wait[n].ping \in {0, 1} /\ wait[n].sync \in 0 .. SyncEvery
        /\ SyncEvery \in Nat /\ SyncEvery > 0
        /\ p \in Known(n) => peers[n][p] \in Entry /\ peers[n][p].age \in Nat /\ p # n

LEMMA Ranges == ClusterParameters /\ ClusterTypeOK => InRange
<1> SUFFICES ASSUME ClusterParameters, ClusterTypeOK, NEW n \in Node, NEW p \in Node
             PROVE  /\ wait[n].ping \in {0, 1} /\ wait[n].sync \in 0 .. SyncEvery
                    /\ SyncEvery \in Nat /\ SyncEvery > 0
                    /\ p \in Known(n) => peers[n][p] \in Entry /\ peers[n][p].age \in Nat /\ p # n
  BY DEF InRange
<1>1. SyncEvery \in Nat /\ SyncEvery > 0
  BY DEF ClusterParameters
<1>2. \A t \in Timer : wait[n][t] \in 0 .. Period[t]
  BY DEF ClusterTypeOK
<1>3. wait[n]["ping"] \in 0 .. 1 /\ wait[n]["sync"] \in 0 .. SyncEvery
  BY <1>2, TimerFacts
<1>4. peers[n][p] \in Entry \cup {Unknown} /\ peers[n][n] = Unknown
  BY DEF ClusterTypeOK
<1>5. p \in Known(n) => peers[n][p] \in Entry /\ peers[n][p].age \in Nat /\ p # n
  BY <1>4, EntryFacts DEF Known
<1> QED
  BY <1>1, <1>3, <1>5

LEMMA RangesNext == ASSUME ClusterParameters, ClusterTypeOK' PROVE InRange'
<1>1. ClusterParameters'
  BY DEF ClusterParameters
<1> QED
  BY <1>1, Ranges, PTL

LEMMA Numbers ==
    ASSUME ClusterParameters, ClusterTypeOK, NEW n \in Node, NEW p \in Node
    PROVE  /\ wait[n].ping \in {0, 1} /\ wait[n].sync \in 0 .. SyncEvery
           /\ SyncEvery \in Nat /\ SyncEvery > 0
           /\ p \in Known(n) => peers[n][p] \in Entry /\ peers[n][p].age \in Nat /\ p # n
  BY Ranges DEF InRange

LEMMA NumbersNext ==
    ASSUME ClusterParameters, ClusterTypeOK', NEW n \in Node, NEW p \in Node
    PROVE  /\ wait'[n].ping \in {0, 1} /\ wait'[n].sync \in 0 .. SyncEvery
           /\ SyncEvery \in Nat /\ SyncEvery > 0
           /\ p \in Known(n)' => peers'[n][p] \in Entry' /\ peers'[n][p].age \in Nat /\ p # n
  BY RangesNext DEF InRange

LEMMA KnownIff ==
    ASSUME NEW n \in Node, NEW p \in Node
    PROVE  /\ p \in Known(n) <=> peers[n][p] # Unknown
           /\ p \in Known(n)' <=> peers'[n][p] # Unknown
  BY DEF Known

\* A pair that a step leaves alone.
LEMMA SameNews ==
    ASSUME NEW n \in Node, NEW p \in Node, Heard(n, p), nodePhase[n] = "up", nodePhase[p] = "up",
           peers'[n][p] = peers[n][p], n \in Known(p)' <=> n \in Known(p),
           wait'[n] = wait[n], wait'[p] = wait[p]
    PROVE  Heard(n, p)'
  BY KnownIff DEF Heard, NewsInTime

LEMMA StartHeard ==
    ASSUME ClusterParameters, Unhurried, ClusterInv, ClusterTypeOK', NEW s \in Node,
    StartNode(s), NEW n \in Node, NEW p \in Node
    PROVE  Heard(n, p)'
<1> SUFFICES ASSUME nodePhase'[n] = "up", nodePhase'[p] = "up", p \in Known(n)'
             PROVE  NewsInTime(n, p)'
  BY DEF Heard
<1>1. PICK reached \in Reached(Found \ {s}) :
         peers' = [m \in Node |-> IF m = s THEN Nobody
                                  ELSE IF m \in reached THEN Joined(peers[m], s) ELSE peers[m]]
  BY DEF StartNode
<1>2. n # s /\ n # p
  <2>1. n = s => peers'[n][p] = Unknown
    BY <1>1 DEF Nobody
  <2> QED
    BY <2>1, KnownIff, NumbersNext
<1>3. nodePhase[n] = "up" /\ (p # s => nodePhase[p] = "up")
  BY <1>2 DEF StartNode, ClusterInv, ClusterTypeOK
<1>4. wait'[n] = wait[n] /\ (p # s => wait'[p] = wait[p])
  BY <1>2 DEF StartNode, ClusterInv, ClusterTypeOK
<1>5. peers[n] \in View /\ peers[p] \in View
  BY TypeParts DEF ClusterInv, Views
<1>6. \A q \in Node \ {s} : peers'[n][q] = peers[n][q] /\ (p # s => peers'[p][q] = peers[p][q])
  BY <1>1, <1>2, <1>5, JoinedFacts
<1>7. CASE p # s
  BY <1>2, <1>3, <1>4, <1>6, <1>7, SameNews, KnownIff DEF ClusterInv, RunnersHeard, Heard
<1>8. CASE p = s
  <2>1. peers'[n][p] = FreshEntry
    <3>1. CASE n \in reached
      BY <1>1, <1>2, <1>5, <1>8, <3>1, JoinedFacts
    <3>2. CASE n \notin reached
      <4>1. n \notin Found
        BY <1>2, <1>3, <3>2, ReachedFacts DEF Unhurried, RunningNode
      <4>2. Stopping = {}
        BY <4>1 DEF Unhurried
      <4>3. peers[n][p] = Unknown
        BY <1>8, <4>2, KnownIff DEF ClusterInv, UnknownUntilUp, StartNode
      <4> QED
        BY <1>1, <1>2, <3>2, <4>3, KnownIff
    <3> QED
      BY <3>1, <3>2
  <2>2. n \notin Known(p)'
    BY <1>1, <1>8, KnownIff DEF Nobody
  <2> QED
    BY <2>1, <2>2, NumbersNext DEF NewsInTime, FreshEntry, ClusterInv
<1> QED
  BY <1>7, <1>8

LEMMA LeaveHeard ==
    ASSUME ClusterParameters, Unhurried, ClusterInv, ClusterTypeOK', NEW s \in Node, Leave(s),
    NEW n \in Node, NEW p \in Node
    PROVE  Heard(n, p)'
<1> SUFFICES ASSUME nodePhase'[n] = "up", nodePhase'[p] = "up"
             PROVE  Heard(n, p)'
  BY DEF Heard
<1>1. nodePhase[n] = "up" /\ nodePhase[p] = "up"
  BY DEF Leave, ClusterInv, ClusterTypeOK
<1>2. Heard(n, p)
  BY DEF ClusterInv, RunnersHeard, Heard
<1> QED
  BY <1>1, <1>2, SameNews, KnownIff DEF Leave

LEMMA TellHeard ==
    ASSUME ClusterParameters, Unhurried, ClusterInv, ClusterTypeOK', NEW s \in Node,
    NEW q \in Node, TellLeave(s, q),
           NEW n \in Node, NEW p \in Node
    PROVE  Heard(n, p)'
<1> SUFFICES ASSUME nodePhase'[n] = "up", nodePhase'[p] = "up"
             PROVE  Heard(n, p)'
  BY DEF Heard
<1>1. PICK reached \in Reached({q}) :
         peers' = [m \in Node |-> IF m \in reached THEN Left(peers[m], s) ELSE peers[m]]
  BY DEF TellLeave
<1>2. nodePhase[n] = "up" /\ nodePhase[p] = "up" /\ wait' = wait
  BY DEF TellLeave
<1>3. n # s /\ p # s
  BY <1>2 DEF TellLeave, ClusterInv, TellersLeave
<1>4. peers[n] \in View /\ peers[p] \in View
  BY TypeParts DEF ClusterInv, Views
<1>5. peers'[n][p] = peers[n][p] /\ peers'[p][n] = peers[p][n]
  <2>1. Left(peers[n], s)[p] = peers[n][p] /\ Left(peers[p], s)[n] = peers[p][n]
    BY <1>3, <1>4, LeftFacts
  <2> QED
    BY <1>1, <2>1
<1>6. Heard(n, p)
  BY DEF ClusterInv, RunnersHeard, Heard
<1> QED
  BY <1>2, <1>5, <1>6, SameNews, KnownIff

LEMMA EndHeard ==
    ASSUME ClusterParameters, Unhurried, ClusterInv, ClusterTypeOK', NEW s \in Node,
    EndNode(s), NEW n \in Node, NEW p \in Node
    PROVE  Heard(n, p)'
<1> SUFFICES ASSUME nodePhase'[n] = "up", nodePhase'[p] = "up"
             PROVE  Heard(n, p)'
  BY DEF Heard
<1>1. n # s /\ p # s
  BY DEF EndNode, ClusterInv, ClusterTypeOK
<1>2. nodePhase[n] = "up" /\ nodePhase[p] = "up"
  BY <1>1 DEF EndNode, ClusterInv, ClusterTypeOK
<1>3. peers'[n] = peers[n] /\ peers'[p] = peers[p] /\ wait'[n] = wait[n] /\ wait'[p] = wait[p]
  BY <1>1 DEF EndNode, ClusterInv, ClusterTypeOK
<1>4. Heard(n, p)
  BY DEF ClusterInv, RunnersHeard, Heard
<1> QED
  BY <1>2, <1>3, <1>4, SameNews, KnownIff

LEMMA SetStatusHeard ==
    ASSUME ClusterInv, NEW s \in Node, NEW t, SetStatus(s, t), NEW n \in Node, NEW p \in Node
    PROVE  Heard(n, p)'
<1>1. Heard(n, p)
  BY DEF ClusterInv, RunnersHeard, Heard
<1> QED
  BY <1>1 DEF SetStatus, Heard, NewsInTime, Known

LEMMA PingHeard ==
    ASSUME ClusterParameters, Unhurried, ClusterInv, ClusterTypeOK', NEW s \in Node,
    SendHeartbeats(s), NEW n \in Node, NEW p \in Node
    PROVE  Heard(n, p)'
<1> SUFFICES ASSUME nodePhase'[n] = "up", nodePhase'[p] = "up", p \in Known(n)'
             PROVE  NewsInTime(n, p)'
  BY DEF Heard
<1>1. PICK reached \in Reached(WithStatus(s, {"alive", "suspect", "draining"})) :
         peers' = [m \in Node |-> IF m \in reached THEN Heartbeat(peers[m], s) ELSE peers[m]]
  BY DEF SendHeartbeats
<1>2. nodePhase[n] = "up" /\ nodePhase[p] = "up"
  BY DEF SendHeartbeats, Fires
<1>3. wait' = [wait EXCEPT ![s]["ping"] = 1]
  BY TimerFacts DEF SendHeartbeats, Fires
<1>4. peers[n] \in View /\ peers[p] \in View
  BY TypeParts DEF ClusterInv, Views
<1>5. peers'[n][p] = Unknown <=> peers[n][p] = Unknown
  <2>1. Heartbeat(peers[n], s)[p] = Unknown <=> peers[n][p] = Unknown
    BY <1>4, HeartbeatSame
  <2> QED
    BY <1>1, <2>1
<1>6. peers'[p][n] = Unknown <=> peers[p][n] = Unknown
  <2>1. Heartbeat(peers[p], s)[n] = Unknown <=> peers[p][n] = Unknown
    BY <1>4, HeartbeatSame
  <2> QED
    BY <1>1, <2>1
<1>7. p \in Known(n) /\ (n \in Known(p)' <=> n \in Known(p))
  BY <1>5, <1>6, KnownIff
<1>8. NewsInTime(n, p)
  BY <1>2, <1>7 DEF ClusterInv, RunnersHeard
<1>9. wait'[n].sync = wait[n].sync /\ (p # s => wait'[p].ping = wait[p].ping)
  BY <1>3 DEF ClusterInv, ClusterTypeOK
<1>10. CASE p # s
  <2>1. peers'[n][p] = peers[n][p]
    BY <1>1, <1>4, <1>10, HeartbeatFacts
  <2> QED
    BY <1>7, <1>8, <1>9, <1>10, <2>1 DEF NewsInTime
<1>11. CASE p = s /\ n \in Known(p)
  <2>1. peers[p][n].status = "alive"
    BY <1>2, <1>11 DEF ClusterInv, RunnersHeard, NewsInTime
  <2>2. n \in reached
    BY <1>2, <1>11, <2>1, ReachedFacts DEF Unhurried, RunningNode, WithStatus
  <2>3. peers'[n][p].age = 0 /\ peers'[n][p].status = "alive"
    <3>1. peers[n][p] # Unknown /\ peers[n][p].status = "alive"
      BY <1>7, <1>8, KnownIff DEF NewsInTime
    <3>2. Heartbeat(peers[n], p)[p].age = 0 /\ Heartbeat(peers[n], p)[p].status = "alive"
      BY <1>4, <3>1, HeartbeatFacts
    <3> QED
      BY <1>1, <1>11, <2>2, <3>2
  <2>4. wait'[p].ping \in {0, 1} /\ SyncEvery \in Nat
    BY NumbersNext DEF ClusterInv
  <2> QED
    BY <1>7, <1>11, <2>3, <2>4 DEF NewsInTime
<1>12. CASE p = s /\ n \notin Known(p)
  <2>1. n \notin reached
    BY <1>12, ReachedFacts DEF WithStatus
  <2>2. peers'[n][p] = peers[n][p]
    BY <1>1, <2>1
  <2> QED
    BY <1>7, <1>8, <1>9, <1>12, <2>2 DEF NewsInTime
<1> QED
  BY <1>10, <1>11, <1>12

LEMMA SyncHeard ==
    ASSUME ClusterParameters, Unhurried, ClusterInv, ClusterTypeOK', NEW s \in Node,
    BroadcastState(s), NEW n \in Node, NEW p \in Node
    PROVE  Heard(n, p)'
<1> SUFFICES ASSUME nodePhase'[n] = "up", nodePhase'[p] = "up", p \in Known(n)'
             PROVE  NewsInTime(n, p)'
  BY DEF Heard
<1>1. PICK reached \in Reached(WithStatus(s, {"alive", "suspect"})) :
         peers' = [m \in Node |-> IF m \in reached THEN Synced(m, s) ELSE peers[m]]
  BY DEF BroadcastState
<1>2. nodePhase[n] = "up" /\ nodePhase[p] = "up"
  BY DEF BroadcastState, Fires
<1>3. wait' = [wait EXCEPT ![s]["sync"] = SyncEvery]
  BY TimerFacts DEF BroadcastState, Fires
<1>4. s \notin reached /\ n # p
  BY ReachedFacts, NumbersNext DEF ClusterInv, ClusterTypeOK, WithStatus, Known
<1>5. wait'[p].ping = wait[p].ping /\ (n # s => wait'[n].sync = wait[n].sync)
  BY <1>3 DEF ClusterInv, ClusterTypeOK
<1>6. \A m \in Node : m \in reached => \A q \in Node \ {m} : Synced(m, s)[q] = IF q = s \/ q \in Known(s) THEN FreshEntry ELSE peers[m][q]
  BY <1>4, SyncedByJoin DEF Unhurried
<1>7. FreshEntry # Unknown
  BY EntryFacts
<1>8. n \in Known(p) => n \in Known(p)'
  BY <1>1, <1>4, <1>6, <1>7, KnownIff
<1>9. wait'[p].ping \in {0, 1} /\ wait'[n].sync \in 0 .. SyncEvery /\ SyncEvery \in Nat /\ SyncEvery > 0
  BY NumbersNext DEF ClusterInv
<1>10. CASE peers'[n][p] = FreshEntry
  BY <1>9, <1>10 DEF NewsInTime, FreshEntry
<1>11. CASE peers'[n][p] # FreshEntry
  <2>1. peers'[n][p] = peers[n][p]
    BY <1>1, <1>4, <1>6, <1>11
  <2>2. p \in Known(n)
    BY <2>1, KnownIff
  <2>3. NewsInTime(n, p) /\ peers[n][p].age \in Nat
    BY <1>2, <2>2, Numbers DEF ClusterInv, RunnersHeard
  <2>4. CASE n \in Known(p)
    BY <1>5, <1>8, <2>1, <2>3, <2>4 DEF NewsInTime
  <2>5. CASE n \notin Known(p) /\ n \in Known(p)'
    <3>1. peers[n][p].age <= SyncEvery
      BY <2>3, <2>5, Numbers DEF NewsInTime, ClusterInv
    <3> QED
      BY <1>9, <2>1, <2>3, <2>5, <3>1 DEF NewsInTime
  <2>6. CASE n \notin Known(p)'
    <3>1. n # s
      <4>1. SUFFICES ASSUME n = s PROVE FALSE
        OBVIOUS
      <4>2. peers[s][p].status = "alive"
        BY <2>3, <4>1 DEF NewsInTime
      <4>3. p \in reached
        BY <1>2, <2>2, <4>1, <4>2, ReachedFacts DEF Unhurried, RunningNode, WithStatus
      <4>4. peers'[p][n] = FreshEntry
        BY <1>1, <1>4, <1>6, <4>1, <4>3
      <4> QED
        BY <1>7, <2>6, <4>4, KnownIff
    <3> QED
      BY <1>5, <1>8, <2>1, <2>3, <2>6, <3>1 DEF NewsInTime
  <2> QED
    BY <2>4, <2>5, <2>6
<1> QED
  BY <1>10, <1>11

LEMMA SweepHeard ==
    ASSUME ClusterParameters, Unhurried, ClusterInv, ClusterTypeOK', NEW s \in Node, Sweep(s),
    NEW n \in Node, NEW p \in Node
    PROVE  Heard(n, p)'
<1> SUFFICES ASSUME nodePhase'[n] = "up", nodePhase'[p] = "up"
             PROVE  Heard(n, p)'
  BY DEF Heard
<1>1. peers' = [m \in Node |-> IF m = s THEN [q \in Node |-> Swept(peers[s][q])] ELSE peers[m]]
  BY TypeParts DEF Sweep, ClusterInv, Views
<1>2. nodePhase[n] = "up" /\ nodePhase[p] = "up"
  BY DEF Sweep, Fires
<1>3. wait' = [wait EXCEPT ![s]["sweep"] = 1]
  BY TimerFacts DEF Sweep, Fires
<1>4. wait'[p].ping = wait[p].ping /\ wait'[n].sync = wait[n].sync
  BY <1>3 DEF ClusterInv, ClusterTypeOK
<1>5. ASSUME NEW x \in Node, NEW y \in Node, nodePhase[x] = "up", nodePhase[y] = "up"
      PROVE  peers'[x][y] = peers[x][y]
  <2>1. peers[x][y] \in Entry \cup {Unknown}
    BY DEF ClusterInv, ClusterTypeOK
  <2>2. CASE y \notin Known(x)
    BY <1>1, <2>1, <2>2, SweptFacts, KnownIff
  <2>3. CASE y \in Known(x)
    <3>1. NewsInTime(x, y)
      BY <1>5, <2>3 DEF ClusterInv, RunnersHeard
    <3>2. peers[x][y].age <= SuspectAfter
      <4>1. SuspectAfter \in Nat /\ SyncEvery + 1 <= SuspectAfter
        BY DEF Unhurried, ClusterParameters
      <4>2. peers[x][y].age <= SyncEvery + 1
        BY <2>3, <3>1, Numbers DEF NewsInTime, ClusterInv
      <4> QED
        BY <2>3, <4>1, <4>2, Numbers DEF ClusterInv
    <3> QED
      BY <1>1, <2>1, <2>3, <3>1, <3>2, SweptFacts, KnownIff DEF NewsInTime
  <2> QED
    BY <2>2, <2>3
<1>6. peers'[n][p] = peers[n][p] /\ peers'[p][n] = peers[p][n]
  BY <1>2, <1>5
<1>7. Heard(n, p)
  BY DEF ClusterInv, RunnersHeard, Heard
<1> QED
  BY <1>2, <1>4, <1>6, <1>7, KnownIff DEF Heard, NewsInTime

LEMMA TickHeard ==
    ASSUME ClusterParameters, Unhurried, ClusterInv, ClusterTypeOK', Tick, NEW n \in Node,
    NEW p \in Node
    PROVE  Heard(n, p)'
<1> SUFFICES ASSUME nodePhase'[n] = "up", nodePhase'[p] = "up", p \in Known(n)'
             PROVE  NewsInTime(n, p)'
  BY DEF Heard
<1>1. nodePhase[n] = "up" /\ nodePhase[p] = "up"
  BY DEF Tick
<1>2. (p \in Known(n)' <=> p \in Known(n)) /\ (n \in Known(p)' <=> n \in Known(p))
  BY TickFacts, KnownIff, EntryFacts DEF ClusterInv
<1>3. NewsInTime(n, p)
  BY <1>1, <1>2 DEF ClusterInv, RunnersHeard
<1>4. peers'[n][p].status = peers[n][p].status /\ peers'[n][p].age <= peers[n][p].age + 1
  BY <1>2, TickFacts, KnownIff DEF ClusterInv
<1>5. wait'[p]["ping"] = wait[p]["ping"] - 1 /\ wait'[n]["sync"] = wait[n]["sync"] - 1
  BY <1>1, TimerFacts DEF Tick, RunningNode
<1>6. peers[n][p].age \in Nat /\ peers'[n][p].age \in Nat /\ SyncEvery \in Nat
  BY <1>2, Numbers, NumbersNext DEF ClusterInv
<1>7. wait[p].ping \in {0, 1} /\ wait[n].sync \in 0 .. SyncEvery
  BY Numbers DEF ClusterInv
<1> QED
  BY <1>2, <1>3, <1>4, <1>5, <1>6, <1>7 DEF NewsInTime

-----------------------------------------------------------------------------
(* The other parts of the invariant, and the theorems. *)

LEMMA TellersKept ==
    ASSUME ClusterTypeOK, TellersLeave, ClusterNext
    PROVE  TellersLeave'
<1> SUFFICES ASSUME NEW n \in Node, toTell'[n] # {} PROVE nodePhase'[n] = "leaving"
  BY DEF TellersLeave
<1>1. toTell[n] # {} => nodePhase[n] = "leaving"
  BY DEF TellersLeave
<1>2. nodePhase \in [Node -> {"down", "up", "leaving"}] /\ toTell \in [Node -> SUBSET Node]
  BY DEF ClusterTypeOK
<1>3. CASE Tick
  BY <1>1, <1>3 DEF Tick
<1>4. ASSUME NEW s \in Node, StartNode(s) PROVE nodePhase'[n] = "leaving"
  BY <1>1, <1>2, <1>4 DEF StartNode
<1>5. ASSUME NEW s \in Node, Leave(s) PROVE nodePhase'[n] = "leaving"
  BY <1>1, <1>2, <1>5 DEF Leave
<1>6. ASSUME NEW s \in Node, EndNode(s) PROVE nodePhase'[n] = "leaving"
  BY <1>1, <1>2, <1>6 DEF EndNode
<1>7. ASSUME NEW s \in Node, NEW q \in Node, TellLeave(s, q) PROVE nodePhase'[n] = "leaving"
  BY <1>1, <1>2, <1>7 DEF TellLeave
<1>8. ASSUME NEW s \in Node, NEW t \in {"alive", "draining"}, SetStatus(s, t)
      PROVE nodePhase'[n] = "leaving"
  BY <1>1, <1>8 DEF SetStatus
<1>9. ASSUME NEW s \in Node, Timers(s) PROVE nodePhase'[n] = "leaving"
  BY <1>1, <1>9 DEF Timers, SendHeartbeats, BroadcastState, Sweep, Fires
<1> QED
  BY <1>3, <1>4, <1>5, <1>6, <1>7, <1>8, <1>9 DEF ClusterNext, Telling, Gone, Crash

\* Nobody but a node that runs is ever named in a view, where no node stops.
LEMMA UnknownKept ==
    ASSUME ClusterParameters, Unhurried, ClusterInv, ClusterTypeOK', ClusterNext
    PROVE  UnknownUntilUp'
<1> SUFFICES ASSUME Stopping = {}, NEW p \in Node
             PROVE  /\ nodePhase'[p] # "leaving"
                    /\ nodePhase'[p] = "down" => \A n \in Node : p \notin Known(n)'
  BY DEF UnknownUntilUp
<1> DEFINE Goal == /\ nodePhase'[p] # "leaving"
                   /\ nodePhase'[p] = "down" => \A n \in Node : p \notin Known(n)'
<1>1. \A q \in Node : nodePhase[q] # "leaving" /\ toTell[q] = {}
  <2>1. \A q \in Node : nodePhase[q] # "leaving"
    <3>1. UnknownUntilUp
      BY DEF ClusterInv
    <3> QED
      BY <3>1 DEF UnknownUntilUp
  <2> QED
    BY <2>1 DEF ClusterInv, TellersLeave
<1>2. nodePhase[p] = "down" => \A n \in Node : peers[n][p] = Unknown
  BY KnownIff DEF ClusterInv, UnknownUntilUp
<1>3. \A n \in Node : peers[n] \in View
  BY TypeParts DEF ClusterInv, Views
<1>4. nodePhase \in [Node -> {"down", "up", "leaving"}]
  BY DEF ClusterInv, ClusterTypeOK
<1>5. CASE Tick
  <2>1. nodePhase' = nodePhase
    BY <1>5 DEF Tick
  <2>2. \A n \in Node : peers[n][p] = Unknown => peers'[n][p] = Unknown
    BY <1>5, TickFacts DEF ClusterInv
  <2> QED
    BY <1>1, <1>2, <2>1, <2>2, KnownIff
<1>6. ASSUME NEW s \in Node, StartNode(s) PROVE Goal
  <2>1. PICK reached \in Reached(Found \ {s}) :
           peers' = [m \in Node |-> IF m = s THEN Nobody
                                    ELSE IF m \in reached THEN Joined(peers[m],
                                    s) ELSE peers[m]]
    BY <1>6 DEF StartNode
  <2>2. nodePhase'[p] # "leaving" /\ (nodePhase'[p] = "down" => p # s /\ nodePhase[p] = "down")
    BY <1>1, <1>4, <1>6 DEF StartNode
  <2>3. ASSUME NEW n \in Node, p # s, nodePhase[p] = "down" PROVE peers'[n][p] = Unknown
    <3>1. Nobody[p] = Unknown
      BY DEF Nobody
    <3>2. peers[n][p] = Unknown
      BY <1>2, <2>3
    <3>3. Joined(peers[n], s)[p] = peers[n][p]
      BY <1>3, <2>3, JoinedFacts
    <3> QED
      BY <2>1, <3>1, <3>2, <3>3
  <2> QED
    BY <2>2, <2>3, KnownIff
<1>7. ASSUME NEW s \in Node, Leave(s) \/ Crash(s) \/ Gone(s) \/ \E q \in Node : TellLeave(s, q)
      PROVE Goal
  BY <1>1, <1>7 DEF Leave, Crash, Gone, TellLeave
<1>8. ASSUME NEW s \in Node, NEW t \in {"alive", "draining"}, SetStatus(s, t) PROVE Goal
  <2>1. nodePhase' = nodePhase /\ peers' = peers
    BY <1>8 DEF SetStatus
  <2> QED
    BY <1>1, <1>2, <2>1, KnownIff
<1>9. ASSUME NEW s \in Node, Timers(s) PROVE Goal
  <2>1. nodePhase' = nodePhase
    BY <1>9 DEF Timers, SendHeartbeats, BroadcastState, Sweep, Fires
  <2>2. RunningNode(s)
    BY <1>9 DEF Timers, SendHeartbeats, BroadcastState, Sweep, Fires
  <2>3. ASSUME nodePhase[p] = "down", NEW n \in Node PROVE peers'[n][p] = Unknown
    <3>1. peers[n][p] = Unknown /\ peers[s][p] = Unknown /\ p # s
      BY <1>2, <2>2, <2>3 DEF RunningNode
    <3>2. CASE SendHeartbeats(s)
      <4>1. Heartbeat(peers[n], s)[p] = Unknown
        BY <1>3, <3>1, HeartbeatSame
      <4> QED
        BY <3>1, <3>2, <4>1 DEF SendHeartbeats
    <3>3. CASE BroadcastState(s)
      <4>1. PICK reached \in Reached(WithStatus(s, {"alive", "suspect"})) :
               peers' = [m \in Node |-> IF m \in reached THEN Synced(m, s) ELSE peers[m]]
        BY <3>3 DEF BroadcastState
      <4>2. s \notin reached
        BY ReachedFacts DEF ClusterInv, ClusterTypeOK, WithStatus, Known
      <4>3. CASE n \in reached
        <5>1. n # s /\ p \notin Known(s)
          BY <3>1, <4>2, <4>3, KnownIff
        <5>2. Synced(n, s)[p] = peers[n][p]
          <6>1. CASE p = n
            BY <5>1, <6>1, SyncedIsView DEF ClusterInv
          <6>2. CASE p # n
            BY <3>1, <5>1, <6>2, SyncedByJoin DEF Unhurried
          <6> QED
            BY <6>1, <6>2
        <5> QED
          BY <3>1, <4>1, <4>3, <5>2
      <4>4. CASE n \notin reached
        BY <3>1, <4>1, <4>4
      <4> QED
        BY <4>3, <4>4
    <3>4. CASE Sweep(s)
      <4>1. peers' = [m \in Node |-> IF m = s THEN [q \in Node |-> Swept(peers[s][q])] ELSE peers[m]]
        BY <3>4, TypeParts DEF Sweep, ClusterInv, Views
      <4>2. Swept(Unknown) = Unknown
        BY DEF Swept
      <4> QED
        BY <3>1, <4>1, <4>2
    <3> QED
      BY <1>9, <3>2, <3>3, <3>4 DEF Timers
  <2> QED
    BY <1>1, <2>1, <2>3, KnownIff
<1> QED
  BY <1>5, <1>6, <1>7, <1>8, <1>9 DEF ClusterNext, Telling

LEMMA StepHeard ==
    ASSUME ClusterParameters, Unhurried, ClusterInv, ClusterTypeOK', ClusterNext
    PROVE  RunnersHeard'
<1> SUFFICES ASSUME NEW n \in Node, NEW p \in Node PROVE Heard(n, p)'
  BY HeardByAll DEF RunnersHeard, Heard
<1>1. CASE Tick
  BY <1>1, TickHeard
<1>2. ASSUME NEW s \in Node, StartNode(s) PROVE Heard(n, p)'
  BY <1>2, StartHeard
<1>3. ASSUME NEW s \in Node, Leave(s) PROVE Heard(n, p)'
  BY <1>3, LeaveHeard
<1>4. ASSUME NEW s \in Node, Crash(s) \/ Gone(s) PROVE Heard(n, p)'
  BY <1>4, EndHeard DEF Crash, Gone
<1>5. ASSUME NEW s \in Node, NEW q \in Node, TellLeave(s, q) PROVE Heard(n, p)'
  BY <1>5, TellHeard
<1>6. ASSUME NEW s \in Node, NEW t \in {"alive", "draining"}, SetStatus(s, t) PROVE Heard(n, p)'
  BY <1>6, SetStatusHeard
<1>7. ASSUME NEW s \in Node, Timers(s) PROVE Heard(n, p)'
  BY <1>7, PingHeard, SyncHeard, SweepHeard DEF Timers
<1> QED
  BY <1>1, <1>2, <1>3, <1>4, <1>5, <1>6, <1>7 DEF ClusterNext, Telling

LEMMA StepKeeps ==
    ClusterParameters /\ Unhurried /\ ClusterInv /\ [ClusterNext]_clusterVars => ClusterInv'
<1> SUFFICES ASSUME ClusterParameters, Unhurried, ClusterInv, [ClusterNext]_clusterVars
    PROVE ClusterInv'
  OBVIOUS
<1>1. ClusterTypeOK'
  BY TypesKept DEF ClusterInv
<1>2. CASE ClusterNext
  BY <1>1, <1>2, TellersKept, UnknownKept, StepHeard DEF ClusterInv
<1>3. CASE UNCHANGED clusterVars
  BY <1>1, <1>3 DEF clusterVars, ClusterInv, TellersLeave, UnknownUntilUp, RunnersHeard,
     NewsInTime, Known
<1> QED
  BY <1>2, <1>3

\* Views, timers and lists of a node stay within their types, for every set of nodes.
THEOREM ClusterTypeCorrect == ClusterSpec => []ClusterTypeOK
<1> SUFFICES ASSUME ClusterParameters PROVE ClusterSpec => []ClusterTypeOK
  BY MembershipAssumption
<1>1. ClusterInit => ClusterTypeOK
  BY InitHolds DEF ClusterInv
<1>2. ClusterTypeOK /\ [ClusterNext]_clusterVars => ClusterTypeOK'
  BY TypesKept
<1> QED
  BY <1>1, <1>2, PTL DEF ClusterSpec

\* Two nodes that run do not suspect one another, for every cluster of which the parameters
\* are Unhurried: news of a running peer is never older than the time to the next broadcast
\* that brings it (checkPeers, sendHeartbeats, broadcastState, handleJoin).
THEOREM RunnersAreNotSuspected == Unhurried => (ClusterSpec => []NoFalseSuspicion)
<1> SUFFICES ASSUME ClusterParameters, Unhurried PROVE ClusterSpec => []NoFalseSuspicion
  BY MembershipAssumption
<1>1. ClusterInit => ClusterInv
  BY InitHolds
<1>2. ClusterInv /\ [ClusterNext]_clusterVars => ClusterInv'
  BY StepKeeps
<1>3. ClusterInv => NoFalseSuspicion
  BY DEF ClusterInv, RunnersHeard, NewsInTime, NoFalseSuspicion
<1> QED
  BY <1>1, <1>2, <1>3, PTL DEF ClusterSpec

-----------------------------------------------------------------------------
(* The checkpoint sink. *)

USE SinkAssumption DEF SinkParameters

Slot == [pc : {"idle", "capture", "load", "append"}, captured : 0 .. MaxVersion,
         sequence : Nat, alone : BOOLEAN]

Saved == [sequence : Nat, version : 0 .. MaxVersion]

Flushes == [waits : Write \cup {None}, upTo : 0 .. MaxVersion] \cup {None}

\* The types, and the running writes, said without the state functions.
LEMMA SinkFacts ==
    ASSUME SinkTypeOK
    PROVE  /\ version \in 0 .. MaxVersion /\ promised \in 0 .. MaxVersion
           /\ writes \in [Write -> Slot] /\ stored \in Saved /\ flush \in Flushes
           /\ inflight \in Write \cup {None}
           /\ timer \in BOOLEAN /\ disposed \in BOOLEAN /\ leased \in BOOLEAN /\ clean \in BOOLEAN
           /\ \A w : w \in Running <=> w \in Write /\ writes[w].pc # "idle"
           /\ None \notin Running
  BY DEF SinkTypeOK, Running, At, Slot, Saved, Flushes

LEMMA SinkInitHolds == SinkInit => SinkInv
<1> SUFFICES ASSUME SinkInit PROVE SinkInv
  OBVIOUS
<1>1. SinkTypeOK
  <2>1. 0 \in 0 .. MaxVersion /\ Idle \in Slot
    BY DEF Idle, Slot
  <2>2. writes \in [Write -> Slot] /\ stored \in Saved
    BY <2>1 DEF SinkInit, Saved
  <2> QED
    BY <2>1, <2>2 DEF SinkInit, SinkTypeOK, Slot, Saved
<1>2. Running = {}
  BY DEF SinkInit, Running, At, Idle
<1>3. AloneIsOnly /\ AloneWillStore
  BY <1>2 DEF SinkInit, AloneIsOnly, AloneWillStore
<1>4. /\ QuietMeansCheckpointed /\ FlushWaits /\ FlushCovers
      /\ stored.version <= version /\ promised <= version
  BY DEF SinkInit, QuietMeansCheckpointed, FlushWaits, FlushCovers
<1> QED
  BY <1>1, <1>3, <1>4 DEF SinkInv

-----------------------------------------------------------------------------
(* A write starts. *)

\* What a start does when the session's lease is there, and when it is not.
LEMMA StartFacts ==
    ASSUME SinkInv, NEW w \in Write, StartWrite(w)
    PROVE  /\ writes' \in [Write -> Slot]
           /\ inflight' \in Write \cup {None} /\ clean' \in BOOLEAN
           /\ clean' => clean
           /\ ~ leased => writes' = writes /\ inflight' = inflight /\ clean' = clean
           /\ leased => /\ inflight' = w /\ w \notin Running /\ Running' = Running \cup {w}
                        /\ writes'[w].pc = "capture" /\ writes'[w].captured = 0
                        /\ writes'[w].alone = (Running = {})
                        /\ \A v \in Write : v # w => /\ ~ writes'[v].alone
                                                     /\ writes'[v].captured = writes[v].captured
                        /\ clean' => Running = {}
<1>1. SinkTypeOK
  BY DEF SinkInv
<1>2. CASE leased
  <2> PICK a \in BOOLEAN : a = (Running = {})
    OBVIOUS
  <2> DEFINE begun == [pc |-> "capture", captured |-> 0, sequence |-> 0, alone |-> a]
             besides(v) == [writes[v] EXCEPT !.alone = FALSE]
  <2>1. /\ writes[w].pc = "idle" /\ inflight' = w /\ clean' = (clean /\ a)
        /\ writes' = [v \in Write |-> IF v = w THEN begun ELSE besides(v)]
    BY <1>2 DEF StartWrite, At
  <2>2. /\ begun \in Slot /\ begun.pc = "capture" /\ begun.captured = 0 /\ begun.alone = a
    BY DEF Slot
  <2>3. ASSUME NEW v \in Write
        PROVE  /\ besides(v) \in Slot /\ ~ besides(v).alone
               /\ besides(v).captured = writes[v].captured /\ besides(v).pc = writes[v].pc
    <3>1. writes[v] \in Slot
      BY <1>1, SinkFacts
    <3> QED
      BY <3>1 DEF Slot
  <2> HIDE DEF begun, besides
  <2>4. /\ writes' \in [Write -> Slot] /\ writes'[w] = begun
        /\ \A v \in Write : v # w => writes'[v] = besides(v)
    BY <2>1, <2>2, <2>3
  <2>5. Running' = Running \cup {w} /\ w \notin Running
    BY <2>1, <2>2, <2>3, <2>4 DEF Running, At
  <2>6. clean \in BOOLEAN
    BY <1>1, SinkFacts
  <2>7. clean' \in BOOLEAN /\ (clean' => clean) /\ (clean' => Running = {})
    BY <2>1, <2>6
  <2>8. writes'[w].alone = (Running = {})
    BY <2>2, <2>4
  <2> QED
    BY <1>2, <2>1, <2>2, <2>3, <2>4, <2>5, <2>7, <2>8
<1>3. CASE ~ leased
  BY <1>1, <1>3, SinkFacts DEF StartWrite
<1> QED
  BY <1>2, <1>3

\* The parts of the invariant that do not mention a flush survive a start.
LEMMA StartKeeps ==
    ASSUME SinkInv, NEW w \in Write, StartWrite(w), version' \in version .. MaxVersion,
           stored' = stored, leased' = leased, promised' = promised
    PROVE  AloneIsOnly' /\ AloneWillStore' /\ QuietMeansCheckpointed'
<1>1. /\ SinkTypeOK /\ AloneIsOnly /\ AloneWillStore /\ stored.version <= version
      /\ promised <= version
  BY DEF SinkInv
<1>2. version \in Nat /\ version' \in Nat /\ version' >= version
  BY <1>1, SinkFacts
<1>3. CASE leased
  <2>1. /\ inflight' = w /\ w \notin Running /\ Running' = Running \cup {w}
        /\ writes'[w].pc = "capture" /\ writes'[w].captured = 0
        /\ writes'[w].alone = (Running = {})
        /\ \A v \in Write : v # w => /\ ~ writes'[v].alone
                                     /\ writes'[v].captured = writes[v].captured
        /\ clean' => Running = {}
    BY <1>3, StartFacts, Zenon
  <2>2. AloneIsOnly'
    <3>1. ASSUME NEW v \in Running', writes'[v].alone PROVE Running' = {v} /\ inflight' = v
      <4>1. v \in Write
        BY <1>1, <2>1, SinkFacts
      <4>2. v = w
        BY <2>1, <3>1, <4>1
      <4> QED
        BY <2>1, <3>1, <4>2
    <3>2. ASSUME clean', NEW v \in Running' PROVE writes'[v].alone
      BY <2>1, <3>2
    <3> QED
      BY <2>1, <3>1, <3>2 DEF AloneIsOnly
  <2>3. ASSUME NEW v \in Running'
        PROVE  /\ writes'[v].captured <= version'
               /\ v # w => ~ writes'[v].alone
               /\ v = w => writes'[v].pc = "capture"
    <3>1. v \in Write /\ writes[v] \in Slot
      BY <1>1, <2>1, <2>3, SinkFacts
    <3>2. CASE v = w
      BY <1>2, <2>1, <3>2
    <3>3. CASE v # w
      <4>1. v \in Running
        BY <2>1, <2>3, <3>3
      <4>2. writes[v].captured <= version /\ writes[v].captured \in 0 .. MaxVersion
        BY <1>1, <3>1, <4>1 DEF AloneWillStore, Slot
      <4> QED
        BY <1>2, <2>1, <3>1, <3>3, <4>2
    <3> QED
      BY <3>2, <3>3
  <2>4. AloneWillStore'
    BY <2>3 DEF AloneWillStore, WillStore, At
  <2>5. QuietMeansCheckpointed'
    BY <2>1 DEF QuietMeansCheckpointed
  <2> QED
    BY <2>2, <2>4, <2>5
<1>4. CASE ~ leased
  <2>1. writes' = writes /\ inflight' = inflight /\ clean' = clean
    BY <1>4, StartFacts
  <2>2. Running' = Running
    BY <2>1 DEF Running, At
  <2>3. AloneIsOnly'
    BY <1>1, <2>1, <2>2 DEF AloneIsOnly
  <2>4. AloneWillStore'
    <3> SUFFICES ASSUME NEW v \in Running
                 PROVE  /\ writes[v].captured <= version'
                        /\ writes[v].alone /\ At(v, "append") => writes[v].sequence = stored.sequence + 1
      BY <1>4, <2>1, <2>2 DEF AloneWillStore, At
    <3>1. writes[v] \in Slot
      BY <1>1, SinkFacts
    <3> QED
      BY <1>1, <1>2, <3>1 DEF AloneWillStore, Slot
  <2>5. QuietMeansCheckpointed'
    BY <1>4 DEF QuietMeansCheckpointed, Intact
  <2> QED
    BY <2>3, <2>4, <2>5
<1> QED
  BY <1>3, <1>4

\* A flush goes on waiting for its write when another starts.
LEMMA StartKeepsFlush ==
    ASSUME SinkInv, NEW w \in Write, StartWrite(w), version' \in version .. MaxVersion,
           stored' = stored, flush' = flush, leased' = leased, disposed' = disposed
    PROVE  FlushWaits'
<1>1. SinkTypeOK /\ FlushWaits
  BY DEF SinkInv
<1>2. Running \subseteq Running'
  <2>1. CASE leased
    BY <2>1, StartFacts
  <2>2. CASE ~ leased
    BY <2>2, StartFacts DEF Running, At
  <2> QED
    BY <2>1, <2>2
<1>3. Intact' => Intact
  BY StartFacts DEF Intact
<1>4. flush # None => flush.upTo \in 0 .. MaxVersion
  BY <1>1, SinkFacts DEF Flushes
<1>5. version \in Nat /\ version' >= version /\ version' \in Nat
  BY <1>1, SinkFacts
<1> QED
  BY <1>1, <1>2, <1>3, <1>4, <1>5 DEF FlushWaits

LEMMA FireKeeps == ASSUME SinkInv, NEW w \in Write, Fire(w) PROVE SinkInv'
<1>1. /\ SinkTypeOK /\ FlushCovers /\ stored.version <= version /\ promised <= version
  BY DEF SinkInv
<1>2. StartWrite(w) /\ version' \in version .. MaxVersion
  BY <1>1, SinkFacts DEF Fire
<1>3. SinkTypeOK'
  BY <1>1, <1>2, StartFacts DEF Fire, SinkTypeOK, Slot
<1>4. AloneIsOnly' /\ AloneWillStore' /\ QuietMeansCheckpointed'
  BY <1>2, StartKeeps DEF Fire
<1>5. FlushWaits'
  BY <1>2, StartKeepsFlush DEF Fire
<1>6. FlushCovers' /\ stored'.version <= version' /\ promised' <= version'
  BY <1>1, <1>2, StartFacts DEF Fire, FlushCovers, Intact
<1> QED
  BY <1>3, <1>4, <1>5, <1>6 DEF SinkInv

LEMMA ImmediateKeeps == ASSUME SinkInv, NEW w \in Write, Immediate(w) PROVE SinkInv'
<1>1. /\ SinkTypeOK /\ AloneIsOnly /\ AloneWillStore /\ FlushWaits /\ FlushCovers
      /\ stored.version <= version /\ promised <= version
  BY DEF SinkInv
<1>2. /\ version' \in version .. MaxVersion /\ version' \in 0 .. MaxVersion
      /\ version \in Nat /\ version' >= version
      /\ stored.version \in Nat /\ promised \in Nat
  BY <1>1, SinkFacts DEF Immediate, Saved
<1>3. stored'.version <= version' /\ promised' <= version'
  BY <1>1, <1>2 DEF Immediate
<1>4. CASE disposed
  <2>1. /\ disposed' /\ UNCHANGED <<timer, writes, inflight, clean, stored, flush, promised, leased>>
        /\ Running' = Running
    BY <1>4 DEF Immediate, Running, At
  <2>2. SinkTypeOK'
    BY <1>1, <1>2, <1>4 DEF Immediate, SinkTypeOK
  <2>3. AloneIsOnly'
    BY <1>1, <2>1 DEF AloneIsOnly
  <2>4. AloneWillStore'
    <3> SUFFICES ASSUME NEW v \in Running
                 PROVE  /\ writes[v].captured <= version'
                        /\ writes[v].alone /\ At(v, "append") => writes[v].sequence = stored.sequence + 1
      BY <2>1 DEF AloneWillStore, At
    <3>1. writes[v] \in Slot
      BY <1>1, SinkFacts
    <3> QED
      BY <1>1, <1>2, <3>1 DEF AloneWillStore, Slot
  <2>5. FlushWaits'
    <3>1. flush # None => flush.upTo \in 0 .. MaxVersion
      BY <1>1, SinkFacts DEF Flushes
    <3> QED
      BY <1>1, <1>2, <2>1, <3>1 DEF FlushWaits, Intact
  <2>6. QuietMeansCheckpointed' /\ FlushCovers'
    BY <2>1 DEF QuietMeansCheckpointed, FlushCovers, Intact
  <2> QED
    BY <1>3, <2>2, <2>3, <2>4, <2>5, <2>6 DEF SinkInv
<1>5. CASE ~ disposed
  <2>1. StartWrite(w) /\ timer' = FALSE
    BY <1>5 DEF Immediate
  <2>2. SinkTypeOK'
    BY <1>1, <1>2, <2>1, StartFacts DEF Immediate, SinkTypeOK, Slot
  <2>3. AloneIsOnly' /\ AloneWillStore' /\ QuietMeansCheckpointed'
    BY <1>2, <2>1, StartKeeps DEF Immediate
  <2>4. FlushWaits'
    BY <1>2, <2>1, StartKeepsFlush DEF Immediate
  <2>5. FlushCovers'
    BY <1>1, <2>1, StartFacts DEF Immediate, FlushCovers, Intact
  <2> QED
    BY <1>3, <2>2, <2>3, <2>4, <2>5 DEF SinkInv
<1> QED
  BY <1>4, <1>5

LEMMA FlushKeeps == ASSUME SinkInv, NEW w \in Write, Flush(w) PROVE SinkInv'
<1>1. /\ SinkTypeOK /\ AloneIsOnly /\ AloneWillStore /\ QuietMeansCheckpointed /\ FlushCovers
      /\ stored.version <= version /\ promised <= version
  BY DEF SinkInv
<1>2. version' \in version .. MaxVersion /\ version \in 0 .. MaxVersion /\ version' = version
  BY <1>1, SinkFacts DEF Flush
<1>3. /\ writes' \in [Write -> Slot] /\ inflight' \in Write \cup {None}
      /\ clean' \in BOOLEAN /\ (clean' => clean)
  BY <1>1, SinkFacts, StartFacts DEF Flush
<1>4. Awaited(w) \in Write \cup {None}
  BY <1>1, SinkFacts DEF Awaited
<1>5. /\ flush' = [waits |-> Awaited(w), upTo |-> version] /\ flush' \in Flushes
      /\ flush'.waits = Awaited(w) /\ flush'.upTo = version
  <2> PICK a \in Write \cup {None} : a = Awaited(w)
    BY <1>4
  <2>1. flush' = [waits |-> a, upTo |-> version]
    BY DEF Flush
  <2> QED
    BY <1>2, <2>1 DEF Flushes
<1>6. SinkTypeOK'
  BY <1>1, <1>3, <1>5 DEF Flush, SinkTypeOK, Slot, Flushes
<1>7. FlushCovers' /\ stored'.version <= version' /\ promised' <= version'
  BY <1>1, <1>3 DEF Flush, FlushCovers, Intact
<1>8. CASE timer
  <2>1. StartWrite(w)
    BY <1>8 DEF Flush
  <2>2. AloneIsOnly' /\ AloneWillStore' /\ QuietMeansCheckpointed'
    BY <1>2, <2>1, StartKeeps DEF Flush
  <2>3. FlushWaits'
    <3>1. CASE leased
      <4>1. Awaited(w) = w /\ w \in Running' /\ w # None
        BY <1>8, <2>1, <3>1, StartFacts DEF Awaited
      <4> QED
        BY <1>2, <1>5, <4>1 DEF FlushWaits
    <3>2. CASE ~ leased
      <4>1. Awaited(w) = inflight /\ Running' = Running /\ ~ Intact'
        BY <2>1, <3>2, StartFacts DEF Awaited, Running, At, Flush, Intact
      <4> QED
        BY <1>1, <1>2, <1>5, <4>1 DEF FlushWaits, AloneIsOnly
    <3> QED
      BY <3>1, <3>2
  <2> QED
    BY <1>6, <1>7, <2>2, <2>3 DEF SinkInv
<1>9. CASE ~ timer
  <2>1. /\ UNCHANGED <<writes, inflight, clean, version, stored, promised, disposed, leased>>
        /\ timer' = timer /\ Awaited(w) = inflight
    BY <1>1, <1>9, SinkFacts DEF Flush, Awaited
  <2>2. Running' = Running /\ Intact' = Intact
    BY <2>1 DEF Running, At, Intact
  <2>3. AloneIsOnly' /\ QuietMeansCheckpointed'
    BY <1>1, <2>1, <2>2 DEF AloneIsOnly, QuietMeansCheckpointed
  <2>4. AloneWillStore'
    BY <1>1, <1>5, <1>9, <2>1, <2>2 DEF AloneWillStore, WillStore, At
  <2>5. FlushWaits'
    <3>1. ASSUME Intact, inflight = None PROVE stored.version >= version
      <4>1. Running = {}
        BY <1>1, <3>1, SinkFacts DEF AloneIsOnly, Intact
      <4> QED
        BY <1>1, <1>2, <1>9, <3>1, <4>1 DEF QuietMeansCheckpointed
    <3> QED
      BY <1>1, <1>2, <1>5, <2>1, <2>2, <3>1 DEF FlushWaits, AloneIsOnly
  <2> QED
    BY <1>6, <1>7, <2>3, <2>4, <2>5 DEF SinkInv
<1> QED
  BY <1>8, <1>9

-----------------------------------------------------------------------------
(* A write goes on. *)

\* A write that moves on without ending: the others, and whether it is alone, stay.
LEMMA MoveKeeps ==
    ASSUME SinkInv, NEW w \in Running, NEW r \in Slot, writes' = [writes EXCEPT ![w] = r],
           r.pc # "idle", r.alone = writes[w].alone, r.captured <= version,
           r.alone /\ r.pc = "append" => r.sequence = stored.sequence + 1,
           \A upTo \in 0 .. version : WillStore(w, upTo) => r.captured >= upTo,
           UNCHANGED <<version, timer, inflight, stored, flush, promised, disposed, leased, clean>>
    PROVE  SinkInv'
<1>1. /\ SinkTypeOK /\ AloneIsOnly /\ AloneWillStore /\ QuietMeansCheckpointed /\ FlushWaits
      /\ FlushCovers /\ stored.version <= version /\ promised <= version
  BY DEF SinkInv
<1>2. writes \in [Write -> Slot] /\ w \in Write
  BY <1>1, SinkFacts
<1>3. /\ writes' \in [Write -> Slot] /\ writes'[w] = r
      /\ \A v \in Write : v # w => writes'[v] = writes[v]
  BY <1>2
<1>4. Running' = Running /\ Intact' = Intact
  BY <1>2, <1>3, SinkFacts DEF Running, At, Intact
<1>5. SinkTypeOK'
  BY <1>1, <1>3 DEF SinkTypeOK, Slot
<1>6. AloneIsOnly'
  <2>1. \A v \in Running : writes'[v].alone = writes[v].alone /\ v \in Write
    BY <1>1, <1>3, SinkFacts
  <2> QED
    BY <1>1, <1>4, <2>1 DEF AloneIsOnly
<1>7. AloneWillStore'
  <2> SUFFICES ASSUME NEW v \in Running
               PROVE  /\ writes'[v].captured <= version
                      /\ writes'[v].alone /\ At(v, "append")' => writes'[v].sequence = stored.sequence + 1
                      /\ writes'[v].alone /\ leased /\ ~ disposed =>
                             /\ ~ timer => WillStore(v, version)'
                             /\ flush # None => WillStore(v, flush.upTo)'
                             /\ WillStore(v, promised)'
    BY <1>4 DEF AloneWillStore, WillStore, At
  <2>1. v \in Write
    BY <1>1, SinkFacts
  <2>2. CASE v # w
    BY <1>1, <1>3, <2>1, <2>2 DEF AloneWillStore, WillStore, At
  <2>3. CASE v = w
    <3>1. version \in 0 .. version /\ promised \in 0 .. version
      BY <1>1, SinkFacts
    <3>2. flush # None => flush.upTo \in 0 .. version
      BY <1>1, SinkFacts DEF FlushWaits, Flushes
    <3>3. ASSUME writes[w].alone, leased, ~ disposed
          PROVE  /\ ~ timer => r.captured >= version
                 /\ flush # None => r.captured >= flush.upTo
                 /\ r.captured >= promised
      BY <1>1, <3>1, <3>2, <3>3 DEF AloneWillStore
    <3> QED
      BY <1>3, <2>3, <3>3 DEF WillStore, At
  <2> QED
    BY <2>2, <2>3
<1>8. /\ QuietMeansCheckpointed' /\ FlushWaits' /\ FlushCovers'
      /\ stored'.version <= version' /\ promised' <= version'
  BY <1>1, <1>4 DEF QuietMeansCheckpointed, FlushWaits, FlushCovers
<1> QED
  BY <1>5, <1>6, <1>7, <1>8 DEF SinkInv

LEMMA CaptureKeeps == ASSUME SinkInv, NEW w \in Write, Capture(w) PROVE SinkInv'
<1>1. SinkTypeOK
  BY DEF SinkInv
<1>2. /\ writes[w] \in Slot /\ writes[w].pc = "capture" /\ w \in Running
      /\ version \in 0 .. MaxVersion
  BY <1>1, SinkFacts DEF Capture, At
<1> PICK r : r = [writes[w] EXCEPT !.pc = "load", !.captured = version]
  OBVIOUS
<1>3. r \in Slot /\ r.pc = "load" /\ r.captured = version /\ r.alone = writes[w].alone
  BY <1>2 DEF Slot
<1>4. writes' = [writes EXCEPT ![w] = r]
  BY DEF Capture
<1>5. \A upTo \in 0 .. version : r.captured >= upTo
  BY <1>2, <1>3
<1>6. r.captured <= version
  BY <1>2, <1>3
<1> QED
  BY <1>2, <1>3, <1>4, <1>5, <1>6, MoveKeeps DEF Capture

LEMMA LoadKeeps == ASSUME SinkInv, NEW w \in Write, Load(w) PROVE SinkInv'
<1>1. SinkTypeOK /\ AloneWillStore
  BY DEF SinkInv
<1>2. /\ writes[w] \in Slot /\ writes[w].pc = "load" /\ w \in Running
      /\ stored \in Saved
  BY <1>1, SinkFacts DEF Load, At
<1> PICK n \in Nat : n = stored.sequence + 1
  BY <1>2 DEF Saved
<1> PICK r : r = [writes[w] EXCEPT !.pc = "append", !.sequence = n]
  OBVIOUS
<1>3. /\ r \in Slot /\ r.pc = "append" /\ r.sequence = n
      /\ r.captured = writes[w].captured /\ r.alone = writes[w].alone
  BY <1>2 DEF Slot
<1>4. writes' = [writes EXCEPT ![w] = r]
  BY DEF Load, NextSequence
<1>5. \A upTo \in 0 .. version : WillStore(w, upTo) => r.captured >= upTo
  BY <1>2, <1>3 DEF WillStore, At
<1>6. r.captured <= version
  BY <1>1, <1>2, <1>3 DEF AloneWillStore
<1> QED
  BY <1>2, <1>3, <1>4, <1>5, <1>6, MoveKeeps DEF Load

\* A write ends: if it, or another one, was alone, none is left.
LEMMA FinishFacts ==
    ASSUME SinkInv, NEW w \in Running, Finish(w)
    PROVE  /\ writes' \in [Write -> Slot] /\ inflight' = None
           /\ Running' = Running \ {w}
           /\ \A v \in Running' : ~ writes[v].alone /\ writes'[v] = writes[v]
           /\ writes[w].alone => Running' = {}
           /\ flush' \in Flushes
           /\ flush' # None => /\ flush # None /\ flush'.upTo = flush.upTo
                               /\ flush.waits = w => flush'.waits = None
                               /\ flush.waits # w => flush'.waits = flush.waits
<1>1. SinkTypeOK /\ AloneIsOnly
  BY DEF SinkInv
<1>2. /\ writes \in [Write -> Slot] /\ writes' = [writes EXCEPT ![w] = Idle] /\ Idle \in Slot
      /\ w \in Write
  BY <1>1, SinkFacts DEF Finish, Slot, Idle
<1>3. /\ writes' \in [Write -> Slot] /\ writes'[w].pc = "idle"
      /\ \A v \in Write : v # w => writes'[v] = writes[v]
  BY <1>2 DEF Idle
<1>4. Running' = Running \ {w}
  BY <1>3 DEF Running, At
<1>5. \A v \in Running' : ~ writes[v].alone /\ writes'[v] = writes[v]
  BY <1>1, <1>3, <1>4, SinkFacts DEF AloneIsOnly
<1>6. writes[w].alone => Running' = {}
  BY <1>1, <1>4 DEF AloneIsOnly
<1>7. flush \in Flushes
  BY <1>1, SinkFacts
<1>8. /\ flush' \in Flushes
      /\ flush' # None => /\ flush # None /\ flush'.upTo = flush.upTo
                          /\ flush.waits = w => flush'.waits = None
                          /\ flush.waits # w => flush'.waits = flush.waits
  <2>1. CASE flush # None /\ flush.waits = w
    <3> PICK f \in [waits : Write \cup {None}, upTo : 0 .. MaxVersion] : f = flush
      BY <1>7, <2>1 DEF Flushes
    <3>1. flush' = [f EXCEPT !.waits = None]
      BY <2>1 DEF Finish
    <3> QED
      BY <2>1, <3>1 DEF Flushes
  <2>2. CASE ~ (flush # None /\ flush.waits = w)
    BY <1>7, <2>2 DEF Finish
  <2> QED
    BY <2>1, <2>2
<1> QED
  BY <1>3, <1>4, <1>5, <1>6, <1>8 DEF Finish

\* What a write leaves to those that still run, whatever it stored itself.
LEMMA FinishKeeps ==
    ASSUME SinkInv, NEW w \in Running, Finish(w),
           stored' \in Saved, stored'.version <= version, clean' \in BOOLEAN,
           clean' => writes[w].alone
    PROVE  /\ SinkTypeOK' /\ AloneIsOnly' /\ AloneWillStore'
           /\ stored'.version <= version' /\ promised' <= version'
<1>1. SinkTypeOK /\ AloneIsOnly /\ AloneWillStore /\ promised <= version
  BY DEF SinkInv
<1>2. /\ writes' \in [Write -> Slot] /\ inflight' = None /\ flush' \in Flushes
      /\ Running' = Running \ {w}
      /\ \A v \in Running' : ~ writes[v].alone /\ writes'[v] = writes[v]
      /\ writes[w].alone => Running' = {}
  BY FinishFacts, Zenon
<1>3. SinkTypeOK'
  BY <1>1, <1>2 DEF Finish, SinkTypeOK, Slot, Saved, Flushes
<1>4. AloneIsOnly'
  BY <1>2 DEF AloneIsOnly
<1>5. AloneWillStore'
  BY <1>1, <1>2 DEF Finish, AloneWillStore
<1> QED
  BY <1>1, <1>3, <1>4, <1>5 DEF Finish

LEMMA AppendKeeps == ASSUME SinkInv, NEW w \in Write, AppendCheckpoint(w) PROVE SinkInv'
<1>1. /\ SinkTypeOK /\ AloneIsOnly /\ AloneWillStore /\ QuietMeansCheckpointed /\ FlushWaits
      /\ FlushCovers /\ stored.version <= version /\ promised <= version
  BY DEF SinkInv
<1> DEFINE accepted == leased /\ writes[w].sequence = stored.sequence + 1
<1>2. /\ Finish(w) /\ writes[w].pc = "append" /\ w \in Running /\ writes[w] \in Slot
      /\ stored \in Saved /\ version \in 0 .. MaxVersion /\ clean \in BOOLEAN
      /\ promised \in 0 .. MaxVersion
  BY <1>1, SinkFacts DEF AppendCheckpoint, At
<1>3. /\ stored' = IF accepted THEN [sequence |-> writes[w].sequence, version |-> writes[w].captured]
                               ELSE stored
      /\ clean' = (clean \/ (writes[w].alone /\ accepted))
  BY DEF AppendCheckpoint
<1>4. writes[w].captured <= version
  BY <1>1, <1>2 DEF AloneWillStore
<1>5. stored' \in Saved /\ stored'.version <= version
  BY <1>1, <1>2, <1>3, <1>4 DEF Saved, Slot
<1>6. clean' \in BOOLEAN /\ (clean' => writes[w].alone)
  BY <1>1, <1>2, <1>3 DEF AloneIsOnly, Slot
<1>7. /\ SinkTypeOK' /\ AloneIsOnly' /\ AloneWillStore'
      /\ stored'.version <= version' /\ promised' <= version'
  BY <1>2, <1>5, <1>6, FinishKeeps
<1>8. UNCHANGED <<version, timer, promised, disposed, leased>>
  BY <1>2 DEF Finish
<1>9. ASSUME Intact'
      PROVE  /\ writes[w].alone /\ leased /\ ~ disposed /\ Running' = {}
             /\ stored'.version = writes[w].captured /\ ~ At(w, "capture")
  <2>1. writes[w].alone /\ leased /\ ~ disposed
    BY <1>6, <1>8, <1>9 DEF Intact
  <2>2. accepted
    BY <1>1, <1>2, <2>1 DEF AloneWillStore, At
  <2> QED
    BY <1>2, <1>3, <2>1, <2>2, FinishFacts DEF At
<1> HIDE DEF accepted
<1>10. QuietMeansCheckpointed'
  <2> SUFFICES ASSUME Intact', ~ timer PROVE stored'.version = version
    BY <1>8 DEF QuietMeansCheckpointed
  <2>1. writes[w].captured >= version
    BY <1>1, <1>2, <1>9 DEF AloneWillStore, WillStore
  <2> QED
    BY <1>2, <1>5, <1>9, <2>1 DEF Saved
<1>11. FlushWaits'
  <2> SUFFICES ASSUME flush' # None
               PROVE  /\ flush'.upTo <= version
                      /\ flush'.waits # None => flush'.waits \in Running'
                      /\ Intact' /\ flush'.waits = None => stored'.version >= flush'.upTo
    BY <1>8 DEF FlushWaits
  <2>1. /\ flush # None /\ flush'.upTo = flush.upTo
        /\ flush.waits = w => flush'.waits = None
        /\ flush.waits # w => flush'.waits = flush.waits
        /\ Running' = Running \ {w}
    BY <1>2, FinishFacts
  <2>2. flush.upTo <= version /\ (flush.waits # None => flush.waits \in Running)
    BY <1>1, <2>1 DEF FlushWaits
  <2>3. Intact' => writes[w].captured >= flush.upTo
    BY <1>1, <1>2, <1>9, <2>1 DEF AloneWillStore, WillStore
  <2> QED
    BY <1>9, <2>1, <2>2, <2>3
<1>12. FlushCovers'
  <2> SUFFICES ASSUME Intact' PROVE stored'.version >= promised
    BY <1>8 DEF FlushCovers
  <2>1. writes[w].captured >= promised
    BY <1>1, <1>2, <1>9 DEF AloneWillStore, WillStore
  <2> QED
    BY <1>9, <2>1
<1> QED
  BY <1>7, <1>10, <1>11, <1>12 DEF SinkInv

LEMMA GiveUpKeeps == ASSUME SinkInv, NEW w \in Write, GiveUp(w) PROVE SinkInv'
<1>1. SinkTypeOK /\ FlushWaits /\ stored.version <= version
  BY DEF SinkInv
<1>2. Finish(w) /\ w \in Running /\ ~ clean' /\ ~ Intact' /\ stored' = stored /\ clean' \in BOOLEAN
  BY DEF GiveUp, Intact
<1>3. /\ SinkTypeOK' /\ AloneIsOnly' /\ AloneWillStore'
      /\ stored'.version <= version' /\ promised' <= version'
  BY <1>1, <1>2, SinkFacts, FinishKeeps
<1>4. FlushWaits'
  <2> SUFFICES ASSUME flush' # None
               PROVE  flush'.upTo <= version' /\ (flush'.waits # None => flush'.waits \in Running')
    BY <1>2 DEF FlushWaits
  <2>1. /\ flush # None /\ flush'.upTo = flush.upTo
        /\ flush.waits = w => flush'.waits = None
        /\ flush.waits # w => flush'.waits = flush.waits
        /\ Running' = Running \ {w}
    BY <1>2, FinishFacts
  <2> QED
    BY <1>1, <1>2, <2>1 DEF FlushWaits, Finish
<1> QED
  BY <1>2, <1>3, <1>4 DEF SinkInv, QuietMeansCheckpointed, FlushCovers

-----------------------------------------------------------------------------
(* What no write does. *)

LEMMA LifecycleKeeps == ASSUME SinkInv, Lifecycle PROVE SinkInv'
<1>1. /\ SinkTypeOK /\ AloneIsOnly /\ AloneWillStore /\ QuietMeansCheckpointed /\ FlushWaits
      /\ FlushCovers /\ stored.version <= version /\ promised <= version
  BY DEF SinkInv
<1>2. /\ version' = version + 1 /\ version' \in 0 .. MaxVersion /\ version \in Nat
      /\ timer' = ~ disposed
      /\ UNCHANGED <<writes, inflight, stored, flush, promised, disposed, leased, clean>>
  BY <1>1, SinkFacts DEF Lifecycle
<1>3. SinkTypeOK'
  <2>1. timer' \in BOOLEAN
    BY <1>1, <1>2, SinkFacts
  <2> QED
    BY <1>1, <1>2, <2>1 DEF SinkTypeOK
<1>4. Running' = Running /\ Intact' = Intact
  BY <1>2 DEF Running, At, Intact
<1>5. AloneIsOnly'
  BY <1>1, <1>2, <1>4 DEF AloneIsOnly
<1>6. AloneWillStore'
  <2> SUFFICES ASSUME NEW v \in Running
               PROVE  /\ writes[v].captured <= version'
                      /\ writes[v].alone /\ At(v, "append") => writes[v].sequence = stored.sequence + 1
                      /\ writes[v].alone /\ leased /\ ~ disposed =>
                             /\ flush # None => WillStore(v, flush.upTo)
                             /\ WillStore(v, promised)
    BY <1>2, <1>4 DEF AloneWillStore, WillStore, At
  <2>1. writes[v].captured \in 0 .. MaxVersion
    BY <1>1, SinkFacts DEF Slot
  <2> QED
    BY <1>1, <1>2, <2>1 DEF AloneWillStore
<1>7. QuietMeansCheckpointed' /\ FlushCovers'
  BY <1>1, <1>2, <1>4 DEF QuietMeansCheckpointed, FlushCovers, Intact
<1>8. FlushWaits'
  <2>1. flush # None => flush.upTo \in 0 .. MaxVersion
    BY <1>1, SinkFacts DEF Flushes
  <2> QED
    BY <1>1, <1>2, <1>4, <2>1 DEF FlushWaits
<1>9. stored'.version <= version' /\ promised' <= version'
  BY <1>1, <1>2, SinkFacts DEF Saved
<1> QED
  BY <1>3, <1>5, <1>6, <1>7, <1>8, <1>9 DEF SinkInv

LEMMA FlushDoneKeeps == ASSUME SinkInv, FlushDone PROVE SinkInv'
<1>1. /\ SinkTypeOK /\ AloneIsOnly /\ AloneWillStore /\ QuietMeansCheckpointed /\ FlushWaits
      /\ stored.version <= version
  BY DEF SinkInv
<1>2. /\ Running' = Running /\ Intact' = Intact /\ flush' = None /\ flush # None
      /\ promised' = flush.upTo /\ flush.waits = None
      /\ UNCHANGED <<version, timer, writes, inflight, stored, disposed, leased, clean>>
  BY DEF FlushDone, Running, At, Intact
<1>3. SinkTypeOK'
  <2>1. flush.upTo \in 0 .. MaxVersion
    BY <1>1, <1>2, SinkFacts DEF Flushes
  <2> QED
    BY <1>1, <1>2, <2>1 DEF SinkTypeOK
<1>4. AloneIsOnly' /\ QuietMeansCheckpointed'
  BY <1>1, <1>2 DEF AloneIsOnly, QuietMeansCheckpointed
<1>5. AloneWillStore'
  BY <1>1, <1>2 DEF AloneWillStore, WillStore, At
<1>6. FlushWaits' /\ FlushCovers' /\ promised' <= version' /\ stored'.version <= version'
  BY <1>1, <1>2 DEF FlushWaits, FlushCovers
<1> QED
  BY <1>3, <1>4, <1>5, <1>6 DEF SinkInv

LEMMA EndKeeps == ASSUME SinkInv, DisposeSink \/ LoseLease PROVE SinkInv'
<1>1. /\ UNCHANGED <<version, writes, inflight, stored, flush, promised, clean>>
      /\ disposed' \/ ~ leased'
      /\ ~ Intact' /\ Running' = Running
  BY DEF DisposeSink, LoseLease, Intact, Running, At
<1>2. SinkTypeOK'
  BY DEF SinkInv, SinkTypeOK, DisposeSink, LoseLease
<1>3. AloneIsOnly' /\ AloneWillStore'
  BY <1>1 DEF SinkInv, AloneIsOnly, AloneWillStore, At
<1>4. FlushWaits' /\ QuietMeansCheckpointed' /\ FlushCovers'
  BY <1>1 DEF SinkInv, FlushWaits, QuietMeansCheckpointed, FlushCovers
<1> QED
  BY <1>1, <1>2, <1>3, <1>4 DEF SinkInv

-----------------------------------------------------------------------------

LEMMA SinkStepKeeps == SinkInv /\ [SinkNext]_sinkVars => SinkInv'
<1> SUFFICES ASSUME SinkInv, [SinkNext]_sinkVars PROVE SinkInv'
  OBVIOUS
<1>1. CASE UNCHANGED sinkVars
  <2>1. Running' = Running /\ Intact' = Intact
    BY <1>1 DEF sinkVars, Running, At, Intact
  <2> QED
    BY <1>1, <2>1 DEF sinkVars, SinkInv, SinkTypeOK, AloneIsOnly, AloneWillStore,
       QuietMeansCheckpointed, FlushWaits, FlushCovers, WillStore, At
<1>2. ASSUME NEW w \in Write,
             \/ Immediate(w) \/ Fire(w) \/ Flush(w)
             \/ Capture(w) \/ Load(w) \/ AppendCheckpoint(w) \/ GiveUp(w)
      PROVE  SinkInv'
  BY <1>2, ImmediateKeeps, FireKeeps, FlushKeeps, CaptureKeeps, LoadKeeps, AppendKeeps, GiveUpKeeps
<1>3. CASE Lifecycle \/ FlushDone \/ DisposeSink \/ LoseLease
  BY <1>3, LifecycleKeeps, FlushDoneKeeps, EndKeeps
<1> QED
  BY <1>1, <1>2, <1>3 DEF SinkNext

LEMMA Invariance == SinkSpec => []SinkInv
<1> QED
  BY SinkInitHolds, SinkStepKeeps, PTL DEF SinkSpec

\* With no timer running and no write under way the latest checkpoint holds the last
\* event, as long as the lease is held and every write that failed or overlapped another
\* has since been followed by one that ran alone and was stored: no event is left behind
\* in the debouncer (onEvent, writeCheckpoint).
THEOREM QuietIsCheckpointed == SinkSpec => []QuietMeansCheckpointed
<1>1. SinkInv => QuietMeansCheckpointed
  BY DEF SinkInv
<1> QED
  BY <1>1, Invariance, PTL

\* When flush has returned, the events before its call are in the store, whether it
\* started the write or awaited one, and whatever failed or overlapped before the last
\* write that ran alone (flush, pendingCount).
THEOREM FlushSaves == SinkSpec => []FlushCovers
<1>1. SinkInv => FlushCovers
  BY DEF SinkInv
<1> QED
  BY <1>1, Invariance, PTL

=============================================================================
