--------------------------- MODULE StrategyProofs ---------------------------
(***************************************************************************)
(* Proofs about StrategyExecutor, for every set of strategies, whatever    *)
(* their nodes, gates, retries and calls, and every maxParallel.           *)
(***************************************************************************)
EXTENDS StrategyExecutor, FiniteSetTheorems, SequenceTheorems, WellFoundedInduction, TLAPS

-----------------------------------------------------------------------------
(* Induction over the natural numbers, with a set for the induction        *)
(* hypothesis, and sums over finite sets.                                  *)

LEMMA NatOrder ==
    \E R : IsWellFoundedOn(R, Nat) /\ \A x, y \in Nat : x < y => <<x, y>> \in R
<1> DEFINE R == OpToRel(<, Nat)
<1>1. IsWellFoundedOn(R, Nat)
  BY NatLessThanWellFounded
<1>2. \A x, y \in Nat : x < y => <<x, y>> \in R
  BY DEF OpToRel
<1> HIDE DEF R
<1> QED
  BY <1>1, <1>2

LEMMA LeastNat ==
    ASSUME NEW T, T \subseteq Nat, T # {}
    PROVE  \E x \in T : \A y \in T : x <= y
<1>1. PICK R : IsWellFoundedOn(R, Nat) /\ \A x, y \in Nat : x < y => <<x, y>> \in R
  BY NatOrder
<1>2. IsWellFoundedOn(R, Nat)
  BY <1>1
<1>3. PICK x \in T : \A y \in T : ~ (<<y, x>> \in R)
  BY <1>2, WFMin, Zenon
<1>4. ASSUME NEW y \in Nat, ~ (<<y, x>> \in R) PROVE x <= y
  BY <1>1, <1>4
<1>5. \A y \in T : x <= y
  BY <1>3, <1>4
<1> QED
  BY <1>5

LEMMA NatInductionSet ==
    ASSUME NEW T, 0 \in T, \A n \in Nat : n \in T => n + 1 \in T
    PROVE  Nat \subseteq T
<1> SUFFICES ASSUME Nat \ T # {} PROVE FALSE
  OBVIOUS
<1>1. PICK n \in Nat \ T : \A m \in Nat \ T : n <= m
  BY LeastNat
<1>2. n - 1 \in Nat /\ n - 1 \in T
  BY <1>1
<1> QED
  BY <1>2

Pick(s) == CHOOSE x \in s : TRUE

LEMMA Pickable ==
    ASSUME NEW s, IsFiniteSet(s), NEW n \in Nat, Cardinality(s) = n + 1
    PROVE  s # {} /\ Pick(s) \in s /\ \A x \in s : Cardinality(s \ {x}) = n
<1>1. s # {}
  BY FS_EmptySet
<1>2. \A x \in s : Cardinality(s \ {x}) = Cardinality(s) - 1
  BY FS_RemoveElement
<1> QED
  BY <1>1, <1>2 DEF Pick

\* g sums f over the sets of D.
Sums(g, f, D) ==
    \A s \in D : g[s] = IF s = {} THEN 0 ELSE f[Pick(s)] + g[s \ {Pick(s)}]

LEMMA SumsExist ==
    ASSUME NEW S, IsFiniteSet(S), NEW f, \A x \in S : f[x] \in Nat
    PROVE  \E g \in [SUBSET S -> Nat] : Sums(g, f, SUBSET S)
<1> DEFINE Upto(n) == {s \in SUBSET S : Cardinality(s) <= n}
           T == {n \in Nat : \E g \in [Upto(n) -> Nat] : Sums(g, f, Upto(n))}
<1>1. \A s \in SUBSET S : IsFiniteSet(s) /\ Cardinality(s) \in Nat /\ Cardinality(s) <= Cardinality(S)
  BY FS_Subset, FS_CardinalityType
<1>2. \A s \in SUBSET S : s # {} =>
        /\ Pick(s) \in s
        /\ s \ {Pick(s)} \in SUBSET S
        /\ Cardinality(s \ {Pick(s)}) = Cardinality(s) - 1
  BY <1>1, FS_RemoveElement DEF Pick
<1>3. 0 \in T
  <2>1. \A s \in Upto(0) : s = {}
    BY <1>1, FS_EmptySet
  <2>2. [s \in Upto(0) |-> 0] \in [Upto(0) -> Nat] /\ Sums([s \in Upto(0) |-> 0], f, Upto(0))
    BY <2>1 DEF Sums
  <2> QED
    BY <2>2
<1>4. ASSUME NEW n \in Nat, n \in T PROVE n + 1 \in T
  <2>1. PICK g \in [Upto(n) -> Nat] : Sums(g, f, Upto(n))
    BY <1>4
  <2> DEFINE h == [s \in Upto(n + 1) |-> IF s = {} THEN 0 ELSE f[Pick(s)] + g[s \ {Pick(s)}]]
  <2>2. \A s \in Upto(n + 1) : s # {} => s \ {Pick(s)} \in Upto(n) /\ f[Pick(s)] \in Nat
    BY <1>1, <1>2
  <2>3. h \in [Upto(n + 1) -> Nat]
    BY <2>2
  <2>4. \A s \in Upto(n) : s \in Upto(n + 1) /\ h[s] = g[s]
    BY <1>1, <2>1 DEF Sums
  <2>5. ASSUME NEW s \in Upto(n + 1)
        PROVE  h[s] = IF s = {} THEN 0 ELSE f[Pick(s)] + h[s \ {Pick(s)}]
    BY <2>2, <2>4
  <2> HIDE DEF h
  <2>6. Sums(h, f, Upto(n + 1))
    BY <2>5 DEF Sums
  <2> HIDE DEF Upto
  <2> QED
    BY <2>3, <2>6
<1>5. Cardinality(S) \in T
  BY <1>1, <1>3, <1>4, NatInductionSet
<1>6. Upto(Cardinality(S)) = SUBSET S
  BY <1>1
<1> QED
  BY <1>5, <1>6

LEMMA SumIsSums ==
    ASSUME NEW S, IsFiniteSet(S), NEW f, \A x \in S : f[x] \in Nat
    PROVE  \E g \in [SUBSET S -> Nat] : Sums(g, f, SUBSET S) /\ SumFunctionOnSet(f, S) = g[S]
<1> DEFINE Body(g) == [s \in SUBSET S |-> IF s = {} THEN 0 ELSE f[Pick(s)] + g[s \ {Pick(s)}]]
           it == CHOOSE g : g = Body(g)
<1>1. PICK g \in [SUBSET S -> Nat] : Sums(g, f, SUBSET S)
  BY SumsExist
<1>2. g = Body(g)
  BY <1>1 DEF Sums
<1>3. it = Body(it)
  BY <1>2
<1>4. SumFunctionOnSet(f, S) = it[S]
  BY DEF SumFunctionOnSet, FoldFunctionOnSet, MapThenFoldSet, Pick
<1>5. DOMAIN it = SUBSET S /\ Sums(it, f, SUBSET S)
  BY <1>3 DEF Sums
<1> HIDE DEF it
<1> DEFINE T == {n \in Nat : \A s \in SUBSET S : Cardinality(s) = n => it[s] \in Nat}
<1>6. \A s \in SUBSET S : IsFiniteSet(s) /\ Cardinality(s) \in Nat
  BY FS_Subset, FS_CardinalityType
<1>7. 0 \in T
  BY <1>5, <1>6, FS_EmptySet DEF Sums
<1>8. ASSUME NEW n \in Nat, n \in T PROVE n + 1 \in T
  <2> SUFFICES ASSUME NEW s \in SUBSET S, Cardinality(s) = n + 1 PROVE it[s] \in Nat
    OBVIOUS
  <2>1. s # {} /\ Pick(s) \in s
    BY <1>6, Pickable
  <2>2. Cardinality(s \ {Pick(s)}) = n
    BY <1>6, Pickable
  <2>3. it[s \ {Pick(s)}] \in Nat /\ f[Pick(s)] \in Nat
    BY <1>8, <2>1, <2>2
  <2> QED
    BY <1>5, <2>1, <2>3 DEF Sums
<1>9. \A s \in SUBSET S : it[s] \in Nat
  BY <1>6, <1>7, <1>8, NatInductionSet
<1>10. it \in [SUBSET S -> Nat]
  BY <1>3, <1>5, <1>9
<1> QED
  BY <1>4, <1>5, <1>10

\* A sum may be taken in any order.
LEMMA SumsAnyOrder ==
    ASSUME NEW S, IsFiniteSet(S), NEW f, \A x \in S : f[x] \in Nat,
           NEW g \in [SUBSET S -> Nat], Sums(g, f, SUBSET S)
    PROVE  \A s \in SUBSET S : \A x \in s : g[s] = f[x] + g[s \ {x}]
<1> DEFINE T == {n \in Nat : \A s \in SUBSET S : Cardinality(s) = n =>
                                 \A x \in s : g[s] = f[x] + g[s \ {x}]}
<1>1. \A s \in SUBSET S : IsFiniteSet(s) /\ Cardinality(s) \in Nat
  BY FS_Subset, FS_CardinalityType
<1>2. 0 \in T
  BY <1>1, FS_EmptySet
<1>3. ASSUME NEW n \in Nat, n \in T PROVE n + 1 \in T
  <2> SUFFICES ASSUME NEW s \in SUBSET S, Cardinality(s) = n + 1, NEW x \in s
               PROVE  g[s] = f[x] + g[s \ {x}]
    OBVIOUS
  <2> DEFINE c == Pick(s)
  <2>1. c \in s
    BY DEF Pick
  <2>2. g[s] = f[c] + g[s \ {c}]
    BY <2>1 DEF Sums
  <2>3. CASE x = c
    BY <2>2, <2>3
  <2>4. CASE x # c
    <3>1. Cardinality(s \ {c}) = n /\ Cardinality(s \ {x}) = n
      BY <1>1, <2>1, Pickable
    <3>2. g[s \ {c}] = f[x] + g[(s \ {c}) \ {x}]
      BY <1>3, <2>1, <2>4, <3>1
    <3>3. g[s \ {x}] = f[c] + g[(s \ {x}) \ {c}]
      BY <1>3, <2>1, <2>4, <3>1
    <3>4. (s \ {c}) \ {x} = (s \ {x}) \ {c}
      OBVIOUS
    <3> DEFINE rest == g[(s \ {c}) \ {x}]
    <3>5. f[x] \in Nat /\ f[c] \in Nat /\ rest \in Nat
      BY <2>1
    <3>6. g[s] = f[c] + (f[x] + rest) /\ g[s \ {x}] = f[c] + rest
      BY <2>2, <3>2, <3>3, <3>4
    <3> HIDE DEF c, rest
    <3> QED
      BY <3>5, <3>6
  <2> QED
    BY <2>3, <2>4
<1>4. \A s \in SUBSET S : Cardinality(s) \in T
  BY <1>1, <1>2, <1>3, NatInductionSet
<1> QED
  BY <1>4

Alike(f, h, S) == \A x \in S : f[x] = h[x]

\* Only the values that are added count.
LEMMA SumsAgree ==
    ASSUME NEW S, IsFiniteSet(S), NEW f, NEW h, Alike(f, h, S),
           NEW g, Sums(g, f, SUBSET S), NEW k, Sums(k, h, SUBSET S)
    PROVE  g[S] = k[S]
<1> DEFINE T == {n \in Nat : \A s \in SUBSET S : Cardinality(s) = n => g[s] = k[s]}
<1>1. \A s \in SUBSET S : IsFiniteSet(s) /\ Cardinality(s) \in Nat
  BY FS_Subset, FS_CardinalityType
<1>2. 0 \in T
  BY <1>1, FS_EmptySet DEF Sums
<1>3. ASSUME NEW n \in Nat, n \in T PROVE n + 1 \in T
  <2> SUFFICES ASSUME NEW s \in SUBSET S, Cardinality(s) = n + 1 PROVE g[s] = k[s]
    OBVIOUS
  <2>1. s # {} /\ Pick(s) \in s
    BY <1>1, Pickable
  <2>2. Cardinality(s \ {Pick(s)}) = n
    BY <1>1, Pickable
  <2>3. g[s \ {Pick(s)}] = k[s \ {Pick(s)}] /\ f[Pick(s)] = h[Pick(s)]
    BY <1>3, <2>1, <2>2 DEF Alike
  <2> QED
    BY <2>1, <2>3 DEF Sums
<1>4. \A s \in SUBSET S : Cardinality(s) \in T
  BY <1>1, <1>2, <1>3, NatInductionSet
<1> QED
  BY <1>4


LEMMA SumEmpty == ASSUME NEW f PROVE SumFunctionOnSet(f, {}) = 0
<1>1. PICK g \in [SUBSET {} -> Nat] : Sums(g, f, SUBSET {}) /\ SumFunctionOnSet(f, {}) = g[{}]
  BY SumIsSums, FS_EmptySet
<1> QED
  BY <1>1 DEF Sums

LEMMA SumType ==
    ASSUME NEW S, IsFiniteSet(S), NEW f, \A x \in S : f[x] \in Nat
    PROVE  SumFunctionOnSet(f, S) \in Nat
<1>1. PICK g \in [SUBSET S -> Nat] : Sums(g, f, SUBSET S) /\ SumFunctionOnSet(f, S) = g[S]
  BY SumIsSums
<1> QED
  BY <1>1

LEMMA SumAgree ==
    ASSUME NEW S, IsFiniteSet(S), NEW f, NEW h, \A x \in S : f[x] = h[x] /\ f[x] \in Nat
    PROVE  SumFunctionOnSet(f, S) = SumFunctionOnSet(h, S)
<1>1. PICK g \in [SUBSET S -> Nat] : Sums(g, f, SUBSET S) /\ SumFunctionOnSet(f, S) = g[S]
  BY SumIsSums
<1>2. PICK k \in [SUBSET S -> Nat] : Sums(k, h, SUBSET S) /\ SumFunctionOnSet(h, S) = k[S]
  BY SumIsSums
<1>3. Alike(f, h, S)
  BY DEF Alike
<1>4. g[S] = k[S]
  BY <1>1, <1>2, <1>3, SumsAgree
<1> QED
  BY <1>1, <1>2, <1>4

LEMMA SumRemove ==
    ASSUME NEW S, IsFiniteSet(S), NEW f, \A x \in S : f[x] \in Nat, NEW x \in S
    PROVE  SumFunctionOnSet(f, S) = f[x] + SumFunctionOnSet(f, S \ {x})
<1> DEFINE R == S \ {x}
<1>1. IsFiniteSet(R) /\ R \subseteq S
  BY FS_RemoveElement
<1>2. PICK g \in [SUBSET S -> Nat] : Sums(g, f, SUBSET S) /\ SumFunctionOnSet(f, S) = g[S]
  BY SumIsSums
<1>3. PICK k \in [SUBSET R -> Nat] : Sums(k, f, SUBSET R) /\ SumFunctionOnSet(f, R) = k[R]
  BY <1>1, SumIsSums
<1>4. k[R] = g[R]
  <2>1. Alike(f, f, R)
    BY DEF Alike
  <2>2. Sums(g, f, SUBSET R)
    BY <1>2 DEF Sums
  <2> HIDE DEF R
  <2> QED
    BY <1>1, <1>3, <2>1, <2>2, SumsAgree
<1>5. g[S] = f[x] + g[R]
  BY <1>2, SumsAnyOrder
<1> QED
  BY <1>2, <1>3, <1>4, <1>5

\* One value of a sum changes.
LEMMA SumChange ==
    ASSUME NEW S, IsFiniteSet(S), NEW f, NEW h, NEW x \in S, NEW d \in Nat,
           \A y \in S : f[y] \in Nat,
           \A y \in S \ {x} : h[y] = f[y],
           h[x] = f[x] + d
    PROVE  SumFunctionOnSet(h, S) = SumFunctionOnSet(f, S) + d
<1>1. IsFiniteSet(S \ {x})
  BY FS_RemoveElement
<1>2. SumFunctionOnSet(h, S \ {x}) = SumFunctionOnSet(f, S \ {x})
  BY <1>1, SumAgree
<1>3. SumFunctionOnSet(h, S) = h[x] + SumFunctionOnSet(h, S \ {x})
  BY SumRemove
<1>4. SumFunctionOnSet(f, S) = f[x] + SumFunctionOnSet(f, S \ {x})
  BY SumRemove
<1>5. SumFunctionOnSet(f, S \ {x}) \in Nat
  BY <1>1, SumType
<1> QED
  BY <1>2, <1>3, <1>4, <1>5

LEMMA SumZero ==
    ASSUME NEW S, IsFiniteSet(S), NEW f, \A x \in S : f[x] = 0
    PROVE  SumFunctionOnSet(f, S) = 0
<1>0. \A x \in S : f[x] \in Nat
  OBVIOUS
<1>1. PICK g \in [SUBSET S -> Nat] : Sums(g, f, SUBSET S) /\ SumFunctionOnSet(f, S) = g[S]
  BY <1>0, SumIsSums
<1> DEFINE z == [s \in SUBSET S |-> 0]
<1>2. Sums(z, f, SUBSET S)
  <2>1. ASSUME NEW s \in SUBSET S, s # {} PROVE f[Pick(s)] = 0 /\ s \ {Pick(s)} \in SUBSET S
    BY <2>1 DEF Pick
  <2> QED
    BY <2>1 DEF Sums
<1>3. g[S] = z[S]
  <2>1. Alike(f, f, S)
    BY DEF Alike
  <2> HIDE DEF z
  <2> QED
    BY <1>1, <1>2, <2>1, SumsAgree
<1> QED
  BY <1>1, <1>3

-----------------------------------------------------------------------------
(* Paths: the names of runs. *)

LEMMA AppendPath ==
    ASSUME NEW r \in Seq(Node), NEW n \in Node
    PROVE  /\ Append(r, n) \in Seq(Node) /\ Append(r, n) # <<>>
           /\ Front(Append(r, n)) = r /\ Last(Append(r, n)) = n
           /\ Len(Append(r, n)) = Len(r) + 1
<1> DEFINE a == Append(r, n)
<1>1. a \in Seq(Node) /\ Len(a) = Len(r) + 1 /\ a[Len(r) + 1] = n /\ a # <<>>
      /\ \A i \in 1 .. Len(r) : a[i] = r[i]
  BY AppendProperties
<1>2. Len(r) \in Nat /\ \A i \in 1 .. Len(r) : r[i] \in Node
  BY LenProperties, ElementOfSeq
<1> HIDE DEF a
<1>3. \A i \in 1 .. Len(a) - 1 : a[i] \in Node
  BY <1>1, <1>2
<1>4. /\ SubSeq(a, 1, Len(a) - 1) \in Seq(Node)
      /\ Len(SubSeq(a, 1, Len(a) - 1)) = Len(r)
      /\ \A i \in 1 .. Len(r) : SubSeq(a, 1, Len(a) - 1)[i] = a[i]
  BY <1>1, <1>2, <1>3, SubSeqProperties
<1>5. SubSeq(a, 1, Len(a) - 1) = r
  BY <1>1, <1>4, SeqEqual
<1> QED
  BY <1>1, <1>5 DEF Front, Last, a

LEMMA FrontPath ==
    ASSUME NEW r \in Seq(Node), r # <<>>
    PROVE  /\ Front(r) \in Seq(Node) /\ Last(r) \in Node /\ Append(Front(r), Last(r)) = r
           /\ Len(r) \in Nat \ {0} /\ Len(Front(r)) = Len(r) - 1
<1>1. PICK s \in Seq(Node), n \in Node : r = Append(s, n)
  BY SequenceEmptyOrAppend
<1>2. Front(r) = s /\ Last(r) = n /\ Len(r) = Len(s) + 1
  BY <1>1, AppendPath
<1> QED
  BY <1>1, <1>2, LenProperties

LEMMA PrefixItself ==
    ASSUME NEW r \in Seq(Node)
    PROVE  IsPrefix(r, r) /\ IsPrefix(<<>>, r) /\ Len(r) \in Nat
<1>1. Len(r) \in Nat /\ Len(<<>>) = 0
  BY LenProperties, EmptySeq
<1>2. SubSeq(<<>>, 1, 0) = <<>> /\ SubSeq(r, 1, 0) = <<>>
  BY SubSeqEmpty
<1> QED
  BY <1>1, <1>2 DEF IsPrefix

\* A prefix, place by place.
LEMMA PrefixPlaces ==
    ASSUME NEW q \in Seq(Node), NEW r \in Seq(Node)
    PROVE  IsPrefix(q, r) <=> Len(q) <= Len(r) /\ \A i \in 1 .. Len(q) : q[i] = r[i]
<1>1. /\ Len(q) \in Nat /\ \A i \in 1 .. Len(q) : q[i] \in Node
      /\ Len(r) \in Nat /\ \A i \in 1 .. Len(r) : r[i] \in Node
  BY LenProperties, ElementOfSeq
<1>2. /\ SubSeq(q, 1, Len(q)) \in Seq(Node) /\ Len(SubSeq(q, 1, Len(q))) = Len(q)
      /\ \A i \in 1 .. Len(q) : SubSeq(q, 1, Len(q))[i] = q[i]
  BY <1>1, SubSeqProperties
<1>3. CASE Len(q) <= Len(r)
  <2>1. \A i \in 1 .. Len(q) : r[i] \in Node
    BY <1>1, <1>3
  <2>2. /\ SubSeq(r, 1, Len(q)) \in Seq(Node) /\ Len(SubSeq(r, 1, Len(q))) = Len(q)
        /\ \A i \in 1 .. Len(q) : SubSeq(r, 1, Len(q))[i] = r[i]
    BY <1>1, <2>1, SubSeqProperties
  <2>3. SubSeq(q, 1, Len(q)) = SubSeq(r, 1, Len(q))
        <=> \A i \in 1 .. Len(q) : SubSeq(q, 1, Len(q))[i] = SubSeq(r, 1, Len(q))[i]
    BY <1>2, <2>2, SeqEqual
  <2> QED
    BY <1>2, <1>3, <2>2, <2>3 DEF IsPrefix
<1>4. CASE ~ (Len(q) <= Len(r))
  BY <1>4 DEF IsPrefix
<1> QED
  BY <1>3, <1>4

LEMMA PrefixSame ==
    ASSUME NEW q \in Seq(Node), NEW r \in Seq(Node), IsPrefix(q, r), Len(q) = Len(r)
    PROVE  q = r
<1>1. \A i \in 1 .. Len(q) : q[i] = r[i]
  BY PrefixPlaces
<1> QED
  BY <1>1, SeqEqual

LEMMA PrefixAppend ==
    ASSUME NEW q \in Seq(Node), NEW r \in Seq(Node), NEW n \in Node, IsPrefix(q, r)
    PROVE  IsPrefix(q, Append(r, n))
<1>1. Len(q) \in Nat /\ Len(r) \in Nat
  BY LenProperties
<1>2. Append(r, n) \in Seq(Node) /\ Len(Append(r, n)) = Len(r) + 1
      /\ \A i \in 1 .. Len(r) : Append(r, n)[i] = r[i]
  BY AppendProperties
<1>3. Len(q) <= Len(r) /\ \A i \in 1 .. Len(q) : q[i] = r[i]
  BY PrefixPlaces
<1> DEFINE a == Append(r, n)
<1>4. a \in Seq(Node) /\ Len(q) <= Len(a) /\ \A i \in 1 .. Len(q) : q[i] = a[i]
  BY <1>1, <1>2, <1>3
<1> HIDE DEF a
<1>5. IsPrefix(q, a)
  BY <1>4, PrefixPlaces
<1> QED
  BY <1>5 DEF a

-----------------------------------------------------------------------------
(* What happens to the record of one run. *)

ApprovedIn(run) ==
    \A n \in Node : (Gate[n] = "human" /\ run.node[n].status = "completed") =>
        /\ run.node[n].approved.born = run.born
        /\ run.node[n].approved.attempt \in 1 .. run.node[n].attempt

Good(r, run) == run \in Run /\ RunShape(r, run) /\ ApprovedIn(run)

\* Only node n changes, it makes no attempt again, it asks in no session but the
\* run's, and its cost stays in the books or it has failed.
Moved(old, new, n) ==
    /\ new.strategy = old.strategy /\ new.status = old.status /\ new.born = old.born
    /\ new.chunk = old.chunk /\ new.cost = old.cost
    /\ \A m \in Node \ {n} : new.node[m] = old.node[m]
    /\ new.node[n].attempt >= old.node[n].attempt
    /\ new.node[n].asks \in {old.node[n].asks, old.session}
    /\ new.node[n].cost = old.node[n].cost \/ new.node[n].status = "failed"

LEMMA StateFields ==
    ASSUME NEW st \in State
    PROVE  /\ st.attempt \in Nat /\ st.cost \in Nat /\ st.seen \subseteq Node
           /\ st.approved \in [born : Nat, attempt : Nat] /\ st.asks \in Nat
           /\ st.status \in {"pending", "running", "calling", "inside", "asking"} \cup Settled
BY DEF State

LEMMA RunFields ==
    ASSUME NEW run \in Run
    PROVE  /\ run.node \in [Node -> State] /\ run.store \in [Name -> Node \cup {Nobody}]
           /\ run.strategy \in Strategy /\ run.status \in {"running", "gating"} \cup Over
           /\ run.passed \subseteq Node /\ run.chunk \subseteq Node
           /\ run.cost \in Nat /\ run.born \in Nat \ {0} /\ run.session \in Nat \ {0}
           /\ NodesOf[run.strategy] \subseteq Node
BY StrategyAssumption DEF Run

\* A state that node n of a chunk may go to.
Fits(run, n, st) ==
    /\ st \in State /\ st.status # "pending" /\ st.attempt >= 1
    /\ st.status \in {"calling", "inside"} => Calls[n] # NoStrategy
    /\ (Gate[n] = "human" /\ st.status = "completed") =>
           st.approved.born = run.born /\ st.approved.attempt \in 1 .. st.attempt
    /\ st.attempt >= run.node[n].attempt /\ st.asks \in {run.node[n].asks, run.session}
    /\ st.cost = run.node[n].cost \/ st.status = "failed"

Becomes(r, old, n, st, new) ==
    /\ Good(r, new) /\ Moved(old, new, n) /\ new.node[n] = st
    /\ new.session = old.session /\ new.passed = old.passed /\ new.store = old.store

\* A node of the chunk gets a new state.
LEMMA NodeSet ==
    ASSUME NEW r, NEW run, Good(r, run), NEW n \in run.chunk, NEW st, Fits(run, n, st)
    PROVE  Becomes(r, run, n, st, SetNode(run, n, st))
<1> DEFINE new == SetNode(run, n, st)
<1>1. run \in Run /\ n \in Node /\ n \in NodesOf[run.strategy]
  BY RunFields DEF Good, RunShape
<1>2. /\ new.node = [run.node EXCEPT ![n] = st]
      /\ new.strategy = run.strategy /\ new.status = run.status /\ new.passed = run.passed
      /\ new.chunk = run.chunk /\ new.store = run.store /\ new.cost = run.cost
      /\ new.born = run.born /\ new.session = run.session
  BY <1>1 DEF SetNode, Run
<1>3. new \in Run
  BY <1>1 DEF SetNode, Run, Fits
<1>4. new.node[n] = st /\ \A m \in Node \ {n} : new.node[m] = run.node[m]
  BY <1>1, <1>2, RunFields
<1> HIDE DEF new
<1>5. RunShape(r, new)
  BY <1>1, <1>2, <1>4 DEF Good, RunShape, Fits
<1>6. ApprovedIn(new)
  BY <1>1, <1>2, <1>4 DEF Good, ApprovedIn, Fits
<1>7. Good(r, new)
  BY <1>3, <1>5, <1>6 DEF Good
<1>8. Moved(run, new, n)
  BY <1>2, <1>4 DEF Moved, Fits
<1> QED
  BY <1>2, <1>4, <1>7, <1>8 DEF new, Becomes

LEMMA ChunkState ==
    ASSUME NEW r, NEW run, Good(r, run), NEW n \in run.chunk
    PROVE  /\ run \in Run /\ n \in Node /\ run.node[n] \in State
           /\ run.node[n].status # "pending" /\ run.node[n].attempt >= 1
           /\ run.status = "running" /\ n \in NodesOf[run.strategy]
BY RunFields DEF Good, RunShape

LEMMA FailedMoves ==
    ASSUME NEW r, NEW run, Good(r, run), NEW n \in run.chunk
    PROVE  /\ Good(r, Failed(run, n)) /\ Moved(run, Failed(run, n), n)
           /\ Failed(run, n).session = run.session /\ Failed(run, n).node[n].status = "failed"
<1> DEFINE st == [run.node[n] EXCEPT !.status = "failed", !.cost = IF Gate[n] = "none" THEN 0 ELSE @]
<1>0. /\ run \in Run /\ n \in Node /\ run.node[n] \in State /\ run.node[n].attempt >= 1
      /\ run.node[n].attempt \in Nat /\ run.node[n].cost \in Nat
  BY ChunkState, StateFields
<1>1. /\ st \in State /\ st.status = "failed" /\ st.attempt = run.node[n].attempt
      /\ st.asks = run.node[n].asks
  BY <1>0 DEF State, Settled
<1>2. Failed(run, n) = SetNode(run, n, st)
  BY DEF Failed
<1>F. Fits(run, n, st)
  BY <1>0, <1>1 DEF Fits, Settled
<1> HIDE DEF st
<1>3. /\ Good(r, SetNode(run, n, st)) /\ SetNode(run, n, st).node[n] = st
      /\ SetNode(run, n, st).session = run.session /\ Moved(run, SetNode(run, n, st), n)
  BY <1>F, NodeSet DEF Becomes
<1> QED
  BY <1>1, <1>2, <1>3

LEMMA SentBackMoves ==
    ASSUME NEW r, NEW run, Good(r, run), NEW n \in run.chunk
    PROVE  /\ Good(r, SentBack(run, n)) /\ Moved(run, SentBack(run, n), n)
           /\ SentBack(run, n).session = run.session
<1>0. /\ run \in Run /\ n \in Node /\ run.node[n] \in State /\ run.node[n].attempt >= 1
      /\ run.node[n].attempt \in Nat
  BY ChunkState, StateFields
<1>1. CASE run.node[n].attempt <= Retries[n]
  <2> DEFINE again == IF Calls[n] = NoStrategy THEN "running" ELSE "calling"
             st == [run.node[n] EXCEPT !.attempt = @ + 1, !.status = again]
  <2>0. again \in {"running", "calling"} /\ (again = "calling" => Calls[n] # NoStrategy)
    OBVIOUS
  <2>2. SentBack(run, n) = SetNode(run, n, st)
    BY <1>1 DEF SentBack
  <2> HIDE DEF again
  <2>1. /\ st \in State /\ st.status = again
        /\ st.attempt = run.node[n].attempt + 1 /\ st.cost = run.node[n].cost
        /\ st.asks = run.node[n].asks
    <3>1. again \in {"pending", "running", "calling", "inside", "asking"} \cup Settled
      BY <2>0
    <3>2. run.node[n].attempt + 1 \in Nat
      BY <1>0
    <3> HIDE <2>0
    <3> QED
      BY <1>0, <3>1, <3>2 DEF State
  <2>F. Fits(run, n, st)
    BY <1>0, <2>0, <2>1 DEF Fits, Settled
  <2> HIDE DEF st
  <2>3. /\ Good(r, SetNode(run, n, st)) /\ SetNode(run, n, st).node[n] = st
        /\ SetNode(run, n, st).session = run.session /\ Moved(run, SetNode(run, n, st), n)
    BY <2>F, NodeSet DEF Becomes
  <2> QED
    BY <2>2, <2>3
<1>2. CASE ~ (run.node[n].attempt <= Retries[n])
  <2> DEFINE st == [run.node[n] EXCEPT !.status = "gate_failed"]
  <2>1. /\ st \in State /\ st.status = "gate_failed"
        /\ st.attempt = run.node[n].attempt /\ st.cost = run.node[n].cost
        /\ st.asks = run.node[n].asks
    BY <1>0 DEF State, Settled
  <2>2. SentBack(run, n) = SetNode(run, n, st)
    BY <1>2 DEF SentBack
  <2>F. Fits(run, n, st)
    BY <1>0, <2>1 DEF Fits, Settled
  <2> HIDE DEF st
  <2>3. /\ Good(r, SetNode(run, n, st)) /\ SetNode(run, n, st).node[n] = st
        /\ SetNode(run, n, st).session = run.session /\ Moved(run, SetNode(run, n, st), n)
    BY <2>F, NodeSet DEF Becomes
  <2> QED
    BY <2>2, <2>3
<1> QED
  BY <1>1, <1>2

\* A node under way waits for a human, or inside the run it has called.
Waits(r, run, n, s, new) ==
    /\ Good(r, new) /\ Moved(run, new, n) /\ new.session = run.session
    /\ new.node[n].status = s /\ new.node[n].attempt = run.node[n].attempt
    /\ new.node[n].cost = run.node[n].cost

LEMMA InsideMoves ==
    ASSUME NEW r, NEW run, Good(r, run), NEW n \in run.chunk, Calls[n] # NoStrategy
    PROVE  Waits(r, run, n, "inside", [run EXCEPT !.node[n].status = "inside"])
<1> DEFINE st == [run.node[n] EXCEPT !.status = "inside"]
<1>0. /\ run \in Run /\ n \in Node /\ run.node[n] \in State /\ run.node[n].attempt >= 1
      /\ run.node[n].attempt \in Nat
  BY ChunkState, StateFields
<1>1. /\ st \in State /\ st.status = "inside" /\ st.attempt = run.node[n].attempt
      /\ st.cost = run.node[n].cost /\ st.asks = run.node[n].asks
  BY <1>0 DEF State
<1>2. [run EXCEPT !.node[n].status = "inside"] = SetNode(run, n, st)
  BY <1>0 DEF SetNode, Run
<1>F. Fits(run, n, st)
  BY <1>0, <1>1 DEF Fits, Settled
<1> HIDE DEF st
<1>3. /\ Good(r, SetNode(run, n, st)) /\ SetNode(run, n, st).node[n] = st
      /\ SetNode(run, n, st).session = run.session /\ Moved(run, SetNode(run, n, st), n)
  BY <1>F, NodeSet DEF Becomes
<1> QED
  BY <1>1, <1>2, <1>3 DEF Waits

LEMMA AskingMoves ==
    ASSUME NEW r, NEW run, Good(r, run), NEW n \in run.chunk
    PROVE  Waits(r, run, n, "asking", Asking(run, n))
<1> DEFINE st == [run.node[n] EXCEPT !.status = "asking", !.asks = run.session]
<1>0. /\ run \in Run /\ n \in Node /\ run.node[n] \in State /\ run.node[n].attempt >= 1
      /\ run.node[n].attempt \in Nat /\ run.session \in Nat
  BY ChunkState, StateFields, RunFields
<1>1. /\ st \in State /\ st.status = "asking" /\ st.attempt = run.node[n].attempt
      /\ st.cost = run.node[n].cost /\ st.asks = run.session
  BY <1>0 DEF State
<1>2. Asking(run, n) = SetNode(run, n, st)
  BY DEF Asking
<1>F. Fits(run, n, st)
  BY <1>0, <1>1 DEF Fits, Settled
<1> HIDE DEF st
<1>3. /\ Good(r, SetNode(run, n, st)) /\ SetNode(run, n, st).node[n] = st
      /\ SetNode(run, n, st).session = run.session /\ Moved(run, SetNode(run, n, st), n)
  BY <1>F, NodeSet DEF Becomes
<1> QED
  BY <1>1, <1>2, <1>3 DEF Waits

LEMMA CompletedMoves ==
    ASSUME NEW r, NEW run, Good(r, run), NEW n \in run.chunk, NEW id \in Nat \ {0},
           Gate[n] = "human" => /\ run.node[n].approved.born = run.born
                                /\ run.node[n].approved.attempt \in 1 .. run.node[n].attempt
    PROVE  /\ Good(r, Completed(run, n, id)) /\ Moved(run, Completed(run, n, id), n)
           /\ Completed(run, n, id).session = id
<1> DEFINE st == [run.node[n] EXCEPT !.status = "completed"]
           mid == SetNode(run, n, st)
           new == Completed(run, n, id)
<1>0. /\ run \in Run /\ n \in Node /\ run.node[n] \in State /\ run.node[n].attempt >= 1
      /\ run.node[n].attempt \in Nat
  BY ChunkState, StateFields
<1>1. /\ st \in State /\ st.status = "completed" /\ st.attempt = run.node[n].attempt
      /\ st.cost = run.node[n].cost /\ st.approved = run.node[n].approved
      /\ st.asks = run.node[n].asks
  BY <1>0 DEF State, Settled
<1>2. new = [mid EXCEPT !.store = [x \in Name |-> IF x \in Outputs[n] THEN n ELSE run.store[x]],
                        !.session = id]
  BY DEF Completed
<1>F. Fits(run, n, st)
  BY <1>0, <1>1 DEF Fits, Settled
<1> HIDE DEF st
<1>3. /\ Good(r, mid) /\ mid.node[n] = st /\ mid.session = run.session /\ Moved(run, mid, n)
  BY <1>F, NodeSet DEF Becomes
<1>4. [x \in Name |-> IF x \in Outputs[n] THEN n ELSE run.store[x]] \in [Name -> Node \cup {Nobody}]
  BY <1>0, RunFields
<1> HIDE DEF mid, new
<1>5. /\ new \in Run /\ new.session = id /\ new.node = mid.node /\ new.strategy = mid.strategy
      /\ new.status = mid.status /\ new.chunk = mid.chunk /\ new.cost = mid.cost
      /\ new.born = mid.born
  BY <1>2, <1>3, <1>4 DEF Good, Run
<1>6. Good(r, new)
  BY <1>3, <1>5 DEF Good, RunShape, ApprovedIn
<1>7. Moved(run, new, n)
  BY <1>3, <1>5 DEF Moved
<1> QED
  BY <1>5, <1>6, <1>7 DEF new

Approves(r, run, n, a, new) ==
    /\ Good(r, new) /\ Moved(run, new, n) /\ new.session = run.session
    /\ new.node[n].approved = a /\ new.node[n].attempt = run.node[n].attempt
    /\ new.node[n].status = run.node[n].status

LEMMA ApproveMoves ==
    ASSUME NEW r, NEW run, Good(r, run), NEW n \in run.chunk,
           NEW a \in [born : Nat, attempt : Nat], run.node[n].status = "asking"
    PROVE  Approves(r, run, n, a, [run EXCEPT !.node[n].approved = a])
<1> DEFINE st == [run.node[n] EXCEPT !.approved = a]
<1>0. /\ run \in Run /\ n \in Node /\ run.node[n] \in State /\ run.node[n].attempt >= 1
      /\ run.node[n].attempt \in Nat
  BY ChunkState, StateFields
<1>1. /\ st \in State /\ st.status = "asking" /\ st.attempt = run.node[n].attempt
      /\ st.cost = run.node[n].cost /\ st.approved = a
      /\ st.asks = run.node[n].asks
  BY <1>0 DEF State
<1>2. [run EXCEPT !.node[n].approved = a] = SetNode(run, n, st)
  BY <1>0 DEF SetNode, Run
<1>F. Fits(run, n, st)
  BY <1>0, <1>1 DEF Fits, Settled
<1> HIDE DEF st
<1>3. /\ Good(r, SetNode(run, n, st)) /\ SetNode(run, n, st).node[n] = st
      /\ SetNode(run, n, st).session = run.session /\ Moved(run, SetNode(run, n, st), n)
  BY <1>F, NodeSet DEF Becomes
<1> QED
  BY <1>1, <1>2, <1>3 DEF Approves

LEMMA CostIsNat ==
    ASSUME NEW run \in Run, NEW c, c \subseteq Node
    PROVE  CostOf(run.node, c) \in Nat /\ IsFiniteSet(c)
<1> DEFINE f == [n \in Node |-> run.node[n].cost]
<1>1. IsFiniteSet(c)
  BY StrategyAssumption, FS_Subset
<1>2. \A n \in c : f[n] \in Nat
  BY RunFields, StateFields
<1> HIDE DEF f
<1>3. SumFunctionOnSet(f, c) \in Nat
  BY <1>1, <1>2, SumType
<1> QED
  BY <1>1, <1>3 DEF CostOf, f

LEMMA CostSame ==
    ASSUME NEW old \in Run, NEW new \in Run, NEW c, c \subseteq Node,
           \A n \in c : new.node[n].cost = old.node[n].cost
    PROVE  CostOf(new.node, c) = CostOf(old.node, c)
<1> DEFINE f == [n \in Node |-> old.node[n].cost]
           h == [n \in Node |-> new.node[n].cost]
<1>1. IsFiniteSet(c)
  BY CostIsNat
<1>2. \A n \in c : f[n] = h[n] /\ f[n] \in Nat
  BY RunFields, StateFields
<1> HIDE DEF f, h
<1>3. SumFunctionOnSet(f, c) = SumFunctionOnSet(h, c)
  BY <1>1, <1>2, SumAgree
<1> QED
  BY <1>3 DEF CostOf, f, h

\* Of the nodes of c, m costs d more.
Raised(old, new, c, m, d) ==
    /\ m \in c /\ new.node[m].cost = old.node[m].cost + d
    /\ \A n \in c \ {m} : new.node[n].cost = old.node[n].cost

LEMMA CostMore ==
    ASSUME NEW old \in Run, NEW new \in Run, NEW c, c \subseteq Node, NEW m, NEW d \in Nat,
           Raised(old, new, c, m, d)
    PROVE  CostOf(new.node, c) = CostOf(old.node, c) + d
<1> DEFINE f == [n \in Node |-> old.node[n].cost]
           h == [n \in Node |-> new.node[n].cost]
<1>1. IsFiniteSet(c)
  BY CostIsNat
<1>2. /\ \A n \in c : f[n] \in Nat
      /\ \A n \in c \ {m} : h[n] = f[n]
      /\ h[m] = f[m] + d /\ m \in c
  BY RunFields, StateFields DEF Raised
<1> HIDE DEF f, h
<1>3. SumFunctionOnSet(h, c) = SumFunctionOnSet(f, c) + d
  BY <1>1, <1>2, SumChange
<1> QED
  BY <1>3 DEF CostOf, f, h

LEMMA CostZero ==
    ASSUME NEW run \in Run, NEW c, c \subseteq Node, \A n \in c : run.node[n].cost = 0
    PROVE  CostOf(run.node, c) = 0
<1> DEFINE f == [n \in Node |-> run.node[n].cost]
<1>1. IsFiniteSet(c)
  BY CostIsNat
<1>2. \A n \in c : f[n] = 0
  OBVIOUS
<1> HIDE DEF f
<1>3. SumFunctionOnSet(f, c) = 0
  BY <1>1, <1>2, SumZero
<1> QED
  BY <1>3 DEF CostOf, f

LEMMA WeightIsNat ==
    ASSUME NEW run \in Run
    PROVE  Weight(run) \in Nat
<1>1. run.chunk \subseteq Node /\ run.cost \in Nat
  BY RunFields
<1>2. CostOf(run.node, run.chunk) \in Nat
  BY <1>1, CostIsNat
<1> QED
  BY <1>1, <1>2 DEF Weight

\* Step(old, new, n, d): n has gone on, and what it cost is in the books.
Step(old, new, n, d) ==
    /\ new.strategy = old.strategy /\ new.status = old.status /\ new.born = old.born
    /\ \A m \in Node \ {n} : new.node[m] = old.node[m]
    /\ new.node[n].attempt >= old.node[n].attempt
    /\ new.node[n].asks \in {old.node[n].asks, old.session}
    /\ Weight(new) = Weight(old) + d \/ new.node[n].status = "failed"

LEMMA MovedIsStep ==
    ASSUME NEW old \in Run, NEW new \in Run, NEW n \in old.chunk, Moved(old, new, n)
    PROVE  Step(old, new, n, 0)
<1>1. old.chunk \subseteq Node /\ new.chunk = old.chunk /\ new.cost = old.cost
  BY RunFields DEF Moved
<1>2. CASE new.node[n].cost = old.node[n].cost
  <2>1. CostOf(new.node, old.chunk) = CostOf(old.node, old.chunk)
    BY <1>1, <1>2, CostSame DEF Moved
  <2>2. Weight(new) = Weight(old) /\ Weight(old) \in Nat
    BY <1>1, <2>1, WeightIsNat DEF Weight
  <2> QED
    BY <2>2 DEF Step, Moved
<1>3. CASE new.node[n].status = "failed"
  BY <1>3 DEF Step, Moved
<1> QED
  BY <1>2, <1>3 DEF Moved

LEMMA AddCostSteps ==
    ASSUME NEW r, NEW run, Good(r, run), NEW n \in run.chunk, NEW d \in Nat
    PROVE  /\ Good(r, AddCost(run, n, d)) /\ Step(run, AddCost(run, n, d), n, d)
           /\ AddCost(run, n, d).session = run.session /\ AddCost(run, n, d).chunk = run.chunk
           /\ AddCost(run, n, d).node[n].attempt = run.node[n].attempt
           /\ AddCost(run, n, d).node[n].status = run.node[n].status
<1> DEFINE st == [run.node[n] EXCEPT !.cost = @ + d]
           new == AddCost(run, n, d)
<1>0. /\ run \in Run /\ n \in Node /\ run.node[n] \in State /\ run.node[n].attempt >= 1
      /\ run.node[n].attempt \in Nat /\ run.node[n].cost \in Nat
  BY ChunkState, StateFields
<1>1. /\ st \in State /\ st.status = run.node[n].status /\ st.attempt = run.node[n].attempt
      /\ st.cost = run.node[n].cost + d /\ st.approved = run.node[n].approved
      /\ st.asks = run.node[n].asks
  BY <1>0 DEF State
<1>2. /\ new \in Run /\ new.node = [run.node EXCEPT ![n] = st]
      /\ new.strategy = run.strategy /\ new.status = run.status /\ new.passed = run.passed
      /\ new.chunk = run.chunk /\ new.store = run.store /\ new.cost = run.cost
      /\ new.born = run.born /\ new.session = run.session
  BY <1>0, <1>1 DEF AddCost, Run
<1>3. new.node[n] = st /\ \A m \in Node \ {n} : new.node[m] = run.node[m]
  BY <1>0, <1>2, RunFields
<1> HIDE DEF new, st
<1>4. RunShape(r, new)
  BY <1>0, <1>1, <1>2, <1>3, ChunkState DEF Good, RunShape
<1>5. ApprovedIn(new)
  BY <1>1, <1>2, <1>3 DEF Good, ApprovedIn
<1>6. run.chunk \subseteq Node
  BY <1>0, RunFields
<1>7. CostOf(new.node, run.chunk) = CostOf(run.node, run.chunk) + d
  <2>1. Raised(run, new, run.chunk, n, d)
    BY <1>1, <1>3, <1>6 DEF Raised
  <2> QED
    BY <1>0, <1>2, <1>6, <2>1, CostMore
<1>8. Weight(new) = Weight(run) + d
  BY <1>0, <1>2, <1>6, <1>7, CostIsNat, RunFields DEF Weight
<1>9. Step(run, new, n, d)
  BY <1>0, <1>1, <1>2, <1>3, <1>8 DEF Step
<1> QED
  BY <1>1, <1>2, <1>3, <1>4, <1>5, <1>9 DEF Good, new

LEMMA StepsAdd ==
    ASSUME NEW a \in Run, NEW b \in Run, NEW c \in Run, NEW n, NEW d \in Nat, n \in Node,
           Step(a, b, n, d), Step(b, c, n, 0), b.node[n].status # "failed",
           b.session = a.session
    PROVE  Step(a, c, n, d)
<1>1. Weight(b) = Weight(a) + d /\ Weight(a) \in Nat
  BY WeightIsNat DEF Step
<1>2. a.node[n].attempt \in Nat /\ b.node[n].attempt \in Nat /\ c.node[n].attempt \in Nat
  BY RunFields, StateFields
<1> QED
  BY <1>1, <1>2 DEF Step

\* A chunk is started in a run that has none.
LEMMA StartedGood ==
    ASSUME NEW r, NEW run, Good(r, run), run.status = "running", run.chunk = {},
           NEW c, \A n \in c : n \in NodesOf[run.strategy] /\ run.node[n].status = "pending"
    PROVE  /\ Good(r, Started(run, c)) /\ Weight(Started(run, c)) = run.cost
           /\ Started(run, c).strategy = run.strategy /\ Started(run, c).status = "running"
           /\ Started(run, c).born = run.born /\ Started(run, c).session = run.session
           /\ \A n \in Node : /\ run.node[n].status # "pending" => Started(run, c).node[n] = run.node[n]
                              /\ Started(run, c).node[n].attempt >= run.node[n].attempt
                              /\ Started(run, c).node[n].asks = run.node[n].asks
<1> DEFINE st(n) == [Pending EXCEPT !.status = IF Calls[n] = NoStrategy THEN "running" ELSE "calling",
                                    !.attempt = 1, !.seen = Bundle(run, n)]
           new == Started(run, c)
           nodes == [n \in Node |-> IF n \notin c THEN run.node[n] ELSE st(n)]
<1>0. run \in Run /\ c \subseteq Node
  BY RunFields DEF Good
<1>1. ASSUME NEW n \in c
      PROVE  /\ st(n) \in State /\ st(n).attempt = 1 /\ st(n).cost = 0 /\ st(n).asks = 0
             /\ st(n).status \in {"running", "calling"}
             /\ st(n).status = "calling" => Calls[n] # NoStrategy
  <2> DEFINE s == IF Calls[n] = NoStrategy THEN "running" ELSE "calling"
             b == Bundle(run, n)
  <2>1. s \in {"running", "calling"} /\ (s = "calling" => Calls[n] # NoStrategy)
    OBVIOUS
  <2>2. b \subseteq Node
    <3>1. run.store \in [Name -> Node \cup {Nobody}]
      BY <1>0, RunFields
    <3>2. \A x \in Inputs[n] : x \in Name
      BY <1>0, StrategyAssumption
    <3> QED
      BY <3>1, <3>2 DEF Bundle
  <2> HIDE DEF s, b
  <2>3. /\ [Pending EXCEPT !.status = s, !.attempt = 1, !.seen = b] \in State
        /\ [Pending EXCEPT !.status = s, !.attempt = 1, !.seen = b].attempt = 1
        /\ [Pending EXCEPT !.status = s, !.attempt = 1, !.seen = b].cost = 0
        /\ [Pending EXCEPT !.status = s, !.attempt = 1, !.seen = b].asks = 0
        /\ [Pending EXCEPT !.status = s, !.attempt = 1, !.seen = b].status = s
    BY <2>1, <2>2 DEF Pending, State, NoApproval, Settled
  <2> QED
    BY <2>1, <2>3 DEF s, b
<1>2. nodes \in [Node -> State]
  BY <1>0, <1>1, RunFields
<1>3. new = [run EXCEPT !.chunk = c, !.node = nodes]
  BY DEF Started
<1> HIDE DEF new, nodes
<1>4. /\ new \in Run /\ new.node = nodes /\ new.chunk = c
      /\ new.strategy = run.strategy /\ new.status = run.status /\ new.passed = run.passed
      /\ new.cost = run.cost /\ new.born = run.born /\ new.session = run.session
  BY <1>0, <1>2, <1>3 DEF Run
<1>5. \A n \in Node : new.node[n] = IF n \notin c THEN run.node[n] ELSE st(n)
  BY <1>4 DEF nodes
<1> HIDE DEF st
<1>6. RunShape(r, new)
  BY <1>0, <1>1, <1>4, <1>5 DEF Good, RunShape
<1>7. ApprovedIn(new)
  BY <1>1, <1>4, <1>5 DEF Good, ApprovedIn
<1>8. CostOf(new.node, c) = 0
  BY <1>0, <1>1, <1>4, <1>5, CostZero
<1>9. Weight(new) = run.cost
  BY <1>0, <1>4, <1>8, RunFields DEF Weight
<1>10. \A n \in Node : /\ run.node[n].status # "pending" => new.node[n] = run.node[n]
                       /\ new.node[n].attempt >= run.node[n].attempt
                       /\ new.node[n].asks = run.node[n].asks
  <2> SUFFICES ASSUME NEW n \in Node
               PROVE  /\ run.node[n].status # "pending" => new.node[n] = run.node[n]
                      /\ new.node[n].attempt >= run.node[n].attempt
                      /\ new.node[n].asks = run.node[n].asks
    OBVIOUS
  <2>1. run.node[n].attempt \in Nat
    BY <1>0, RunFields, StateFields
  <2>2. n \in c => run.node[n].attempt = 0 /\ run.node[n].asks = 0
    BY DEF Good, RunShape, Pending
  <2> QED
    BY <1>1, <1>5, <2>1, <2>2
<1> QED
  BY <1>4, <1>6, <1>7, <1>9, <1>10 DEF Good, new

\* The books are the same when a chunk that has settled is billed.
LEMMA BilledGood ==
    ASSUME NEW r, NEW run, Good(r, run), \A n \in run.chunk : run.node[n].status \in Settled
    PROVE  /\ Good(r, Billed(run)) /\ Weight(Billed(run)) = Weight(run)
           /\ Billed(run).cost = Weight(run)
           /\ Billed(run).chunk = {} /\ Billed(run).node = run.node
           /\ Billed(run).strategy = run.strategy /\ Billed(run).status = run.status
           /\ Billed(run).born = run.born /\ Billed(run).session = run.session
           /\ Billed(run).passed = run.passed
<1> DEFINE new == Billed(run)
<1>0. run \in Run /\ run.chunk \subseteq Node
  BY RunFields DEF Good
<1>1. run.cost + CostOf(run.node, run.chunk) \in Nat
  BY <1>0, CostIsNat, RunFields
<1>2. /\ new \in Run /\ new.node = run.node /\ new.chunk = {}
      /\ new.strategy = run.strategy /\ new.status = run.status /\ new.passed = run.passed
      /\ new.cost = Weight(run) /\ new.born = run.born /\ new.session = run.session
  BY <1>0, <1>1 DEF Billed, Weight, Run
<1> HIDE DEF new
<1>3. RunShape(r, new)
  BY <1>0, <1>2 DEF Good, RunShape
<1>4. ApprovedIn(new)
  BY <1>2 DEF Good, ApprovedIn
<1>5. CostOf(new.node, {}) = 0
  BY <1>2, CostZero
<1>6. Weight(new) = Weight(run)
  BY <1>0, <1>2, <1>5, WeightIsNat DEF Weight
<1> QED
  BY <1>2, <1>3, <1>4, <1>6 DEF Good, new

LEMMA AdvancedGood ==
    ASSUME NEW r, NEW run, Good(r, run), \A n \in run.chunk : run.node[n].status \in Settled
    PROVE  /\ Good(r, Advanced(run)) /\ Weight(Advanced(run)) = Weight(run)
           /\ Advanced(run).cost = Weight(run)
           /\ Advanced(run).chunk = {} /\ Advanced(run).node = run.node
           /\ Advanced(run).strategy = run.strategy /\ Advanced(run).status = run.status
           /\ Advanced(run).born = run.born /\ Advanced(run).session = run.session
<1> DEFINE mid == Billed(run)
           new == Advanced(run)
<1>1. /\ Good(r, mid) /\ Weight(mid) = Weight(run) /\ mid.cost = Weight(run)
      /\ mid.chunk = {} /\ mid.node = run.node
      /\ mid.strategy = run.strategy /\ mid.status = run.status
      /\ mid.born = run.born /\ mid.session = run.session
  BY BilledGood
<1>2. Level(run) \subseteq Node
  BY RunFields DEF Good, Level
<1>3. new = [mid EXCEPT !.passed = @ \cup Level(run)]
  BY DEF Advanced
<1> HIDE DEF mid, new
<1>4. /\ new \in Run /\ new.node = mid.node /\ new.chunk = mid.chunk
      /\ new.strategy = mid.strategy /\ new.status = mid.status
      /\ new.cost = mid.cost /\ new.born = mid.born /\ new.session = mid.session
  BY <1>1, <1>2, <1>3 DEF Good, Run
<1>5. RunShape(r, new) /\ ApprovedIn(new)
  BY <1>1, <1>4 DEF Good, RunShape, ApprovedIn
<1>6. Weight(new) = Weight(mid)
  BY <1>4 DEF Weight
<1> QED
  BY <1>1, <1>4, <1>5, <1>6 DEF Good, new

IsFresh(r, s, id, run) ==
    /\ Good(r, run) /\ run.strategy = s /\ run.status = "running"
    /\ run.chunk = {} /\ run.cost = 0 /\ run.born = id /\ run.session = id
    /\ \A n \in Node : run.node[n] = Pending /\ run.node[n].asks = 0

LEMMA FreshGood ==
    ASSUME NEW r, NEW s \in Strategy, NEW id \in Nat \ {0}
    PROVE  IsFresh(r, s, id, FreshRun(s, id))
<1> DEFINE new == FreshRun(s, id)
<1>1. Pending \in State /\ Pending.status = "pending" /\ Pending.asks = 0
  BY DEF Pending, State, NoApproval, Settled
<1>2. /\ new \in Run /\ new.strategy = s /\ new.status = "running" /\ new.chunk = {} /\ new.cost = 0
      /\ new.born = id /\ new.session = id /\ \A n \in Node : new.node[n] = Pending
  BY <1>1 DEF FreshRun, Run
<1> HIDE DEF new
<1>3. RunShape(r, new)
  BY <1>1, <1>2, StrategyAssumption DEF RunShape
<1>4. ApprovedIn(new)
  BY <1>1, <1>2 DEF ApprovedIn
<1> QED
  BY <1>1, <1>2, <1>3, <1>4 DEF Good, IsFresh, new

-----------------------------------------------------------------------------
(* The map of runs, when one is replaced, added or removed. *)

AllGood(rs) == \A r \in DOMAIN rs : r \in Seq(Node) /\ Good(r, rs[r])

TreeOf(rs) ==
    \A r \in DOMAIN rs : r # <<>> =>
        Front(r) \in DOMAIN rs /\ rs[Front(r)].node[Last(r)].status = "inside"

Requests(ss) == [session : 1 .. ss, node : Node, born : Nat, attempt : Nat]

ApartIn(rs, ss, as) ==
    /\ \A q \in as : q \in Requests(ss) /\ q.attempt >= 1
    /\ \A r \in DOMAIN rs : SessionsOf(rs[r]) \subseteq 1 .. ss
    /\ \A q, r \in DOMAIN rs : q # r => SessionsOf(rs[q]) \cap SessionsOf(rs[r]) = {}
    /\ \A q \in as : \A r \in DOMAIN rs :
        q.session \in SessionsOf(rs[r]) =>
            q.born = rs[r].born /\ q.attempt <= rs[r].node[q.node].attempt

NoneFailedIn(rs) ==
    \A r \in DOMAIN rs : \A n \in Node : rs[r].node[n].status \notin {"failed", "gate_failed"}

Total(rs) == SumFunctionOnSet([r \in DOMAIN rs |-> Weight(rs[r])], DOMAIN rs)

Drop(rs, c) == [q \in DOMAIN rs \ {c} |-> rs[q]]

\* P is rs with r's run replaced or added, R is rs without c.
IsPut(P, rs, r, new) ==
    /\ DOMAIN P = DOMAIN rs \cup {r} /\ P[r] = new
    /\ \A q \in DOMAIN rs : q # r => P[q] = rs[q]

IsDrop(R, rs, c) ==
    /\ DOMAIN R = DOMAIN rs \ {c}
    /\ \A q \in DOMAIN rs : q # c => R[q] = rs[q]

LEMMA PutIs ==
    ASSUME NEW rs, NEW r, NEW new
    PROVE  IsPut(Put(rs, r, new), rs, r, new)
BY DEF Put, IsPut

LEMMA DropIs ==
    ASSUME NEW rs, NEW c
    PROVE  IsDrop(Drop(rs, c), rs, c)
BY DEF Drop, IsDrop

LEMMA PutPut ==
    ASSUME NEW rs, NEW r, NEW a, NEW b
    PROVE  Put(Put(rs, r, a), r, b) = Put(rs, r, b)
BY DEF Put

LEMMA PutGood ==
    ASSUME NEW rs, AllGood(rs), NEW r \in Seq(Node), NEW new, Good(r, new)
    PROVE  AllGood(Put(rs, r, new))
<1> DEFINE P == Put(rs, r, new)
<1>1. IsPut(P, rs, r, new)
  BY PutIs
<1> HIDE DEF P
<1>2. AllGood(P)
  BY <1>1 DEF IsPut, AllGood
<1> QED
  BY <1>2 DEF P

LEMMA DropGood ==
    ASSUME NEW rs, AllGood(rs), NEW c
    PROVE  AllGood(Drop(rs, c))
<1> DEFINE R == Drop(rs, c)
<1>1. IsDrop(R, rs, c)
  BY DropIs
<1> HIDE DEF R
<1>2. AllGood(R)
  BY <1>1 DEF IsDrop, AllGood
<1> QED
  BY <1>2 DEF R

\* r may be a run of rs, and with the record new its nodes wait for the runs below.
Fitting(rs, r, new) ==
    /\ \/ r \in DOMAIN rs \/ r = <<>>
       \/ Front(r) \in DOMAIN rs /\ rs[Front(r)].node[Last(r)].status = "inside"
    /\ \A q \in DOMAIN rs : (q # <<>> /\ Front(q) = r) => new.node[Last(q)].status = "inside"

LEMMA PutTree ==
    ASSUME NEW rs, TreeOf(rs), AllGood(rs), NEW r \in Seq(Node), NEW new, Fitting(rs, r, new)
    PROVE  TreeOf(Put(rs, r, new))
<1> DEFINE P == Put(rs, r, new)
<1>0. IsPut(P, rs, r, new)
  BY PutIs
<1> HIDE DEF P
<1>1. /\ DOMAIN P = DOMAIN rs \cup {r} /\ P[r] = new
      /\ \A q \in DOMAIN rs : q # r => P[q] = rs[q]
  BY <1>0 DEF IsPut
<1>2. ASSUME NEW q \in DOMAIN P, q # <<>>
      PROVE  Front(q) \in DOMAIN P /\ P[Front(q)].node[Last(q)].status = "inside"
  <2>0. q \in Seq(Node)
    BY <1>1 DEF AllGood
  <2>1. Front(q) # q
    BY <1>2, <2>0, FrontPath
  <2>2. Front(q) \in DOMAIN rs /\ rs[Front(q)].node[Last(q)].status = "inside"
    BY <1>1, <1>2 DEF TreeOf, Fitting
  <2>3. CASE Front(q) = r
    <3>1. CASE q \in DOMAIN rs
      BY <1>1, <1>2, <2>3, <3>1 DEF Fitting
    <3>2. CASE q = r
      BY <2>1, <2>3, <3>2
    <3> QED
      BY <1>1, <3>1, <3>2
  <2>4. CASE Front(q) # r
    BY <1>1, <2>2, <2>4
  <2> QED
    BY <2>3, <2>4
<1> QED
  BY <1>2 DEF TreeOf, P

\* A run without runs below it can go.
LEMMA DropTree ==
    ASSUME NEW rs, TreeOf(rs), NEW c, \A q \in DOMAIN rs : q # <<>> => Front(q) # c
    PROVE  TreeOf(Drop(rs, c))
<1> DEFINE R == Drop(rs, c)
<1>1. IsDrop(R, rs, c)
  BY DropIs
<1> HIDE DEF R
<1>2. TreeOf(R)
  BY <1>1 DEF IsDrop, TreeOf
<1> QED
  BY <1>2 DEF R

\* A run goes on: its nodes make no attempt again, and ask in no session but its own.
GoesOn(old, new) ==
    /\ new.born = old.born
    /\ \A n \in Node : /\ new.node[n].attempt >= old.node[n].attempt
                       /\ new.node[n].asks \in {old.node[n].asks, old.session}

\* The run gets a session nobody has had, or keeps its own; and a new request is
\* about an attempt the node has made in it.
SessionStep(rs, r, new, ss, newss, as, newas) ==
    /\ IF r \in DOMAIN rs THEN GoesOn(rs[r], new) ELSE \A n \in Node : new.node[n].asks = 0
    /\ \/ newss = ss /\ r \in DOMAIN rs /\ new.session = rs[r].session
       \/ newss = ss + 1 /\ new.session = ss + 1 /\ newas \subseteq as
    /\ \A q \in newas :
        \/ q \in as
        \/ /\ r \in DOMAIN rs /\ new.session = rs[r].session
           /\ q \in [session : {new.session}, node : Node, born : {new.born}, attempt : Nat]
           /\ q.attempt \in 1 .. new.node[q.node].attempt

LEMMA PutApart ==
    ASSUME NEW rs, NEW ss \in Nat, NEW as, ApartIn(rs, ss, as), AllGood(rs),
           NEW r, NEW new, Good(r, new), NEW newss, NEW newas,
           SessionStep(rs, r, new, ss, newss, as, newas)
    PROVE  ApartIn(Put(rs, r, new), newss, newas)
<1> DEFINE P == Put(rs, r, new)
<1>0. IsPut(P, rs, r, new)
  BY PutIs
<1> HIDE DEF P
<1>1. /\ DOMAIN P = DOMAIN rs \cup {r} /\ P[r] = new
      /\ \A q \in DOMAIN rs : q # r => P[q] = rs[q]
  BY <1>0 DEF IsPut
<1>2. /\ new.session \in Nat \ {0} /\ new.born \in Nat
      /\ \A n \in Node : new.node[n].attempt \in Nat
      /\ \A q \in DOMAIN rs : \A n \in Node : rs[q].node[n].attempt \in Nat
  BY RunFields, StateFields DEF Good, AllGood
<1>3. /\ \A q \in as : q \in Requests(ss) /\ q.attempt >= 1
      /\ \A q \in DOMAIN rs : SessionsOf(rs[q]) \subseteq 1 .. ss
      /\ \A q, s \in DOMAIN rs : q # s => SessionsOf(rs[q]) \cap SessionsOf(rs[s]) = {}
      /\ \A q \in as : \A s \in DOMAIN rs :
          q.session \in SessionsOf(rs[s]) =>
              q.born = rs[s].born /\ q.attempt <= rs[s].node[q.node].attempt
  BY DEF ApartIn
<1>4. newss \in Nat /\ newss >= ss /\ 1 .. ss \subseteq 1 .. newss
  <2>1. newss = ss \/ newss = ss + 1
    BY DEF SessionStep
  <2> QED
    BY <2>1
\* The sessions that the run had, and perhaps the one nobody has had.
<1> DEFINE Had == IF r \in DOMAIN rs THEN SessionsOf(rs[r]) ELSE {}
           Newest == IF newss = ss + 1 THEN {ss + 1} ELSE {}
<1>5. SessionsOf(new) \subseteq Had \cup Newest
  <2>1. new.session \in Had \cup Newest
    BY DEF SessionStep, SessionsOf
  <2>2. ASSUME NEW n \in Node, new.node[n].asks # 0 PROVE new.node[n].asks \in Had
    <3>1. r \in DOMAIN rs /\ new.node[n].asks \in {rs[r].node[n].asks, rs[r].session}
      BY <2>2 DEF SessionStep, GoesOn
    <3> QED
      BY <2>2, <3>1 DEF SessionsOf
  <2> HIDE DEF Had, Newest
  <2> QED
    BY <2>1, <2>2 DEF SessionsOf
<1>6. /\ Had \subseteq 1 .. ss /\ Newest \subseteq {ss + 1} /\ Newest \subseteq 1 .. newss
      /\ \A q \in DOMAIN rs : q # r => SessionsOf(rs[q]) \cap Had = {}
  BY <1>3, <1>4
<1> HIDE DEF Had, Newest
<1>7. \A q \in DOMAIN P : SessionsOf(P[q]) \subseteq 1 .. newss
  <2> SUFFICES ASSUME NEW q \in DOMAIN P PROVE SessionsOf(P[q]) \subseteq 1 .. newss
    OBVIOUS
  <2>1. CASE q = r
    <3>1. Had \subseteq 1 .. newss
      BY <1>4, <1>6
    <3> QED
      BY <1>1, <1>5, <1>6, <2>1, <3>1
  <2>2. CASE q # r
    BY <1>1, <1>3, <1>4, <2>2
  <2> QED
    BY <2>1, <2>2
<1>8. \A q \in DOMAIN P : q # r => SessionsOf(P[q]) \cap SessionsOf(P[r]) = {}
  <2> SUFFICES ASSUME NEW q \in DOMAIN P, q # r PROVE SessionsOf(P[q]) \cap SessionsOf(P[r]) = {}
    OBVIOUS
  <2>1. q \in DOMAIN rs /\ P[q] = rs[q] /\ P[r] = new
    BY <1>1
  <2>2. SessionsOf(rs[q]) \subseteq 1 .. ss /\ SessionsOf(rs[q]) \cap Had = {}
    BY <1>3, <1>6, <2>1
  <2>3. ss + 1 \notin 1 .. ss
    OBVIOUS
  <2> QED
    BY <1>5, <1>6, <2>1, <2>2, <2>3
<1>9. \A q, s \in DOMAIN P : q # s => SessionsOf(P[q]) \cap SessionsOf(P[s]) = {}
  <2> SUFFICES ASSUME NEW q \in DOMAIN P, NEW s \in DOMAIN P, q # s
               PROVE  SessionsOf(P[q]) \cap SessionsOf(P[s]) = {}
    OBVIOUS
  <2>1. CASE q # r /\ s # r
    BY <1>1, <1>3, <2>1
  <2>2. CASE q = r \/ s = r
    BY <1>8, <2>2
  <2> QED
    BY <2>1, <2>2
<1>10. ASSUME NEW q \in as
       PROVE  /\ q \in Requests(newss) /\ q.attempt >= 1
              /\ \A s \in DOMAIN P : q.session \in SessionsOf(P[s]) =>
                     q.born = P[s].born /\ q.attempt <= P[s].node[q.node].attempt
  <2>1. q \in Requests(ss) /\ q.attempt >= 1
    BY <1>3
  <2>2. q \in Requests(newss) /\ q.session \in 1 .. ss /\ q.node \in Node /\ q.attempt \in Nat
    BY <1>4, <2>1 DEF Requests
  <2>3. ASSUME NEW s \in DOMAIN P, q.session \in SessionsOf(P[s])
        PROVE  q.born = P[s].born /\ q.attempt <= P[s].node[q.node].attempt
    <3>1. CASE s # r
      BY <1>1, <1>3, <2>3, <3>1
    <3>2. CASE s = r
      <4>1. q.session \in Had
        <5>1. q.session # ss + 1
          BY <2>2
        <5> QED
          BY <1>1, <1>5, <1>6, <2>3, <3>2, <5>1
      <4>2. r \in DOMAIN rs /\ q.session \in SessionsOf(rs[r])
        BY <4>1 DEF Had
      <4>3. q.born = rs[r].born /\ q.attempt <= rs[r].node[q.node].attempt
        BY <1>3, <4>2
      <4>4. new.born = rs[r].born /\ new.node[q.node].attempt >= rs[r].node[q.node].attempt
        BY <2>2, <4>2 DEF SessionStep, GoesOn
      <4> QED
        BY <1>1, <1>2, <2>2, <3>2, <4>2, <4>3, <4>4
    <3> QED
      BY <3>1, <3>2
  <2> QED
    BY <2>1, <2>2, <2>3
<1>11. ASSUME NEW q \in newas, q \notin as
       PROVE  /\ q \in Requests(newss) /\ q.attempt >= 1
              /\ \A s \in DOMAIN P : q.session \in SessionsOf(P[s]) =>
                     q.born = P[s].born /\ q.attempt <= P[s].node[q.node].attempt
  <2>1. /\ q \in [session : {new.session}, node : Node, born : {new.born}, attempt : Nat]
        /\ q.attempt \in 1 .. new.node[q.node].attempt
    BY <1>11 DEF SessionStep
  <2>2. q.session \in SessionsOf(P[r]) /\ r \in DOMAIN P
    BY <1>1, <2>1 DEF SessionsOf
  <2>3. q \in Requests(newss) /\ q.attempt >= 1
    BY <1>2, <1>7, <2>1, <2>2 DEF Requests
  <2>4. ASSUME NEW s \in DOMAIN P, q.session \in SessionsOf(P[s]) PROVE s = r
    BY <1>9, <2>2, <2>4
  <2>5. q.born = new.born /\ q.attempt <= new.node[q.node].attempt
    BY <1>2, <2>1
  <2> QED
    BY <1>1, <2>3, <2>4, <2>5
<1> QED
  BY <1>7, <1>9, <1>10, <1>11 DEF ApartIn, P

LEMMA DropApart ==
    ASSUME NEW rs, NEW ss, NEW as, ApartIn(rs, ss, as), NEW c
    PROVE  ApartIn(Drop(rs, c), ss, as)
<1> DEFINE R == Drop(rs, c)
<1>1. IsDrop(R, rs, c)
  BY DropIs
<1> HIDE DEF R
<1>2. ApartIn(R, ss, as)
  BY <1>1 DEF IsDrop, ApartIn
<1> QED
  BY <1>2 DEF R

LEMMA TotalIsNat ==
    ASSUME NEW rs, AllGood(rs), IsFiniteSet(DOMAIN rs)
    PROVE  Total(rs) \in Nat
<1> DEFINE f == [r \in DOMAIN rs |-> Weight(rs[r])]
<1>1. \A r \in DOMAIN rs : f[r] \in Nat
  BY WeightIsNat DEF AllGood, Good
<1> HIDE DEF f
<1> QED
  BY <1>1, SumType DEF Total, f

LEMMA PutTotal ==
    ASSUME NEW rs, AllGood(rs), IsFiniteSet(DOMAIN rs), NEW r \in DOMAIN rs, NEW new,
           NEW d \in Nat, Weight(new) = Weight(rs[r]) + d
    PROVE  Total(Put(rs, r, new)) = Total(rs) + d
<1> DEFINE P == Put(rs, r, new)
           f == [q \in DOMAIN rs |-> Weight(rs[q])]
           h == [q \in DOMAIN P |-> Weight(P[q])]
<1>0. IsPut(P, rs, r, new)
  BY PutIs
<1>2. \A q \in DOMAIN rs : f[q] \in Nat
  BY WeightIsNat DEF AllGood, Good
<1> HIDE DEF P
<1>1. /\ DOMAIN P = DOMAIN rs /\ P[r] = new
      /\ \A q \in DOMAIN rs : q # r => P[q] = rs[q]
  BY <1>0 DEF IsPut
<1>3. /\ \A q \in DOMAIN rs \ {r} : h[q] = f[q]
      /\ h[r] = f[r] + d
  BY <1>1
<1> HIDE DEF f, h
<1>4. SumFunctionOnSet(h, DOMAIN rs) = SumFunctionOnSet(f, DOMAIN rs) + d
  BY <1>2, <1>3, SumChange
<1> QED
  BY <1>1, <1>4 DEF Total, f, h, P

\* A run that goes takes its share with it.
LEMMA DropTotal ==
    ASSUME NEW rs, AllGood(rs), IsFiniteSet(DOMAIN rs), NEW c \in DOMAIN rs
    PROVE  Total(rs) = Weight(rs[c]) + Total(Drop(rs, c))
<1> DEFINE R == Drop(rs, c)
           f == [q \in DOMAIN rs |-> Weight(rs[q])]
           h == [q \in DOMAIN R |-> Weight(R[q])]
<1>0. IsDrop(R, rs, c)
  BY DropIs
<1>2. \A q \in DOMAIN rs : f[q] \in Nat
  BY WeightIsNat DEF AllGood, Good
<1> HIDE DEF R
<1>1. DOMAIN R = DOMAIN rs \ {c} /\ \A q \in DOMAIN rs : q # c => R[q] = rs[q]
  BY <1>0 DEF IsDrop
<1>3. \A q \in DOMAIN R : h[q] = f[q] /\ h[q] \in Nat
  BY <1>1, <1>2
<1>4. IsFiniteSet(DOMAIN R)
  BY <1>1, FS_RemoveElement
<1>5. f[c] = Weight(rs[c])
  OBVIOUS
<1> HIDE DEF f, h
<1>6. SumFunctionOnSet(f, DOMAIN rs) = f[c] + SumFunctionOnSet(f, DOMAIN rs \ {c})
  BY <1>2, SumRemove
<1>7. SumFunctionOnSet(h, DOMAIN R) = SumFunctionOnSet(f, DOMAIN R)
  BY <1>3, <1>4, SumAgree
<1> QED
  BY <1>1, <1>5, <1>6, <1>7 DEF Total, f, h, R

LEMMA NewTotal ==
    ASSUME NEW rs, AllGood(rs), IsFiniteSet(DOMAIN rs), NEW r \in Seq(Node), r \notin DOMAIN rs,
           NEW new, Good(r, new)
    PROVE  Total(Put(rs, r, new)) = Weight(new) + Total(rs)
<1> DEFINE P == Put(rs, r, new)
<1>0. IsPut(P, rs, r, new) /\ AllGood(P)
  BY PutIs, PutGood
<1>2. Drop(P, r) = [q \in DOMAIN rs |-> rs[q]]
  BY DEF Drop, Put
<1> HIDE DEF P
<1>1. DOMAIN P = DOMAIN rs \cup {r} /\ P[r] = new
  BY <1>0 DEF IsPut
<1>5. IsFiniteSet(DOMAIN P)
  BY <1>1, FS_AddElement
<1>3. Total(P) = Weight(P[r]) + Total(Drop(P, r))
  BY <1>0, <1>1, <1>5, DropTotal
<1>4. Total(Drop(P, r)) = Total(rs)
  BY <1>2 DEF Total
<1> QED
  BY <1>1, <1>3, <1>4 DEF P

-----------------------------------------------------------------------------
(* What the invariant says of the runs below, above and beside one. *)

Nodes(run, st) == \E n \in Node : run.node[n].status = st

\* A run none of whose nodes waits inside another one has no run below it.
LEMMA NoneBelow ==
    ASSUME NEW rs, AllGood(rs), TreeOf(rs), NEW r \in DOMAIN rs, ~ Nodes(rs[r], "inside"),
           NEW q \in DOMAIN rs, q # <<>>
    PROVE  Front(q) # r
<1>1. q \in Seq(Node)
  BY DEF AllGood
<1>2. Last(q) \in Node
  BY <1>1, FrontPath
<1>3. rs[Front(q)].node[Last(q)].status = "inside"
  BY DEF TreeOf
<1> QED
  BY <1>2, <1>3 DEF Nodes

LEMMA SettledIsOutside ==
    ASSUME NEW r, NEW run, Good(r, run), \A n \in run.chunk : run.node[n].status \in Settled
    PROVE  /\ ~ Nodes(run, "inside")
           /\ \A n \in Node : run.node[n].status \in Settled \cup {"pending"}
BY DEF Good, RunShape, Nodes, Settled

\* Nothing is under way but the first run when nothing is below it.
LEMMA RootAlone ==
    ASSUME NEW rs, AllGood(rs), TreeOf(rs), <<>> \in DOMAIN rs, ~ Nodes(rs[<<>>], "inside")
    PROVE  DOMAIN rs = {<<>>}
<1> SUFFICES ASSUME NEW p \in DOMAIN rs, p # <<>> PROVE FALSE
  OBVIOUS
<1> DEFINE T == {k \in Nat : \E q \in DOMAIN rs : q # <<>> /\ Len(q) = k}
<1>1. \A q \in DOMAIN rs : q \in Seq(Node)
  BY DEF AllGood
<1>2. Len(p) \in T
  BY <1>1, LenProperties
<1>3. PICK k \in T : \A j \in T : k <= j
  BY <1>2, LeastNat
<1>4. PICK q \in DOMAIN rs : q # <<>> /\ Len(q) = k
  OBVIOUS
<1>5. Front(q) \in DOMAIN rs /\ Front(q) # <<>>
  BY <1>4, NoneBelow DEF TreeOf
<1>6. Len(Front(q)) = Len(q) - 1 /\ Len(q) \in Nat \ {0}
  BY <1>1, <1>4, FrontPath
<1>7. Len(Front(q)) \in T
  BY <1>5, <1>6
<1> QED
  BY <1>3, <1>4, <1>6, <1>7

\* The runs lie on one path.
OnePath(rs) == \A q, r \in DOMAIN rs : IsPrefix(q, r) \/ IsPrefix(r, q)

LEMMA SameLength ==
    ASSUME NEW rs, AllGood(rs), OnePath(rs), NEW q \in DOMAIN rs, NEW r \in DOMAIN rs,
           Len(q) = Len(r)
    PROVE  q = r
<1>1. q \in Seq(Node) /\ r \in Seq(Node)
  BY DEF AllGood
<1>2. IsPrefix(q, r) \/ IsPrefix(r, q)
  BY DEF OnePath
<1> QED
  BY <1>1, <1>2, PrefixSame

LEMMA Longest ==
    ASSUME NEW rs, AllGood(rs), TreeOf(rs), OnePath(rs), NEW r \in DOMAIN rs, ~ Nodes(rs[r], "inside"),
           NEW p \in DOMAIN rs
    PROVE  Len(p) <= Len(r)
<1>1. \A q \in DOMAIN rs : q \in Seq(Node) /\ Len(q) \in Nat
  BY LenProperties DEF AllGood
<1> SUFFICES ASSUME Len(p) > Len(r) PROVE FALSE
  BY <1>1
<1> DEFINE T == {k \in Nat : k > Len(r) /\ \E q \in DOMAIN rs : Len(q) = k}
<1>2. Len(p) \in T
  BY <1>1
<1>3. PICK k \in T : \A j \in T : k <= j
  BY <1>2, LeastNat
<1>4. PICK q \in DOMAIN rs : Len(q) = k
  OBVIOUS
<1>5. q # <<>>
  BY <1>1, <1>4, EmptySeq
<1>6. Front(q) \in DOMAIN rs /\ Front(q) # r
  BY <1>5, NoneBelow DEF TreeOf
<1>7. Len(Front(q)) = Len(q) - 1 /\ Len(q) \in Nat \ {0} /\ Len(r) \in Nat
  BY <1>1, <1>5, FrontPath
<1>8. Len(Front(q)) # Len(r)
  BY <1>6, SameLength
<1>9. Len(Front(q)) \in T
  BY <1>4, <1>6, <1>7, <1>8
<1> QED
  BY <1>3, <1>4, <1>7, <1>9

-----------------------------------------------------------------------------
(* The invariant, in parts that say what they need of the runs. *)

Plain ==
    /\ chain \in Seq(Strategy) /\ sessions \in Nat /\ entry \in {"none", "running"} \cup Over
    /\ aborted \in BOOLEAN /\ spent \in Nat /\ forked \in BOOLEAN /\ misjudged \in BOOLEAN

Untouched == entry = "none" => DOMAIN runs = {} /\ asked = {} /\ spent = 0 /\ ~ misjudged

ChainCounted == IF Finished THEN chain = <<>> ELSE Len(chain) = Cardinality(DOMAIN runs)

\* The chain names the strategies of the runs.
NamedBy(rs, ch) ==
    /\ \A r \in DOMAIN rs : Len(r) < Len(ch)
    /\ \A i \in 1 .. Len(ch) : \E r \in DOMAIN rs : Len(r) = i - 1 /\ rs[r].strategy = ch[i]

NoneTwice(rs) ==
    \A q, r \in DOMAIN rs : q # r /\ IsPrefix(q, r) => rs[q].strategy # rs[r].strategy

Line == ~ forked => OnePath(runs) /\ NoneTwice(runs) /\ ~ misjudged /\ (~ Finished => NamedBy(runs, chain))

InBooks == NoneFailedIn(runs) => spent = Total(runs)

Parts ==
    /\ AllGood(runs) /\ TreeOf(runs) /\ ApartIn(runs, sessions, asked) /\ IsFiniteSet(DOMAIN runs)
    /\ Plain /\ Untouched /\ ChainCounted /\ Line /\ InBooks
    /\ CompletedIsPaid /\ OverIsQuiet

LEMMA InvIsParts == IInv => Parts
<1> SUFFICES ASSUME IInv PROVE Parts
  OBVIOUS
<1>1. AllGood(runs)
  BY DEF IInv, TypeOK, Shape, ApprovalNeeded, Status, AllGood, Good, ApprovedIn
<1>2. TreeOf(runs)
  BY DEF IInv, Tree, TreeOf
<1>3. ApartIn(runs, sessions, asked)
  BY DEF IInv, TypeOK, SessionsApart, ApartIn, Requests
<1>4. IsFiniteSet(DOMAIN runs) /\ Plain /\ Untouched /\ ChainCounted
  BY DEF IInv, TypeOK, Counted, Plain, Untouched, ChainCounted
<1>5. Line
  BY DEF IInv, Straight, CycleDetection, Line, OnePath, NoneTwice, NamedBy
<1>6. InBooks
  BY DEF IInv, Booked, InBooks, NoneFailed, NoneFailedIn, Status, Total
<1> QED
  BY <1>1, <1>2, <1>3, <1>4, <1>5, <1>6 DEF IInv, Parts

LEMMA PartsAreInv == Parts => IInv
<1> SUFFICES ASSUME Parts PROVE IInv
  OBVIOUS
<1>1. TypeOK
  BY DEF Parts, Plain, AllGood, Good, ApartIn, Requests, TypeOK
<1>2. Shape /\ Tree /\ ApprovalNeeded
  BY DEF Parts, AllGood, Good, ApprovedIn, ApprovalNeeded, Status, Shape, Tree, TreeOf
<1>3. SessionsApart
  BY DEF Parts, ApartIn, SessionsApart
<1>4. Counted
  BY DEF Parts, Counted, Untouched, ChainCounted
<1>5. Straight /\ CycleDetection
  BY DEF Parts, Straight, CycleDetection, Line, OnePath, NoneTwice, NamedBy
<1>6. Booked
  BY DEF Parts, Booked, InBooks, NoneFailed, NoneFailedIn, Status, Total
<1> QED
  BY <1>1, <1>2, <1>3, <1>4, <1>5, <1>6 DEF IInv, Parts

LEMMA PartsNext == Parts' => IInv'
BY PartsAreInv, PTL

LEMMA Ongoing ==
    ASSUME Parts, NEW r \in DOMAIN runs, runs[r].status \in {"running", "gating"}
    PROVE  ~ Finished /\ entry # "none" /\ Len(chain) = Cardinality(DOMAIN runs)
<1>1. ~ Finished
  <2>1. CASE r = <<>>
    BY <2>1 DEF Finished, Over
  <2>2. CASE r # <<>>
    BY <2>2 DEF Parts, OverIsQuiet
  <2> QED
    BY <2>1, <2>2
<1> QED
  BY <1>1 DEF Parts, Untouched, ChainCounted

-----------------------------------------------------------------------------
(* The steps of one run, with the others as they were. *)

\* The record of run r in the map rs becomes new, and what it weighs grows by d.
Goes(rs, r, new, d) ==
    /\ r \in DOMAIN rs /\ Good(r, new)
    /\ new.strategy = rs[r].strategy /\ new.status \in {"running", "gating"}
    /\ \A n \in Node :
        /\ rs[r].node[n].status = "inside" => new.node[n].status = "inside"
        /\ rs[r].node[n].status \in {"failed", "gate_failed"} => new.node[n] = rs[r].node[n]
    /\ Weight(new) = Weight(rs[r]) + d \/ \E n \in Node : new.node[n].status \in {"failed", "gate_failed"}

LEMMA GoesInBooks ==
    ASSUME NEW rs, AllGood(rs), IsFiniteSet(DOMAIN rs), NEW r, NEW new, NEW d \in Nat,
           Goes(rs, r, new, d), NoneFailedIn(Put(rs, r, new))
    PROVE  NoneFailedIn(rs) /\ Total(Put(rs, r, new)) = Total(rs) + d
<1> DEFINE P == Put(rs, r, new)
<1>1. r \in DOMAIN rs
  BY DEF Goes
<1>2. IsPut(P, rs, r, new)
  BY PutIs
<1>3. Weight(new) = Weight(rs[r]) + d => Total(P) = Total(rs) + d
  BY <1>1, PutTotal
<1> HIDE DEF P
<1>4. \A n \in Node : new.node[n].status \notin {"failed", "gate_failed"}
  BY <1>2 DEF IsPut, NoneFailedIn, P
<1>5. \A q \in DOMAIN rs : \A n \in Node : q # r => rs[q].node[n].status \notin {"failed", "gate_failed"}
  BY <1>2 DEF IsPut, NoneFailedIn, P
<1>6. \A n \in Node : rs[r].node[n].status \notin {"failed", "gate_failed"}
  BY <1>4 DEF Goes
<1> QED
  BY <1>3, <1>4, <1>5, <1>6 DEF Goes, NoneFailedIn, P

LEMMA GoesTree ==
    ASSUME NEW rs, AllGood(rs), TreeOf(rs), NEW r, NEW new, NEW d, Goes(rs, r, new, d)
    PROVE  TreeOf(Put(rs, r, new)) /\ AllGood(Put(rs, r, new))
<1>1. r \in DOMAIN rs /\ r \in Seq(Node) /\ Good(r, new)
  BY DEF Goes, AllGood
<1>2. ASSUME NEW q \in DOMAIN rs, q # <<>>, Front(q) = r
      PROVE  new.node[Last(q)].status = "inside"
  <2>1. rs[r].node[Last(q)].status = "inside"
    BY <1>2 DEF TreeOf
  <2>2. q \in Seq(Node)
    BY DEF AllGood
  <2>3. Last(q) \in Node
    BY <1>2, <2>2, FrontPath
  <2> QED
    BY <2>1, <2>3 DEF Goes
<1> QED
  <2>1. Fitting(rs, r, new)
    BY <1>1, <1>2 DEF Fitting
  <2> QED
    BY <1>1, <2>1, PutTree, PutGood

\* The names and strategies of the runs are the same.
LEMMA GoesLine ==
    ASSUME NEW rs, NEW r, NEW new, NEW d, Goes(rs, r, new, d), NEW ch
    PROVE  LET P == Put(rs, r, new)
           IN  /\ DOMAIN P = DOMAIN rs
               /\ \A q \in DOMAIN rs : P[q].strategy = rs[q].strategy
               /\ OnePath(rs) => OnePath(P)
               /\ NoneTwice(rs) => NoneTwice(P)
               /\ NamedBy(rs, ch) => NamedBy(P, ch)
<1> DEFINE P == Put(rs, r, new)
<1>1. IsPut(P, rs, r, new)
  BY PutIs
<1> HIDE DEF P
<1>2. DOMAIN P = DOMAIN rs /\ \A q \in DOMAIN rs : P[q].strategy = rs[q].strategy
  BY <1>1 DEF IsPut, Goes
<1>3. OnePath(rs) => OnePath(P)
  BY <1>2 DEF OnePath
<1>4. NoneTwice(rs) => NoneTwice(P)
  BY <1>2 DEF NoneTwice
<1>5. NamedBy(rs, ch) => NamedBy(P, ch)
  BY <1>2 DEF NamedBy
<1> QED
  BY <1>2, <1>3, <1>4, <1>5 DEF P

\* What may change beyond the runs and their requests: d is spent.
Beyond(d) ==
    /\ UNCHANGED <<chain, entry, aborted>> /\ sessions' \in Nat /\ spent' = spent + d
    /\ forked' \in BOOLEAN /\ misjudged' \in BOOLEAN
    /\ forked => forked'
    /\ ~ forked' => ~ misjudged'

LEMMA Quiet ==
    ASSUME Parts, NEW r \in DOMAIN runs, runs[r].status \in {"running", "gating"},
           NEW new, NEW d \in Nat, Goes(runs, r, new, d),
           runs' = Put(runs, r, new), Beyond(d),
           SessionStep(runs, r, new, sessions, sessions', asked, asked')
    PROVE  Parts'
<1>1. /\ AllGood(runs) /\ TreeOf(runs) /\ ApartIn(runs, sessions, asked) /\ IsFiniteSet(DOMAIN runs)
      /\ Plain /\ Line /\ InBooks /\ Good(r, new)
  BY DEF Parts, Goes
<1>2. ~ Finished /\ entry # "none" /\ Len(chain) = Cardinality(DOMAIN runs)
  BY Ongoing
<1>3. TreeOf(runs') /\ AllGood(runs')
  BY <1>1, GoesTree
<1>4. sessions \in Nat /\ spent \in Nat
  BY <1>1 DEF Plain
<1>5. ApartIn(runs', sessions', asked')
  BY <1>1, <1>4, PutApart
<1>6. /\ DOMAIN runs' = DOMAIN runs
      /\ OnePath(runs) => OnePath(runs')
      /\ NoneTwice(runs) => NoneTwice(runs')
      /\ NamedBy(runs, chain) => NamedBy(runs', chain)
  BY GoesLine, Zenon
<1>7. ~ Finished'
  <2>1. IsPut(runs', runs, r, new)
    BY PutIs
  <2>2. CASE r = <<>>
    BY <2>1, <2>2 DEF IsPut, Goes, Finished, Over
  <2>3. CASE r # <<>>
    BY <1>2, <1>6, <2>1, <2>3 DEF IsPut, Finished
  <2> QED
    BY <2>2, <2>3
<1>14. /\ chain' = chain /\ entry' = entry /\ aborted' = aborted
       /\ sessions' \in Nat /\ spent' = spent + d
  BY DEF Beyond
<1>15. /\ forked' \in BOOLEAN /\ misjudged' \in BOOLEAN
       /\ forked => forked'
       /\ ~ forked' => ~ misjudged'
  BY DEF Beyond
<1>8. Plain'
  BY <1>1, <1>4, <1>14, <1>15 DEF Plain
<1>9. Line'
  BY <1>1, <1>2, <1>6, <1>14, <1>15 DEF Line
<1>10. InBooks'
  <2> SUFFICES ASSUME NoneFailedIn(runs') PROVE spent' = Total(runs')
    BY DEF InBooks
  <2> QED
    BY <1>1, GoesInBooks DEF InBooks, Beyond
<1>11. Untouched' /\ ChainCounted'
  BY <1>2, <1>6, <1>7 DEF Untouched, ChainCounted, Beyond
<1>12. CompletedIsPaid' /\ OverIsQuiet'
  BY <1>7 DEF CompletedIsPaid, OverIsQuiet
<1>13. IsFiniteSet(DOMAIN runs')
  BY <1>1, <1>6
<1> QED
  BY <1>3, <1>5, <1>8, <1>9, <1>10, <1>11, <1>12, <1>13 DEF Parts

\* The same, when one node of the chunk has gone on.
LEMMA NodeGoes ==
    ASSUME NEW rs, AllGood(rs), NEW r \in DOMAIN rs, NEW n \in rs[r].chunk,
           rs[r].node[n].status \notin {"inside", "failed", "gate_failed"},
           NEW new, Good(r, new), NEW d, Step(rs[r], new, n, d)
    PROVE  Goes(rs, r, new, d)
<1>1. n \in Node /\ rs[r].status = "running" /\ Good(r, rs[r])
  BY ChunkState DEF AllGood
<1>2. /\ new.strategy = rs[r].strategy /\ new.status = rs[r].status
      /\ \A m \in Node \ {n} : new.node[m] = rs[r].node[m]
      /\ Weight(new) = Weight(rs[r]) + d \/ new.node[n].status = "failed"
  BY DEF Step
<1>3. Weight(new) = Weight(rs[r]) + d \/ \E m \in Node : new.node[m].status \in {"failed", "gate_failed"}
  BY <1>1, <1>2
<1>4. \A m \in Node :
        /\ rs[r].node[m].status = "inside" => new.node[m].status = "inside"
        /\ rs[r].node[m].status \in {"failed", "gate_failed"} => new.node[m] = rs[r].node[m]
  BY <1>2
<1> QED
  BY <1>1, <1>2, <1>3, <1>4 DEF Goes

-----------------------------------------------------------------------------
(* What the gates make of a node. *)

\* A node's gates have made new of its run's record mid.
Outcome(mid, new, n) ==
    \/ sessions' = sessions /\ new.session = mid.session /\ asked' = asked
    \/ /\ sessions' = sessions /\ new.session = mid.session
       /\ new.node[n].attempt = mid.node[n].attempt
       /\ asked' = asked \cup {Request(mid, n)}
    \/ sessions' = sessions + 1 /\ new.session = sessions + 1 /\ asked' = asked

LEMMA FailsGateGoes ==
    ASSUME NEW rs, NEW r, NEW mid, mid = rs[r], Good(r, mid), NEW n \in mid.chunk, FailsGate(rs, r, n)
    PROVE  \E new : /\ runs' = Put(rs, r, new) /\ Good(r, new) /\ Step(mid, new, n, 0)
                    /\ sessions' = sessions /\ new.session = mid.session
<1> DEFINE new == SentBack(mid, n)
<1>1. runs' = Put(rs, r, new) /\ sessions' = sessions
  BY DEF FailsGate
<1>2. Good(r, new) /\ Moved(mid, new, n) /\ new.session = mid.session
  BY SentBackMoves
<1> HIDE DEF new
<1>3. Step(mid, new, n, 0)
  BY <1>2, MovedIsStep DEF Good
<1> QED
  BY <1>1, <1>2, <1>3

LEMMA PassesGoes ==
    ASSUME NEW rs, NEW r, NEW mid, mid = rs[r], Good(r, mid), NEW n \in mid.chunk, sessions \in Nat,
           Gate[n] = "human" => /\ mid.node[n].approved.born = mid.born
                                /\ mid.node[n].approved.attempt \in 1 .. mid.node[n].attempt,
           Passes(rs, r, n)
    PROVE  \E new : /\ runs' = Put(rs, r, new) /\ Good(r, new) /\ Step(mid, new, n, 0)
                    /\ \/ sessions' = sessions /\ new.session = mid.session
                       \/ sessions' = sessions + 1 /\ new.session = sessions + 1
<1> DEFINE id == SessionAfter(mid, n)
           new == Completed(mid, n, id)
<1>1. runs' = Put(rs, r, new)
  BY DEF Passes
<1>2. /\ id \in Nat \ {0}
      /\ \/ sessions' = sessions /\ id = mid.session
         \/ sessions' = sessions + 1 /\ id = sessions + 1
  BY RunFields DEF Passes, SessionAfter, NextSession, Good
<1> HIDE DEF id
<1>3. Good(r, new) /\ Moved(mid, new, n) /\ new.session = id
  BY <1>2, CompletedMoves
<1> HIDE DEF new
<1>4. Step(mid, new, n, 0)
  BY <1>3, MovedIsStep DEF Good
<1> QED
  BY <1>1, <1>2, <1>3, <1>4

LEMMA JudgedGoes ==
    ASSUME NEW B, NEW r, NEW mid, Good(r, mid), NEW n \in mid.chunk, sessions \in Nat,
           Judged(Put(B, r, mid), r, n)
    PROVE  \E new : /\ runs' = Put(B, r, new) /\ Good(r, new) /\ Step(mid, new, n, 0)
                    /\ Outcome(mid, new, n)
<1> DEFINE rs == Put(B, r, mid)
<1>1. rs[r] = mid
  BY DEF Put
<1>2. \A new : Put(rs, r, new) = Put(B, r, new)
  BY PutPut
<1> HIDE DEF rs
<1>3. CASE Gate[n] # "human" /\ Passes(rs, r, n) /\ UNCHANGED asked
  <2>1. PICK new : /\ runs' = Put(rs, r, new) /\ Good(r, new) /\ Step(mid, new, n, 0)
                   /\ \/ sessions' = sessions /\ new.session = mid.session
                      \/ sessions' = sessions + 1 /\ new.session = sessions + 1
    BY <1>1, <1>3, PassesGoes
  <2> QED
    BY <1>2, <1>3, <2>1 DEF Outcome
<1>4. CASE FailsGate(rs, r, n) /\ UNCHANGED asked
  <2>1. PICK new : /\ runs' = Put(rs, r, new) /\ Good(r, new) /\ Step(mid, new, n, 0)
                   /\ sessions' = sessions /\ new.session = mid.session
    BY <1>1, <1>4, FailsGateGoes
  <2> QED
    BY <1>2, <1>4, <2>1 DEF Outcome
<1>5. CASE /\ runs' = Put(rs, r, Asking(rs[r], n))
           /\ asked' = asked \cup {Request(rs[r], n)}
           /\ UNCHANGED sessions
  <2> DEFINE new == Asking(mid, n)
  <2>0. Waits(r, mid, n, "asking", new)
    BY AskingMoves
  <2>2. runs' = Put(B, r, new)
    BY <1>1, <1>2, <1>5
  <2> HIDE DEF new
  <2>1. /\ Good(r, new) /\ Moved(mid, new, n) /\ new.session = mid.session
        /\ new.node[n].attempt = mid.node[n].attempt
    BY <2>0 DEF Waits
  <2>3. Step(mid, new, n, 0)
    BY <2>1, MovedIsStep DEF Good
  <2>4. Outcome(mid, new, n)
    BY <1>1, <1>5, <2>1 DEF Outcome
  <2> QED
    BY <2>1, <2>2, <2>3, <2>4
<1> QED
  BY <1>3, <1>4, <1>5 DEF Judged, rs

\* Whatever the outcome, sessions stay apart.
LEMMA OutcomeApart ==
    ASSUME NEW rs, AllGood(rs), ApartIn(rs, sessions, asked), sessions \in Nat,
           NEW r \in DOMAIN rs, NEW n \in rs[r].chunk, NEW mid, NEW d,
           Good(r, mid), Step(rs[r], mid, n, d), mid.session = rs[r].session,
           NEW new, Good(r, new), Step(mid, new, n, 0), Outcome(mid, new, n)
    PROVE  SessionStep(rs, r, new, sessions, sessions', asked, asked') /\ sessions' \in Nat
<1>1. n \in Node /\ rs[r] \in Run /\ mid \in Run /\ new \in Run
  BY ChunkState DEF AllGood, Good
<1>2. \A m \in Node : /\ rs[r].node[m].attempt \in Nat /\ mid.node[m].attempt \in Nat
                      /\ new.node[m].attempt \in Nat
  BY <1>1, RunFields, StateFields
<1>3. GoesOn(rs[r], new)
  <2>1. /\ new.node[n].attempt >= rs[r].node[n].attempt
        /\ new.node[n].asks \in {rs[r].node[n].asks, rs[r].session}
    BY <1>1, <1>2 DEF Step
  <2>2. \A m \in Node \ {n} : new.node[m] = rs[r].node[m]
    BY DEF Step
  <2> QED
    BY <1>2, <2>1, <2>2 DEF Step, GoesOn
<1>4. new.born = mid.born /\ new.born \in Nat
  BY <1>1, RunFields DEF Step
<1>5. CASE sessions' = sessions /\ new.session = mid.session /\ asked' = asked
  BY <1>3, <1>5 DEF SessionStep
<1>6. CASE /\ sessions' = sessions /\ new.session = mid.session
           /\ new.node[n].attempt = mid.node[n].attempt
           /\ asked' = asked \cup {Request(mid, n)}
  <2> DEFINE q == Request(mid, n)
  <2>1. mid.node[n].attempt >= 1
    <3>1. rs[r].node[n].attempt >= 1
      BY ChunkState DEF AllGood
    <3> QED
      BY <1>1, <1>2, <3>1 DEF Step
  <2>2. /\ q = [session |-> mid.session, node |-> n, born |-> mid.born, attempt |-> mid.node[n].attempt]
        /\ q.attempt = mid.node[n].attempt /\ q.node = n
    BY DEF Request
  <2>3. q \in [session : {new.session}, node : Node, born : {new.born}, attempt : Nat]
    BY <1>1, <1>2, <1>4, <1>6, <2>2
  <2>4. q.attempt \in 1 .. new.node[q.node].attempt
    BY <1>1, <1>2, <1>6, <2>1, <2>2
  <2> HIDE DEF q
  <2>5. asked' = asked \cup {q}
    BY <1>6 DEF q
  <2> QED
    BY <1>3, <1>6, <2>3, <2>4, <2>5 DEF SessionStep
<1>7. CASE sessions' = sessions + 1 /\ new.session = sessions + 1 /\ asked' = asked
  BY <1>3, <1>7 DEF SessionStep
<1> QED
  BY <1>5, <1>6, <1>7 DEF Outcome

-----------------------------------------------------------------------------
(* The steps of one run keep the invariant. *)

LEMMA AtNode ==
    ASSUME Parts, NEW r, NEW n, NEW st, At(r, n, st), st \notin {"failed", "gate_failed", "inside"}
    PROVE  /\ r \in DOMAIN runs /\ n \in runs[r].chunk /\ n \in Node /\ r \in Seq(Node)
           /\ Good(r, runs[r]) /\ runs[r] \in Run /\ runs[r].status = "running"
           /\ runs[r].node[n].status = st
           /\ AllGood(runs) /\ ApartIn(runs, sessions, asked)
           /\ sessions \in Nat /\ forked \in BOOLEAN /\ misjudged \in BOOLEAN /\ spent \in Nat
           /\ ~ forked => ~ misjudged
<1>1. /\ r \in DOMAIN runs /\ n \in runs[r].chunk /\ runs[r].node[n].status = st
      /\ AllGood(runs) /\ ApartIn(runs, sessions, asked) /\ Plain /\ Line
  BY DEF At, Status, Parts
<1>2. r \in Seq(Node) /\ Good(r, runs[r])
  BY <1>1 DEF AllGood
<1>3. n \in Node /\ runs[r] \in Run /\ runs[r].status = "running"
  BY <1>1, <1>2, ChunkState
<1> QED
  BY <1>1, <1>2, <1>3 DEF Plain, Line

\* A node goes on, and nothing else changes but sessions and requests.
LEMMA StepKeeps ==
    ASSUME Parts, NEW r, NEW n, NEW st, At(r, n, st), st \notin {"failed", "gate_failed", "inside"},
           NEW new, Good(r, new), NEW d \in Nat, Step(runs[r], new, n, d),
           runs' = Put(runs, r, new), Beyond(d),
           SessionStep(runs, r, new, sessions, sessions', asked, asked')
    PROVE  Parts'
<1>1. /\ r \in DOMAIN runs /\ n \in runs[r].chunk /\ runs[r].status = "running" /\ AllGood(runs)
      /\ runs[r].node[n].status \notin {"inside", "failed", "gate_failed"}
  BY AtNode
<1>2. Goes(runs, r, new, d)
  BY <1>1, NodeGoes
<1>3. runs[r].status \in {"running", "gating"}
  BY <1>1
<1> QED
  BY <1>1, <1>2, <1>3, Quiet

\* The attempts of a run only grow, so requests stay about attempts made.
LEMMA SameSessionStep ==
    ASSUME NEW rs, NEW r \in DOMAIN rs, NEW n, NEW new, NEW d, Step(rs[r], new, n, d),
           rs[r] \in Run, new.session = rs[r].session, NEW as, NEW newas, newas \subseteq as, NEW ss
    PROVE  SessionStep(rs, r, new, ss, ss, as, newas)
<1>1. \A m \in Node : rs[r].node[m].attempt \in Nat
  BY RunFields, StateFields
<1>2. GoesOn(rs[r], new)
  BY <1>1 DEF Step, GoesOn
<1> QED
  BY <1>2 DEF SessionStep

LEMMA AnswersKeeps ==
    ASSUME Parts, NEW r, NEW n, Answers(r, n)
    PROVE  Parts'
<1> DEFINE mid == AddCost(runs[r], n, 1)
<1>1. At(r, n, "running") /\ spent' = spent + 1 /\ Judged(Put(runs, r, mid), r, n)
      /\ UNCHANGED <<chain, entry, aborted, forked, misjudged>>
  BY DEF Answers
<1>2. /\ r \in DOMAIN runs /\ n \in runs[r].chunk /\ n \in Node /\ Good(r, runs[r])
      /\ runs[r] \in Run /\ runs[r].node[n].status = "running"
      /\ AllGood(runs) /\ ApartIn(runs, sessions, asked)
      /\ sessions \in Nat /\ forked \in BOOLEAN /\ misjudged \in BOOLEAN
      /\ ~ forked => ~ misjudged
  BY <1>1, AtNode
<1>3. /\ Good(r, mid) /\ Step(runs[r], mid, n, 1) /\ mid.session = runs[r].session
      /\ mid.chunk = runs[r].chunk /\ mid.node[n].status = "running"
  BY <1>2, AddCostSteps
<1> HIDE DEF mid
<1>4. PICK new : /\ runs' = Put(runs, r, new) /\ Good(r, new) /\ Step(mid, new, n, 0)
                 /\ Outcome(mid, new, n)
  BY <1>1, <1>2, <1>3, JudgedGoes
<1>5. SessionStep(runs, r, new, sessions, sessions', asked, asked') /\ sessions' \in Nat
  BY <1>2, <1>3, <1>4, OutcomeApart
<1>6. Step(runs[r], new, n, 1)
  BY <1>2, <1>3, <1>4, StepsAdd DEF Good
<1>7. Beyond(1)
  BY <1>1, <1>2, <1>5 DEF Beyond
<1> QED
  BY <1>1, <1>4, <1>5, <1>6, <1>7, StepKeeps

LEMMA ThrowsKeeps ==
    ASSUME Parts, NEW r, NEW n, Throws(r, n)
    PROVE  Parts'
<1>1. PICK st \in {"running", "calling"} : At(r, n, st)
  BY DEF Throws
<1> DEFINE new == Failed(runs[r], n)
<1>2. /\ runs' = Put(runs, r, new)
      /\ UNCHANGED <<chain, sessions, asked, entry, aborted, spent, forked, misjudged>>
  BY DEF Throws
<1>3. /\ r \in DOMAIN runs /\ n \in runs[r].chunk /\ Good(r, runs[r]) /\ runs[r] \in Run
      /\ sessions \in Nat /\ forked \in BOOLEAN /\ misjudged \in BOOLEAN /\ spent \in Nat
      /\ ~ forked => ~ misjudged
  BY <1>1, AtNode
<1>4. Good(r, new) /\ Moved(runs[r], new, n) /\ new.session = runs[r].session
  BY <1>3, FailedMoves
<1> HIDE DEF new
<1>5. Step(runs[r], new, n, 0)
  BY <1>3, <1>4, MovedIsStep DEF Good
<1>6. SessionStep(runs, r, new, sessions, sessions', asked, asked')
  BY <1>2, <1>3, <1>4, <1>5, SameSessionStep
<1>7. Beyond(0)
  BY <1>2, <1>3 DEF Beyond
<1> QED
  BY <1>1, <1>2, <1>4, <1>5, <1>6, <1>7, StepKeeps

LEMMA TimesOutKeeps ==
    ASSUME Parts, NEW r, NEW n, TimesOut(r, n)
    PROVE  Parts'
<1>1. /\ At(r, n, "asking") /\ FailsGate(runs, r, n)
      /\ UNCHANGED <<chain, asked, entry, aborted, spent, forked, misjudged>>
  BY DEF TimesOut
<1>3. /\ r \in DOMAIN runs /\ n \in runs[r].chunk /\ Good(r, runs[r]) /\ runs[r] \in Run
      /\ sessions \in Nat /\ forked \in BOOLEAN /\ misjudged \in BOOLEAN /\ spent \in Nat
      /\ ~ forked => ~ misjudged
  BY <1>1, AtNode
<1>4. PICK new : /\ runs' = Put(runs, r, new) /\ Good(r, new) /\ Step(runs[r], new, n, 0)
                 /\ sessions' = sessions /\ new.session = runs[r].session
  BY <1>1, <1>3, FailsGateGoes
<1>5. SessionStep(runs, r, new, sessions, sessions', asked, asked')
  BY <1>1, <1>3, <1>4, SameSessionStep
<1>6. Beyond(0)
  BY <1>1, <1>3, <1>4 DEF Beyond
<1> QED
  BY <1>1, <1>4, <1>5, <1>6, StepKeeps

\* A human's approval is of an attempt the node has made in this run.
LEMMA ApproveIsRight ==
    ASSUME Parts, NEW q \in asked, NEW r, At(r, q.node, "asking"), SameSession(r, q)
    PROVE  /\ Good(r, Approve(r, q)) /\ Moved(runs[r], Approve(r, q), q.node)
           /\ Approve(r, q).session = runs[r].session
           /\ Approve(r, q).node[q.node].approved.born = Approve(r, q).born
           /\ Approve(r, q).node[q.node].approved.attempt \in 1 .. Approve(r, q).node[q.node].attempt
           /\ Approve(r, q).node[q.node].status # "failed"
<1> DEFINE n == q.node
           a == [born |-> q.born, attempt |-> q.attempt]
           new == Approve(r, q)
<1>1. /\ r \in DOMAIN runs /\ n \in runs[r].chunk /\ n \in Node /\ Good(r, runs[r])
      /\ runs[r] \in Run /\ runs[r].node[n].status = "asking"
      /\ ApartIn(runs, sessions, asked) /\ sessions \in Nat
  BY AtNode
<1>2. /\ q.born \in Nat /\ q.attempt \in Nat /\ q.attempt >= 1
      /\ q.born = runs[r].born /\ q.attempt <= runs[r].node[n].attempt
  <2>1. q \in Requests(sessions) /\ q.attempt >= 1
    BY <1>1 DEF ApartIn
  <2>2. q.session \in 1 .. sessions /\ q.born \in Nat /\ q.attempt \in Nat
    BY <2>1 DEF Requests
  <2>3. q.session \in SessionsOf(runs[r])
    BY <1>1, <2>2 DEF SameSession, SessionsOf
  <2> QED
    BY <1>1, <2>1, <2>2, <2>3 DEF ApartIn
<1>3. runs[r].node[n].attempt \in Nat
  BY <1>1, RunFields, StateFields
<1>4. Good(r, new) /\ Moved(runs[r], new, n) /\ new.session = runs[r].session
      /\ new.node[n].approved = a /\ new.node[n].attempt = runs[r].node[n].attempt
      /\ new.node[n].status = runs[r].node[n].status
  <2>1. a \in [born : Nat, attempt : Nat]
    BY <1>2
  <2>2. new = [runs[r] EXCEPT !.node[n].approved = a]
    BY DEF Approve
  <2> HIDE DEF a, new
  <2>3. Approves(r, runs[r], n, a, [runs[r] EXCEPT !.node[n].approved = a])
    BY <1>1, <2>1, ApproveMoves
  <2> QED
    BY <1>1, <2>2, <2>3 DEF Approves
<1>5. a.born = q.born /\ a.attempt = q.attempt
  OBVIOUS
<1> HIDE DEF a, new
<1>6. new.born = runs[r].born
  BY <1>4 DEF Moved
<1> QED
  BY <1>1, <1>2, <1>3, <1>4, <1>5, <1>6 DEF new, n

LEMMA RespondKeeps ==
    ASSUME Parts, NEW q \in asked, NEW approves \in BOOLEAN, Respond(q, approves)
    PROVE  Parts'
<1>1. asked' = asked \ {q} /\ UNCHANGED <<chain, entry, aborted, spent, forked, misjudged>>
  BY DEF Respond
<1>2. CASE UNCHANGED <<runs, sessions>>
  <2>1. ApartIn(runs', sessions', asked')
    BY <1>1, <1>2 DEF Parts, ApartIn
  <2>2. /\ AllGood(runs') /\ TreeOf(runs') /\ IsFiniteSet(DOMAIN runs') /\ Plain'
    BY <1>1, <1>2 DEF Parts, Plain
  <2>3. Untouched' /\ ChainCounted' /\ Line' /\ InBooks'
    BY <1>1, <1>2 DEF Parts, Untouched, ChainCounted, Line, InBooks, Finished
  <2>4. CompletedIsPaid' /\ OverIsQuiet'
    BY <1>1, <1>2 DEF Parts, CompletedIsPaid, OverIsQuiet, Finished, Status
  <2> QED
    BY <2>1, <2>2, <2>3, <2>4 DEF Parts
<1>3. ASSUME NEW r \in DOMAIN runs, At(r, q.node, "asking"), SameSession(r, q), approves,
             Passes(Put(runs, r, Approve(r, q)), r, q.node)
      PROVE  Parts'
  <2> DEFINE n == q.node
             mid == Approve(r, q)
  <2>1. /\ n \in runs[r].chunk /\ n \in Node /\ Good(r, runs[r]) /\ runs[r] \in Run
        /\ AllGood(runs) /\ ApartIn(runs, sessions, asked)
        /\ sessions \in Nat /\ forked \in BOOLEAN /\ misjudged \in BOOLEAN /\ spent \in Nat
        /\ ~ forked => ~ misjudged
    BY <1>3, AtNode
  <2>2. /\ Good(r, mid) /\ Moved(runs[r], mid, n) /\ mid.session = runs[r].session
        /\ mid.node[n].approved.born = mid.born
        /\ mid.node[n].approved.attempt \in 1 .. mid.node[n].attempt
        /\ mid.node[n].status # "failed"
    BY <1>3, ApproveIsRight
  <2>3. Passes(Put(runs, r, mid), r, n)
    BY <1>3
  <2> HIDE DEF mid, n
  <2>4. n \in mid.chunk
    BY <2>1, <2>2 DEF Moved
  <2> DEFINE P == Put(runs, r, mid)
  <2>5. P[r] = mid
    BY DEF Put
  <2>6. \A new : Put(P, r, new) = Put(runs, r, new)
    BY PutPut
  <2> HIDE DEF P
  <2>7. PICK new : /\ runs' = Put(P, r, new) /\ Good(r, new) /\ Step(mid, new, n, 0)
                   /\ \/ sessions' = sessions /\ new.session = mid.session
                      \/ sessions' = sessions + 1 /\ new.session = sessions + 1
    BY <2>1, <2>2, <2>3, <2>4, <2>5, PassesGoes DEF P
  <2>8. Step(runs[r], mid, n, 0)
    BY <2>1, <2>2, MovedIsStep DEF Good
  <2>9. Step(runs[r], new, n, 0)
    BY <2>1, <2>2, <2>7, <2>8, StepsAdd DEF Good
  <2>10. SessionStep(runs, r, new, sessions, sessions', asked, asked') /\ sessions' \in Nat
    <3>1. asked' \subseteq asked
      BY <1>1
    <3>2. CASE sessions' = sessions /\ new.session = mid.session
      BY <2>1, <2>2, <2>9, <3>1, <3>2, SameSessionStep
    <3>3. CASE sessions' = sessions + 1 /\ new.session = sessions + 1
      <4>1. \A m \in Node : runs[r].node[m].attempt \in Nat
        BY <2>1, RunFields, StateFields
      <4>2. GoesOn(runs[r], new)
        BY <2>9, <4>1 DEF Step, GoesOn
      <4> QED
        BY <2>1, <3>1, <3>3, <4>2 DEF SessionStep
    <3> QED
      BY <2>7, <3>2, <3>3
  <2>11. At(r, n, "asking")
    BY <1>3 DEF n
  <2>12. Beyond(0)
    BY <1>1, <2>1, <2>10 DEF Beyond
  <2>13. runs' = Put(runs, r, new) /\ Good(r, new)
    BY <2>6, <2>7
  <2> QED
    BY <2>9, <2>10, <2>11, <2>12, <2>13, StepKeeps
<1>4. ASSUME NEW r \in DOMAIN runs, At(r, q.node, "asking"), FailsGate(runs, r, q.node)
      PROVE  Parts'
  <2> DEFINE n == q.node
  <2>1. /\ n \in runs[r].chunk /\ Good(r, runs[r]) /\ runs[r] \in Run
        /\ sessions \in Nat /\ forked \in BOOLEAN /\ misjudged \in BOOLEAN /\ spent \in Nat
        /\ ~ forked => ~ misjudged
    BY <1>4, AtNode
  <2>2. PICK new : /\ runs' = Put(runs, r, new) /\ Good(r, new) /\ Step(runs[r], new, n, 0)
                   /\ sessions' = sessions /\ new.session = runs[r].session
    BY <1>4, <2>1, FailsGateGoes
  <2>3. SessionStep(runs, r, new, sessions, sessions', asked, asked')
    <3>1. asked' \subseteq asked
      BY <1>1
    <3> QED
      BY <2>1, <2>2, <3>1, SameSessionStep
  <2>4. Beyond(0)
    BY <1>1, <2>1, <2>2 DEF Beyond
  <2> QED
    BY <1>4, <2>2, <2>3, <2>4, StepKeeps
<1> QED
  BY <1>2, <1>3, <1>4 DEF Respond

LEMMA RefuseKeeps ==
    ASSUME Parts, NEW r, NEW n, Refuse(r, n)
    PROVE  Parts'
<1> DEFINE new == Failed(runs[r], n)
<1>1. At(r, n, "calling") /\ InChain(Calls[n]) /\ runs' = Put(runs, r, new)
  BY DEF Refuse
<1>2. /\ misjudged' = (misjudged \/ Calls[n] \notin Ancestors(r))
      /\ forked' = (forked \/ Beside(r))
      /\ UNCHANGED <<chain, sessions, asked, entry, aborted, spent>>
  BY DEF Refuse
<1>3. /\ r \in DOMAIN runs /\ n \in runs[r].chunk /\ Good(r, runs[r]) /\ runs[r] \in Run
      /\ runs[r].status = "running"
      /\ sessions \in Nat /\ forked \in BOOLEAN /\ misjudged \in BOOLEAN /\ spent \in Nat
      /\ ~ forked => ~ misjudged
  BY <1>1, AtNode
<1>4. Good(r, new) /\ Moved(runs[r], new, n) /\ new.session = runs[r].session
  BY <1>3, FailedMoves
<1> HIDE DEF new
<1>5. Step(runs[r], new, n, 0)
  BY <1>3, <1>4, MovedIsStep DEF Good
<1>6. SessionStep(runs, r, new, sessions, sessions', asked, asked')
  BY <1>2, <1>3, <1>4, <1>5, SameSessionStep
<1>7. forked' \in BOOLEAN /\ misjudged' \in BOOLEAN
  BY <1>2, <1>3
<1>8. ASSUME ~ forked' PROVE ~ misjudged'
  <2>1. ~ forked /\ ~ misjudged /\ \A q \in DOMAIN runs : IsPrefix(q, r)
    BY <1>2, <1>3, <1>8 DEF Beside
  <2>2. NamedBy(runs, chain)
    <3>1. ~ Finished
      BY <1>3, Ongoing
    <3> QED
      BY <2>1, <3>1 DEF Parts, Line
  <2>3. PICK i \in 1 .. Len(chain) : chain[i] = Calls[n]
    BY <1>1 DEF InChain
  <2>4. \E q \in DOMAIN runs : runs[q].strategy = Calls[n]
    BY <2>2, <2>3 DEF NamedBy
  <2>5. Calls[n] \in Ancestors(r)
    BY <2>1, <2>4 DEF Ancestors
  <2> QED
    BY <1>2, <2>1, <2>5
<1>9. Beyond(0)
  BY <1>2, <1>3, <1>7, <1>8 DEF Beyond
<1> QED
  BY <1>1, <1>4, <1>5, <1>6, <1>9, StepKeeps

\* The next chunk, of this level or of the next one.
LEMMA StartKeeps ==
    ASSUME Parts, NEW r \in DOMAIN runs, runs[r].status = "running",
           \A n \in runs[r].chunk : runs[r].node[n].status \in Settled,
           NEW run, Good(r, run), run.chunk = {}, run.cost = Weight(runs[r]),
           run.node = runs[r].node, run.strategy = runs[r].strategy, run.status = "running",
           run.born = runs[r].born, run.session = runs[r].session,
           NEW c, c \subseteq PendingIn(run),
           runs' = Put(runs, r, Started(run, c)),
           UNCHANGED <<chain, sessions, asked, entry, aborted, spent, forked, misjudged>>
    PROVE  Parts'
<1> DEFINE new == Started(run, c)
<1>1. \A n \in c : n \in NodesOf[run.strategy] /\ run.node[n].status = "pending"
  BY DEF PendingIn, Level
<1>2. /\ Good(r, new) /\ Weight(new) = Weight(runs[r])
      /\ new.strategy = runs[r].strategy /\ new.status = "running"
      /\ new.born = runs[r].born /\ new.session = runs[r].session
      /\ \A n \in Node : /\ runs[r].node[n].status # "pending" => new.node[n] = runs[r].node[n]
                         /\ new.node[n].attempt >= runs[r].node[n].attempt
                         /\ new.node[n].asks = runs[r].node[n].asks
  BY <1>1, StartedGood
<1> HIDE DEF new
<1>3. /\ AllGood(runs) /\ sessions \in Nat /\ spent \in Nat
      /\ forked \in BOOLEAN /\ misjudged \in BOOLEAN
      /\ ~ forked => ~ misjudged
  BY DEF Parts, Plain, Line
<1>4. Weight(new) = Weight(runs[r]) + 0
  BY <1>2, <1>3, WeightIsNat DEF AllGood, Good
<1>5. Goes(runs, r, new, 0)
  BY <1>2, <1>4 DEF Goes
<1>6. SessionStep(runs, r, new, sessions, sessions', asked, asked')
  BY <1>2 DEF SessionStep, GoesOn
<1>7. Beyond(0)
  BY <1>3 DEF Beyond
<1>8. runs' = Put(runs, r, new)
  BY DEF new
<1> QED
  BY <1>5, <1>6, <1>7, <1>8, Quiet

LEMMA DoneFacts ==
    ASSUME Parts, NEW r, ChunkDone(r)
    PROVE  /\ r \in DOMAIN runs /\ runs[r].status = "running" /\ Good(r, runs[r])
           /\ \A n \in runs[r].chunk : runs[r].node[n].status \in Settled
BY DEF ChunkDone, Status, Parts, AllGood

LEMMA NextChunkKeeps ==
    ASSUME Parts, NEW r, NextChunk(r)
    PROVE  Parts'
<1> DEFINE run == Billed(runs[r])
<1>1. /\ r \in DOMAIN runs /\ runs[r].status = "running" /\ Good(r, runs[r])
      /\ \A n \in runs[r].chunk : runs[r].node[n].status \in Settled
  BY DoneFacts DEF NextChunk
<1>2. /\ Good(r, run) /\ run.cost = Weight(runs[r]) /\ run.chunk = {} /\ run.node = runs[r].node
      /\ run.strategy = runs[r].strategy /\ run.status = runs[r].status
      /\ run.born = runs[r].born /\ run.session = runs[r].session /\ run.passed = runs[r].passed
  BY <1>1, BilledGood
<1>3. /\ \E c \in Chunk(runs[r]) : runs' = Put(runs, r, Started(run, c))
      /\ UNCHANGED <<chain, sessions, asked, entry, aborted, spent, forked, misjudged>>
  BY DEF NextChunk
<1> HIDE DEF run
<1>4. PICK c \in SUBSET PendingIn(runs[r]) : runs' = Put(runs, r, Started(run, c))
  BY <1>3 DEF Chunk
<1>5. PendingIn(run) = PendingIn(runs[r])
  BY <1>2 DEF PendingIn, Level
<1> QED
  BY <1>1, <1>2, <1>3, <1>4, <1>5, StartKeeps

LEMMA NextLevelKeeps ==
    ASSUME Parts, NEW r, NextLevel(r)
    PROVE  Parts'
<1> DEFINE run == Advanced(runs[r])
<1>1. /\ r \in DOMAIN runs /\ runs[r].status = "running" /\ Good(r, runs[r])
      /\ \A n \in runs[r].chunk : runs[r].node[n].status \in Settled
  BY DoneFacts DEF NextLevel, LevelDone
<1>2. /\ Good(r, run) /\ run.cost = Weight(runs[r]) /\ run.chunk = {} /\ run.node = runs[r].node
      /\ run.strategy = runs[r].strategy /\ run.status = runs[r].status
      /\ run.born = runs[r].born /\ run.session = runs[r].session
  BY <1>1, AdvancedGood
<1>3. /\ \E c \in Chunk(run) : runs' = Put(runs, r, Started(run, c))
      /\ UNCHANGED <<chain, sessions, asked, entry, aborted, spent, forked, misjudged>>
  BY DEF NextLevel
<1> HIDE DEF run
<1>4. PICK c \in SUBSET PendingIn(run) : runs' = Put(runs, r, Started(run, c))
  BY <1>3 DEF Chunk
<1> QED
  BY <1>1, <1>2, <1>3, <1>4, StartKeeps

LEMMA LevelsDoneKeeps ==
    ASSUME Parts, NEW r, LevelsDone(r)
    PROVE  Parts'
<1> DEFINE run == Advanced(runs[r])
           new == [run EXCEPT !.status = "gating"]
<1>1. /\ r \in DOMAIN runs /\ runs[r].status = "running" /\ Good(r, runs[r])
      /\ \A n \in runs[r].chunk : runs[r].node[n].status \in Settled
  BY DoneFacts DEF LevelsDone, LevelDone
<1>2. /\ Good(r, run) /\ Weight(run) = Weight(runs[r]) /\ run.chunk = {} /\ run.node = runs[r].node
      /\ run.strategy = runs[r].strategy /\ run.born = runs[r].born /\ run.session = runs[r].session
  BY <1>1, AdvancedGood
<1>3. /\ runs' = Put(runs, r, new)
      /\ UNCHANGED <<chain, sessions, asked, entry, aborted, spent, forked, misjudged>>
  BY DEF LevelsDone
<1> HIDE DEF run
<1>4. /\ new \in Run /\ new.node = run.node /\ new.chunk = {} /\ new.cost = run.cost
      /\ new.strategy = run.strategy /\ new.born = run.born /\ new.session = run.session
      /\ new.status = "gating"
  BY <1>2 DEF Good, Run
<1> HIDE DEF new
<1>5. Good(r, new)
  <2>1. RunShape(r, new)
    BY <1>2, <1>4 DEF Good, RunShape
  <2>2. ApprovedIn(new)
    BY <1>2, <1>4 DEF Good, ApprovedIn
  <2> QED
    BY <1>4, <2>1, <2>2 DEF Good
<1>6. Weight(new) = Weight(runs[r])
  BY <1>2, <1>4 DEF Weight
<1>7. /\ AllGood(runs) /\ sessions \in Nat /\ spent \in Nat
      /\ forked \in BOOLEAN /\ misjudged \in BOOLEAN
      /\ ~ forked => ~ misjudged
  BY DEF Parts, Plain, Line
<1>8. Weight(new) = Weight(runs[r]) + 0 /\ \A m \in Node : runs[r].node[m].attempt \in Nat
  BY <1>1, <1>6, WeightIsNat, RunFields, StateFields DEF Good
<1>9. Goes(runs, r, new, 0)
  BY <1>1, <1>2, <1>4, <1>5, <1>8 DEF Goes
<1>10. SessionStep(runs, r, new, sessions, sessions', asked, asked')
  BY <1>1, <1>2, <1>3, <1>4, <1>8 DEF SessionStep, GoesOn
<1>11. Beyond(0)
  BY <1>3, <1>7 DEF Beyond
<1>12. runs[r].status \in {"running", "gating"}
  BY <1>1
<1> QED
  BY <1>1, <1>3, <1>9, <1>10, <1>11, <1>12, Quiet

-----------------------------------------------------------------------------
(* The steps of the bridge. *)

LEMMA AbortKeeps ==
    ASSUME Parts, Abort
    PROVE  Parts'
<1>1. /\ entry' = "failed" /\ aborted' = TRUE
      /\ UNCHANGED <<runs, chain, sessions, asked, spent, forked, misjudged>>
  BY DEF Abort
<1>2. /\ AllGood(runs') /\ TreeOf(runs') /\ IsFiniteSet(DOMAIN runs')
      /\ ApartIn(runs', sessions', asked')
  BY <1>1 DEF Parts
<1>3. Plain' /\ Untouched'
  BY <1>1 DEF Parts, Plain, Untouched, Over
<1>4. ChainCounted' /\ Line' /\ InBooks'
  BY <1>1 DEF Parts, ChainCounted, Line, InBooks, Finished
<1>5. CompletedIsPaid' /\ OverIsQuiet'
  BY <1>1 DEF Parts, CompletedIsPaid, OverIsQuiet, Finished, Status
<1> QED
  BY <1>2, <1>3, <1>4, <1>5 DEF Parts

LEMMA ExecuteKeeps ==
    ASSUME Parts, NEW s \in Strategy, Execute(s)
    PROVE  Parts'
<1> DEFINE run == FreshRun(s, 1)
<1>1. /\ entry = "none" /\ entry' = "running" /\ chain' = <<s>> /\ sessions' = 1
      /\ \E c \in Chunk(run) : runs' = Put(runs, <<>>, Started(run, c))
      /\ UNCHANGED <<asked, aborted, spent, forked, misjudged>>
  BY DEF Execute
<1>0. IsFresh(<<>>, s, 1, run)
  BY FreshGood
<1> HIDE DEF run
<1>2. /\ Good(<<>>, run) /\ run.strategy = s /\ run.status = "running"
      /\ run.chunk = {} /\ run.cost = 0 /\ run.born = 1 /\ run.session = 1
      /\ \A n \in Node : run.node[n].asks = 0
  BY <1>0 DEF IsFresh
<1>3. PICK c \in SUBSET PendingIn(run) : runs' = Put(runs, <<>>, Started(run, c))
  BY <1>1 DEF Chunk
<1> DEFINE new == Started(run, c)
<1>4. \A n \in c : n \in NodesOf[run.strategy] /\ run.node[n].status = "pending"
  BY DEF PendingIn, Level
<1>5. /\ Good(<<>>, new) /\ Weight(new) = 0 /\ new.strategy = s /\ new.status = "running"
      /\ new.born = 1 /\ new.session = 1 /\ \A n \in Node : new.node[n].asks = 0
  BY <1>2, <1>4, StartedGood
<1>6. /\ DOMAIN runs = {} /\ asked = {} /\ spent = 0 /\ ~ misjudged
      /\ AllGood(runs) /\ TreeOf(runs) /\ IsFiniteSet(DOMAIN runs) /\ Plain
  BY <1>1 DEF Parts, Untouched
<1>7. <<>> \in Seq(Node)
  BY EmptySeq
<1>8. IsPut(runs', runs, <<>>, new)
  BY <1>3, PutIs
<1>9. DOMAIN runs' = {<<>>} /\ runs'[<<>>] = new
  BY <1>6, <1>8 DEF IsPut
<1>10. Total(runs') = 0
  <2>1. Total(runs') = Weight(new) + Total(runs)
    BY <1>3, <1>5, <1>6, <1>7, NewTotal
  <2>2. Total(runs) = 0
    BY <1>6, SumEmpty DEF Total
  <2> QED
    BY <1>5, <2>1, <2>2
<1> HIDE DEF new
<1>11. AllGood(runs')
  BY <1>5, <1>7, <1>9 DEF AllGood
<1>12. TreeOf(runs')
  BY <1>9 DEF TreeOf
<1>13. ApartIn(runs', sessions', asked')
  <2>1. SessionsOf(new) = {1}
    BY <1>5 DEF SessionsOf
  <2> QED
    BY <1>1, <1>6, <1>9, <2>1 DEF ApartIn
<1>14. IsFiniteSet(DOMAIN runs') /\ Cardinality(DOMAIN runs') = 1
  BY <1>9, FS_Singleton
<1>15. ~ Finished'
  BY <1>5, <1>9 DEF Finished, Over
<1>16. <<s>> \in Seq(Strategy) /\ Len(<<s>>) = 1 /\ <<s>>[1] = s
  OBVIOUS
<1>17. Plain' /\ Untouched'
  BY <1>1, <1>6, <1>16 DEF Plain, Untouched
<1>18. ChainCounted'
  BY <1>1, <1>14, <1>15, <1>16 DEF ChainCounted
<1>19. Line'
  <2>1. OnePath(runs')
    BY <1>7, <1>9, PrefixItself DEF OnePath
  <2>2. NoneTwice(runs')
    BY <1>9 DEF NoneTwice
  <2>3. NamedBy(runs', chain')
    <3>1. Len(<<>>) = 0
      BY EmptySeq
    <3> QED
      BY <1>1, <1>5, <1>9, <1>16, <3>1 DEF NamedBy
  <2> QED
    BY <1>1, <1>6, <2>1, <2>2, <2>3 DEF Line
<1>20. InBooks'
  BY <1>1, <1>6, <1>10 DEF InBooks
<1>21. CompletedIsPaid' /\ OverIsQuiet'
  BY <1>15 DEF CompletedIsPaid, OverIsQuiet
<1> QED
  BY <1>11, <1>12, <1>13, <1>14, <1>17, <1>18, <1>19, <1>20, <1>21 DEF Parts

\* A node calls a strategy: another run is under way, below it.
LEMMA CallKeeps ==
    ASSUME Parts, NEW r, NEW n, Call(r, n)
    PROVE  Parts'
<1> DEFINE fresh == FreshRun(Calls[n], sessions + 1)
           called == [runs[r] EXCEPT !.node[n].status = "inside"]
           P == Put(runs, r, called)
           c == Append(r, n)
<1>1. /\ At(r, n, "calling") /\ ~ InChain(Calls[n]) /\ chain' = Append(chain, Calls[n])
      /\ sessions' = sessions + 1
      /\ \E k \in Chunk(fresh) : runs' = Put(P, c, Started(fresh, k))
      /\ forked' = (forked \/ Beside(r))
      /\ UNCHANGED <<asked, entry, aborted, spent, misjudged>>
  BY DEF Call
<1>2. /\ r \in DOMAIN runs /\ n \in runs[r].chunk /\ n \in Node /\ r \in Seq(Node)
      /\ Good(r, runs[r]) /\ runs[r] \in Run /\ runs[r].status = "running"
      /\ runs[r].node[n].status = "calling"
      /\ AllGood(runs) /\ ApartIn(runs, sessions, asked)
      /\ sessions \in Nat /\ forked \in BOOLEAN /\ misjudged \in BOOLEAN /\ spent \in Nat
      /\ ~ forked => ~ misjudged
  BY <1>1, AtNode
<1>3. /\ TreeOf(runs) /\ IsFiniteSet(DOMAIN runs) /\ Plain /\ Line /\ InBooks
  BY DEF Parts
<1>4. ~ Finished /\ entry # "none" /\ Len(chain) = Cardinality(DOMAIN runs)
  BY <1>2, Ongoing
<1>5. Calls[n] # NoStrategy /\ Calls[n] \in Strategy
  BY <1>2, StrategyAssumption DEF Good, RunShape
<1>6. IsFresh(c, Calls[n], sessions + 1, fresh)
  BY <1>2, <1>5, FreshGood
<1>7. Waits(r, runs[r], n, "inside", called)
  BY <1>2, <1>5, InsideMoves
<1>8. c \in Seq(Node) /\ c # <<>> /\ Front(c) = r /\ Last(c) = n /\ Len(c) = Len(r) + 1
  BY <1>2, AppendPath
<1> HIDE DEF fresh, called
<1>9. c \notin DOMAIN runs
  BY <1>2, <1>3, <1>8 DEF TreeOf
<1>10. PICK k \in SUBSET PendingIn(fresh) : runs' = Put(P, c, Started(fresh, k))
  BY <1>1 DEF Chunk
<1> DEFINE new == Started(fresh, k)
<1>11. /\ Good(c, new) /\ Weight(new) = 0 /\ new.strategy = Calls[n] /\ new.status = "running"
       /\ new.born = sessions + 1 /\ new.session = sessions + 1
       /\ \A m \in Node : new.node[m].asks = 0
  <2>1. /\ Good(c, fresh) /\ fresh.strategy = Calls[n] /\ fresh.status = "running"
        /\ fresh.chunk = {} /\ fresh.cost = 0
        /\ fresh.born = sessions + 1 /\ fresh.session = sessions + 1
        /\ \A m \in Node : fresh.node[m].asks = 0
    BY <1>6 DEF IsFresh
  <2>2. \A m \in k : m \in NodesOf[fresh.strategy] /\ fresh.node[m].status = "pending"
    BY DEF PendingIn, Level
  <2> HIDE DEF c
  <2> QED
    BY <2>1, <2>2, StartedGood
<1> HIDE DEF new, c
<1>12. /\ Good(r, called) /\ Step(runs[r], called, n, 0) /\ called.session = runs[r].session
       /\ called.node[n].status = "inside"
  BY <1>2, <1>7, MovedIsStep DEF Waits, Good
<1>13. Goes(runs, r, called, 0)
  BY <1>2, <1>12, NodeGoes
<1>14. TreeOf(P) /\ AllGood(P)
  BY <1>2, <1>3, <1>13, GoesTree
<1>15. ApartIn(P, sessions, asked)
  <2>1. SessionStep(runs, r, called, sessions, sessions, asked, asked)
    BY <1>2, <1>12, SameSessionStep
  <2> QED
    BY <1>2, <1>12, <2>1, PutApart
<1>16. IsPut(P, runs, r, called)
  BY PutIs
<1>17. IsPut(runs', P, c, new)
  BY <1>10, PutIs DEF new
<1>18. /\ DOMAIN P = DOMAIN runs
       /\ \A q \in DOMAIN runs : P[q].strategy = runs[q].strategy
       /\ OnePath(runs) => OnePath(P)
       /\ NoneTwice(runs) => NoneTwice(P)
       /\ NamedBy(runs, chain) => NamedBy(P, chain)
  BY <1>13, GoesLine, Zenon
<1>19. NoneFailedIn(P) => spent = Total(P)
  BY <1>2, <1>3, <1>13, GoesInBooks, TotalIsNat DEF InBooks
<1>20. P[r].node[n].status = "inside" /\ runs' = Put(P, c, new)
  BY <1>10, <1>12, <1>16 DEF IsPut, new
<1>21. /\ DOMAIN runs' = DOMAIN runs \cup {c} /\ runs'[c] = new
       /\ \A q \in DOMAIN runs : runs'[q] = P[q] /\ q # c
  BY <1>9, <1>17, <1>18 DEF IsPut
<1>C. /\ chain \in Seq(Strategy) /\ chain' \in Seq(Strategy) /\ Len(chain') = Len(chain) + 1
      /\ Len(chain) \in Nat /\ chain'[Len(chain) + 1] = Calls[n]
      /\ \A i \in 1 .. Len(chain) : chain'[i] = chain[i]
  BY <1>1, <1>3, <1>5, AppendProperties, LenProperties DEF Plain
<1>R. ~ Finished'
  <2>1. P[<<>>].status \in {"running", "gating"} \/ P[<<>>] = runs[<<>>] \/ <<>> \notin DOMAIN runs
    <3>1. CASE r = <<>>
      BY <1>13, <1>16, <3>1 DEF Goes, IsPut
    <3>2. CASE r # <<>>
      BY <1>16, <3>2 DEF IsPut
    <3> QED
      BY <3>1, <3>2
  <2> QED
    BY <1>4, <1>8, <1>21, <2>1 DEF Finished, Over
<1> HIDE DEF P
<1>22. TreeOf(runs') /\ AllGood(runs')
  <2>1. Fitting(P, c, new)
    <3>1. \A q \in DOMAIN P : q # <<>> => Front(q) # c
      BY <1>9, <1>14, <1>18 DEF TreeOf
    <3> QED
      BY <1>2, <1>8, <1>18, <1>20, <3>1 DEF Fitting
  <2> QED
    BY <1>8, <1>11, <1>14, <1>20, <2>1, PutTree, PutGood
<1>23. ApartIn(runs', sessions', asked')
  <2>1. asked' = asked
    BY <1>1
  <2>2. SessionStep(P, c, new, sessions, sessions', asked, asked')
    BY <1>1, <1>2, <1>9, <1>11, <1>18, <2>1 DEF SessionStep
  <2> QED
    BY <1>2, <1>11, <1>14, <1>15, <1>20, <2>2, PutApart
<1>24. IsFiniteSet(DOMAIN runs') /\ Cardinality(DOMAIN runs') = Cardinality(DOMAIN runs) + 1
  BY <1>3, <1>9, <1>21, FS_AddElement
<1>25. Plain' /\ Untouched'
  BY <1>1, <1>2, <1>3, <1>4, <1>C DEF Plain, Untouched
<1>26. ChainCounted'
  BY <1>4, <1>24, <1>R, <1>C DEF ChainCounted
<1>27. InBooks'
  <2> SUFFICES ASSUME NoneFailedIn(runs') PROVE spent' = Total(runs')
    BY DEF InBooks
  <2>1. NoneFailedIn(P)
    BY <1>18, <1>21 DEF NoneFailedIn
  <2>2. Total(runs') = Weight(new) + Total(P)
    BY <1>3, <1>8, <1>9, <1>11, <1>14, <1>18, <1>20, NewTotal
  <2>3. Total(P) = spent
    BY <1>19, <2>1
  <2> QED
    BY <1>1, <1>2, <1>11, <2>2, <2>3
<1>28. CompletedIsPaid' /\ OverIsQuiet'
  BY <1>R DEF CompletedIsPaid, OverIsQuiet
<1>29. Line'
  <2> SUFFICES ASSUME ~ forked'
               PROVE  OnePath(runs') /\ NoneTwice(runs') /\ ~ misjudged' /\ NamedBy(runs', chain')
    BY <1>R DEF Line
  <2>1. ~ forked /\ \A q \in DOMAIN runs : IsPrefix(q, r)
    BY <1>1, <1>2 DEF Beside
  <2>2. OnePath(runs) /\ NoneTwice(runs) /\ NamedBy(runs, chain)
    BY <1>3, <1>4, <2>1 DEF Line
  <2>3. \A q \in DOMAIN runs : q \in Seq(Node) /\ IsPrefix(q, c) /\ Len(q) \in Nat /\ Len(q) <= Len(r)
    BY <1>2, <2>1, PrefixAppend, PrefixPlaces, LenProperties DEF AllGood, c
  <2>4. \A q \in DOMAIN runs : ~ IsPrefix(c, q)
    BY <1>8, <2>3, PrefixPlaces
  <2>5. OnePath(runs')
    BY <1>8, <1>21, <2>2, <2>3, PrefixItself DEF OnePath
  <2>6. ASSUME NEW q \in DOMAIN runs PROVE runs[q].strategy # Calls[n]
    <3>1. Len(q) + 1 \in 1 .. Len(chain)
      BY <1>C, <2>2, <2>3 DEF NamedBy
    <3>2. PICK p \in DOMAIN runs : Len(p) = Len(q) /\ runs[p].strategy = chain[Len(q) + 1]
      <4>1. PICK p \in DOMAIN runs : Len(p) = Len(q) + 1 - 1 /\ runs[p].strategy = chain[Len(q) + 1]
        BY <2>2, <3>1 DEF NamedBy
      <4> QED
        BY <2>3, <4>1
    <3>3. p = q
      BY <1>2, <2>2, <3>2, SameLength
    <3> QED
      BY <1>1, <3>1, <3>2, <3>3 DEF InChain
  <2>7. NoneTwice(runs')
    <3> SUFFICES ASSUME NEW p \in DOMAIN runs', NEW q \in DOMAIN runs', p # q, IsPrefix(p, q)
                 PROVE  runs'[p].strategy # runs'[q].strategy
      BY DEF NoneTwice
    <3>1. CASE p # c /\ q # c
      BY <1>18, <1>21, <2>2, <3>1 DEF NoneTwice
    <3>2. CASE p = c
      BY <1>21, <2>4, <3>2
    <3>3. CASE q = c /\ p # c
      BY <1>11, <1>18, <1>21, <2>6, <3>3
    <3> QED
      BY <3>1, <3>2, <3>3
  <2>8. Len(c) = Len(chain)
    <3>1. \A q \in DOMAIN runs : Len(q) < Len(chain)
      BY <2>2 DEF NamedBy
    <3>2. Len(chain) \in 1 .. Len(chain)
      BY <1>2, <1>C, <2>3, <3>1
    <3>3. PICK q \in DOMAIN runs : Len(q) = Len(chain) - 1
      BY <2>2, <3>2 DEF NamedBy
    <3> QED
      BY <1>2, <1>8, <1>C, <2>3, <3>1, <3>3
  <2>9. NamedBy(runs', chain')
    <3>1. ASSUME NEW q \in DOMAIN runs' PROVE Len(q) < Len(chain')
      BY <1>C, <1>21, <2>2, <2>3, <2>8 DEF NamedBy
    <3>2. ASSUME NEW i \in 1 .. Len(chain')
          PROVE  \E q \in DOMAIN runs' : Len(q) = i - 1 /\ runs'[q].strategy = chain'[i]
      <4>1. CASE i = Len(chain) + 1
        BY <1>11, <1>21, <1>C, <2>8, <4>1
      <4>2. CASE i \in 1 .. Len(chain)
        <5>1. PICK q \in DOMAIN runs : Len(q) = i - 1 /\ runs[q].strategy = chain[i]
          BY <2>2, <4>2 DEF NamedBy
        <5> QED
          BY <1>18, <1>21, <1>C, <4>2, <5>1
      <4> QED
        BY <1>C, <4>1, <4>2
    <3> QED
      BY <3>1, <3>2 DEF NamedBy
  <2> QED
    BY <1>1, <1>2, <2>1, <2>5, <2>7, <2>9
<1> QED
  BY <1>22, <1>23, <1>24, <1>25, <1>26, <1>27, <1>28, <1>29 DEF Parts

-----------------------------------------------------------------------------
(* A run that returns. *)

\* run is r's record when its last chunk has settled and was billed.
Closed(r, run) ==
    /\ r \in DOMAIN runs /\ runs[r].status \in {"running", "gating"}
    /\ \A n \in Node : runs[r].node[n].status \in Settled \cup {"pending"}
    /\ Good(r, run) /\ run.chunk = {} /\ run.cost = Weight(runs[r]) /\ run.node = runs[r].node
    /\ run.strategy = runs[r].strategy /\ run.born = runs[r].born /\ run.session = runs[r].session

LEMMA FrontOfChain ==
    ASSUME NEW ch \in Seq(Strategy), Len(ch) >= 1
    PROVE  /\ Front(ch) \in Seq(Strategy) /\ Len(Front(ch)) = Len(ch) - 1
           /\ \A i \in 1 .. Len(ch) - 1 : Front(ch)[i] = ch[i]
<1>1. Len(ch) \in Nat /\ \A i \in 1 .. Len(ch) : ch[i] \in Strategy
  BY LenProperties, ElementOfSeq
<1> DEFINE k == Len(ch) - 1
<1>3. k \in Nat /\ \A i \in 1 .. k : ch[i] \in Strategy
  BY <1>1
<1> HIDE DEF k
<1>4. /\ SubSeq(ch, 1, k) \in Seq(Strategy) /\ Len(SubSeq(ch, 1, k)) = k
      /\ \A i \in 1 .. k : SubSeq(ch, 1, k)[i] = ch[i]
  BY <1>3, SubSeqProperties
<1> QED
  BY <1>4 DEF Front, k

\* No node of a run has failed when it is completed.
LEMMA CompletedIsClean ==
    ASSUME NEW r, NEW run, Good(r, run), AllCompleted(run)
    PROVE  \A n \in Node : run.node[n].status \notin {"failed", "gate_failed"}
BY DEF Good, RunShape, AllCompleted

LEMMA RootReturns ==
    ASSUME Parts, NEW run, Closed(<<>>, run), NEW status \in Over,
           status = "completed" => AllCompleted(run),
           runs' = Put(runs, <<>>, [run EXCEPT !.status = status]), chain' = Front(chain),
           entry' = status, UNCHANGED <<sessions, asked, aborted, spent, forked, misjudged>>
    PROVE  Parts'
<1> DEFINE new == [run EXCEPT !.status = status]
<1>1. /\ AllGood(runs) /\ TreeOf(runs) /\ ApartIn(runs, sessions, asked) /\ Plain /\ Line /\ InBooks
      /\ <<>> \in DOMAIN runs /\ Good(<<>>, run)
  BY DEF Parts, Closed
<1>2. ~ Finished /\ Len(chain) = Cardinality(DOMAIN runs)
  BY Ongoing DEF Closed
<1>3. DOMAIN runs = {<<>>}
  <2>1. ~ Nodes(runs[<<>>], "inside")
    BY DEF Closed, Nodes, Settled
  <2> QED
    BY <1>1, <2>1, RootAlone
<1>4. /\ new \in Run /\ new.node = run.node /\ new.chunk = {} /\ new.cost = run.cost
      /\ new.strategy = run.strategy /\ new.born = run.born /\ new.session = run.session
      /\ new.status = status
  BY <1>1 DEF Good, Run, Closed
<1> HIDE DEF new
<1>5. Good(<<>>, new)
  <2>1. RunShape(<<>>, new)
    BY <1>1, <1>4 DEF Good, RunShape, Closed
  <2>2. ApprovedIn(new)
    BY <1>1, <1>4 DEF Good, ApprovedIn
  <2> QED
    BY <1>4, <2>1, <2>2 DEF Good
<1>6. DOMAIN runs' = {<<>>} /\ runs'[<<>>] = new
  <2>1. IsPut(runs', runs, <<>>, new)
    BY PutIs DEF new
  <2> QED
    BY <1>3, <2>1 DEF IsPut
<1>7. <<>> \in Seq(Node)
  BY EmptySeq
<1>8. AllGood(runs') /\ TreeOf(runs')
  BY <1>5, <1>6, <1>7 DEF AllGood, TreeOf
<1>9. ApartIn(runs', sessions', asked')
  <2>1. /\ runs'[<<>>].session = runs[<<>>].session /\ runs'[<<>>].born = runs[<<>>].born
        /\ runs'[<<>>].node = runs[<<>>].node
    BY <1>4, <1>6 DEF Closed
  <2>2. DOMAIN runs' = DOMAIN runs /\ sessions' = sessions /\ asked' = asked
    BY <1>3, <1>6
  <2> QED
    BY <1>1, <1>3, <2>1, <2>2 DEF ApartIn, SessionsOf
<1>10. IsFiniteSet(DOMAIN runs') /\ Cardinality(DOMAIN runs) = 1
  BY <1>3, <1>6, FS_Singleton
<1>11. Finished'
  BY <1>4, <1>6 DEF Finished
<1>12. chain' = <<>>
  <2>1. chain \in Seq(Strategy) /\ Len(chain) = 1
    BY <1>1, <1>2, <1>10 DEF Plain
  <2>2. chain' \in Seq(Strategy) /\ Len(chain') = 0
    BY <2>1, FrontOfChain
  <2> QED
    BY <2>2, EmptySeq
<1>13. Plain' /\ Untouched'
  <2>1. <<>> \in Seq(Strategy)
    BY EmptySeq
  <2> QED
    BY <1>1, <1>12, <2>1 DEF Plain, Untouched, Over
<1>14. ChainCounted'
  BY <1>11, <1>12 DEF ChainCounted
<1>15. Line'
  <2>1. OnePath(runs') /\ NoneTwice(runs')
    BY <1>6, <1>7, PrefixItself DEF OnePath, NoneTwice
  <2> QED
    BY <1>1, <1>11, <2>1 DEF Line
<1>16. Total(runs) = Weight(runs[<<>>]) /\ Total(runs') = Weight(new)
  <2>1. IsFiniteSet({<<>>}) /\ {<<>>} \ {<<>>} = {}
    BY FS_Singleton
  <2>2. ASSUME NEW rs, AllGood(rs), DOMAIN rs = {<<>>} PROVE Total(rs) = Weight(rs[<<>>])
    <3> DEFINE R == Drop(rs, <<>>)
    <3>1. DOMAIN R = {}
      BY <2>2 DEF Drop
    <3> HIDE DEF R
    <3>2. Total(R) = 0
      BY <3>1, SumEmpty DEF Total
    <3>3. Total(rs) = Weight(rs[<<>>]) + Total(R)
      BY <2>1, <2>2, DropTotal DEF R
    <3>4. Weight(rs[<<>>]) \in Nat
      BY <2>2, WeightIsNat DEF AllGood, Good
    <3> QED
      BY <3>2, <3>3, <3>4
  <2> QED
    BY <1>1, <1>3, <1>6, <1>8, <2>2
<1>17. Weight(new) = run.cost
  <2>1. CostOf(new.node, {}) = 0
    BY <1>4, CostZero
  <2> QED
    BY <1>4, <2>1, RunFields DEF Weight
<1>18. Total(runs') = Total(runs) /\ Total(runs) = run.cost
  BY <1>16, <1>17 DEF Closed
<1>19. NoneFailedIn(runs') <=> NoneFailedIn(runs)
  BY <1>3, <1>4, <1>6 DEF NoneFailedIn, Closed
<1>20. InBooks'
  BY <1>1, <1>18, <1>19 DEF InBooks
<1>21. CompletedIsPaid'
  <2> SUFFICES ASSUME status = "completed" PROVE new.cost = spent'
    BY <1>4, <1>6 DEF CompletedIsPaid
  <2>1. NoneFailedIn(runs)
    BY <1>1, <1>3, CompletedIsClean DEF NoneFailedIn, Closed
  <2> QED
    BY <1>1, <1>4, <1>18, <2>1 DEF InBooks
<1>22. OverIsQuiet'
  BY <1>4, <1>6, <1>12 DEF OverIsQuiet, Status, Closed
<1> QED
  BY <1>8, <1>9, <1>10, <1>13, <1>14, <1>15, <1>20, <1>21, <1>22 DEF Parts

\* What the caller is left with when run r, called by its node n, has gone.
Resumed(caller, n, r, new, run) ==
    LET B == Drop(runs, r)
    IN  /\ runs' = Put(B, caller, new) /\ Good(caller, new)
        /\ SessionStep(B, caller, new, sessions, sessions', asked, asked') /\ sessions' \in Nat
        /\ \/ Step(runs[caller], new, n, run.cost) /\ AllCompleted(run)
           \/ Step(runs[caller], new, n, 0) /\ new.node[n].status = "failed"

LEMMA CallerFacts ==
    ASSUME Parts, NEW run, NEW r, r # <<>>, Closed(r, run)
    PROVE  /\ Front(r) \in DOMAIN runs /\ Front(r) \in Seq(Node) /\ Last(r) \in Node
           /\ Front(r) # r /\ Append(Front(r), Last(r)) = r /\ r \in Seq(Node)
           /\ Good(Front(r), runs[Front(r)]) /\ Last(r) \in runs[Front(r)].chunk
           /\ runs[Front(r)].node[Last(r)].status = "inside"
           /\ runs[Front(r)].status = "running" /\ Front(r) \in DOMAIN Drop(runs, r)
           /\ Drop(runs, r)[Front(r)] = runs[Front(r)]
           /\ AllGood(Drop(runs, r)) /\ TreeOf(Drop(runs, r))
           /\ ApartIn(Drop(runs, r), sessions, asked) /\ sessions \in Nat
<1>1. /\ AllGood(runs) /\ TreeOf(runs) /\ ApartIn(runs, sessions, asked) /\ sessions \in Nat
      /\ r \in DOMAIN runs
  BY DEF Parts, Plain, Closed
<1>2. r \in Seq(Node)
  BY <1>1 DEF AllGood
<1>3. /\ Front(r) \in Seq(Node) /\ Last(r) \in Node /\ Append(Front(r), Last(r)) = r
      /\ Front(r) # r
  BY <1>2, FrontPath
<1>4. Front(r) \in DOMAIN runs /\ runs[Front(r)].node[Last(r)].status = "inside"
  BY <1>1 DEF TreeOf
<1>5. Good(Front(r), runs[Front(r)])
  BY <1>1, <1>4 DEF AllGood
<1>6. Last(r) \in runs[Front(r)].chunk
  BY <1>3, <1>4, <1>5 DEF Good, RunShape, Settled
<1>7. runs[Front(r)].status = "running"
  BY <1>5, <1>6, ChunkState
<1>8. IsDrop(Drop(runs, r), runs, r)
  BY DropIs
<1>9. AllGood(Drop(runs, r)) /\ ApartIn(Drop(runs, r), sessions, asked)
  BY <1>1, DropGood, DropApart
<1>10. TreeOf(Drop(runs, r))
  <2>1. ~ Nodes(runs[r], "inside")
    BY DEF Closed, Nodes, Settled
  <2>2. \A q \in DOMAIN runs : q # <<>> => Front(q) # r
    BY <1>1, <2>1, NoneBelow
  <2> QED
    BY <1>1, <2>2, DropTree
<1> QED
  BY <1>1, <1>2, <1>3, <1>4, <1>5, <1>6, <1>7, <1>8, <1>9, <1>10 DEF IsDrop

LEMMA ReturnResumes ==
    ASSUME Parts, NEW run, NEW r, r # <<>>, Closed(r, run), NEW status \in Over,
           status = "completed" => AllCompleted(run),
           ReturnsToNode(Front(r), Last(r), run, status)
    PROVE  \E new : Resumed(Front(r), Last(r), r, new, run)
<1> DEFINE caller == Front(r)
           n == Last(r)
           B == Drop(runs, r)
<1>1. /\ caller \in DOMAIN runs /\ Append(caller, n) = r
      /\ Good(caller, runs[caller]) /\ n \in runs[caller].chunk /\ n \in Node
      /\ runs[caller].node[n].status = "inside"
      /\ caller \in DOMAIN B /\ B[caller] = runs[caller]
      /\ AllGood(B) /\ ApartIn(B, sessions, asked) /\ sessions \in Nat
  BY CallerFacts
<1>2. Without(Append(caller, n)) = B
  BY <1>1 DEF Without, Drop
<1>3. runs[caller] \in Run
  BY <1>1 DEF Good
<1>4. CASE /\ status = "completed"
           /\ Judged(Put(B, caller, AddCost(runs[caller], n, run.cost)), caller, n)
  <2> DEFINE mid == AddCost(runs[caller], n, run.cost)
  <2>1. run.cost \in Nat
    BY RunFields DEF Closed, Good
  <2>2. /\ Good(caller, mid) /\ Step(runs[caller], mid, n, run.cost)
        /\ mid.session = runs[caller].session /\ mid.chunk = runs[caller].chunk
        /\ mid.node[n].status = "inside"
    BY <1>1, <2>1, AddCostSteps
  <2>3. Judged(Put(B, caller, mid), caller, n)
    BY <1>4
  <2> HIDE DEF mid, caller, n, B
  <2>4. PICK new : /\ runs' = Put(B, caller, new) /\ Good(caller, new) /\ Step(mid, new, n, 0)
                   /\ Outcome(mid, new, n)
    BY <1>1, <2>2, <2>3, JudgedGoes
  <2>5. SessionStep(B, caller, new, sessions, sessions', asked, asked') /\ sessions' \in Nat
    BY <1>1, <2>2, <2>4, OutcomeApart
  <2>6. Step(runs[caller], new, n, run.cost)
    BY <1>1, <1>3, <2>1, <2>2, <2>4, StepsAdd DEF Good
  <2>7. AllCompleted(run)
    BY <1>4
  <2>8. Resumed(caller, n, r, new, run)
    BY <2>4, <2>5, <2>6, <2>7 DEF Resumed, B
  <2> QED
    BY <2>8 DEF caller, n
<1>5. CASE /\ runs' = Put(B, caller, Failed(runs[caller], n))
           /\ UNCHANGED <<sessions, asked>>
  <2> DEFINE new == Failed(runs[caller], n)
  <2>1. /\ Good(caller, new) /\ Moved(runs[caller], new, n)
        /\ new.session = runs[caller].session /\ new.node[n].status = "failed"
    BY <1>1, FailedMoves
  <2>2. runs' = Put(B, caller, new) /\ sessions' = sessions /\ asked' = asked
    BY <1>5
  <2> HIDE DEF new, caller, n, B
  <2>3. Step(runs[caller], new, n, 0)
    BY <1>1, <1>3, <2>1, MovedIsStep DEF Good
  <2>4. SessionStep(B, caller, new, sessions, sessions', asked, asked')
    BY <1>1, <1>3, <2>1, <2>2, <2>3, SameSessionStep
  <2>5. Resumed(caller, n, r, new, run)
    BY <1>1, <2>1, <2>2, <2>3, <2>4 DEF Resumed, B
  <2> QED
    BY <2>5 DEF caller, n
<1> QED
  BY <1>2, <1>4, <1>5 DEF ReturnsToNode

LEMMA CallerReturns ==
    ASSUME Parts, NEW run, NEW r, r # <<>>, Closed(r, run), NEW new,
           Resumed(Front(r), Last(r), r, new, run), chain' = Front(chain),
           UNCHANGED <<entry, aborted, spent, forked, misjudged>>
    PROVE  Parts'
<1> DEFINE caller == Front(r)
           n == Last(r)
           B == Drop(runs, r)
<1>1. /\ caller \in DOMAIN runs /\ caller # r /\ caller \in Seq(Node) /\ n \in Node
      /\ Append(caller, n) = r /\ r \in Seq(Node)
      /\ Good(caller, runs[caller]) /\ n \in runs[caller].chunk
      /\ runs[caller].node[n].status = "inside" /\ runs[caller].status = "running"
      /\ caller \in DOMAIN B /\ B[caller] = runs[caller]
      /\ AllGood(B) /\ TreeOf(B) /\ ApartIn(B, sessions, asked) /\ sessions \in Nat
  BY CallerFacts
<1>2. /\ runs' = Put(B, caller, new) /\ Good(caller, new)
      /\ SessionStep(B, caller, new, sessions, sessions', asked, asked') /\ sessions' \in Nat
      /\ \/ Step(runs[caller], new, n, run.cost) /\ AllCompleted(run)
         \/ Step(runs[caller], new, n, 0) /\ new.node[n].status = "failed"
  BY DEF Resumed
<1>3. IsDrop(B, runs, r)
  BY DropIs
<1>4. /\ AllGood(runs) /\ TreeOf(runs) /\ IsFiniteSet(DOMAIN runs) /\ Plain /\ Line /\ InBooks
      /\ r \in DOMAIN runs /\ Good(r, run)
  BY DEF Parts, Closed
<1>5. ~ Finished /\ entry # "none" /\ Len(chain) = Cardinality(DOMAIN runs)
  BY <1>1, Ongoing
<1> HIDE DEF B, caller, n
<1>6. IsPut(runs', B, caller, new)
  BY <1>2, PutIs
<1>7. /\ DOMAIN runs' = DOMAIN runs \ {r} /\ runs'[caller] = new
      /\ \A q \in DOMAIN runs' : q # caller => runs'[q] = runs[q]
  BY <1>1, <1>3, <1>6 DEF IsPut, IsDrop
<1>8. /\ new.strategy = runs[caller].strategy /\ new.status = "running"
      /\ \A m \in Node \ {n} : new.node[m] = runs[caller].node[m]
  BY <1>1, <1>2 DEF Step
<1>9. TreeOf(runs') /\ AllGood(runs')
  <2>1. ASSUME NEW q \in DOMAIN B, q # <<>>, Front(q) = caller
        PROVE  new.node[Last(q)].status = "inside"
    <3>1. q \in Seq(Node) /\ q # r /\ B[Front(q)].node[Last(q)].status = "inside"
      BY <1>1, <1>3, <2>1 DEF AllGood, IsDrop, TreeOf
    <3>2. Append(caller, Last(q)) = q /\ Last(q) \in Node
      BY <2>1, <3>1, FrontPath
    <3>3. Last(q) # n
      BY <1>1, <3>1, <3>2
    <3> QED
      BY <1>1, <1>8, <2>1, <3>1, <3>2, <3>3
  <2>2. Fitting(B, caller, new)
    BY <1>1, <2>1 DEF Fitting
  <2> QED
    BY <1>1, <1>2, <2>2, PutTree, PutGood
<1>10. ApartIn(runs', sessions', asked')
  BY <1>1, <1>2, PutApart
<1>11. IsFiniteSet(DOMAIN runs') /\ Cardinality(DOMAIN runs') = Cardinality(DOMAIN runs) - 1
       /\ Cardinality(DOMAIN runs) \in Nat
  BY <1>4, <1>7, FS_RemoveElement, FS_CardinalityType
<1>12. ~ Finished'
  <2>1. CASE caller = <<>>
    BY <1>7, <1>8, <2>1 DEF Finished, Over
  <2>2. CASE caller # <<>>
    BY <1>5, <1>7, <2>2 DEF Finished
  <2> QED
    BY <2>1, <2>2
<1>13. Len(chain) >= 1
  <2>1. Cardinality(DOMAIN runs) # 0
    BY <1>1, <1>4, FS_EmptySet
  <2> QED
    BY <1>5, <1>11, <2>1
<1>14. /\ chain \in Seq(Strategy) /\ Len(chain) \in Nat
       /\ chain' \in Seq(Strategy) /\ Len(chain') = Len(chain) - 1
       /\ \A i \in 1 .. Len(chain) - 1 : chain'[i] = chain[i]
  <2>1. chain \in Seq(Strategy)
    BY <1>4 DEF Plain
  <2> QED
    BY <1>13, <2>1, FrontOfChain, LenProperties
<1>15. Plain' /\ Untouched'
  BY <1>2, <1>4, <1>5, <1>14 DEF Plain, Untouched
<1>16. ChainCounted'
  BY <1>5, <1>11, <1>12, <1>14 DEF ChainCounted
<1>17. CompletedIsPaid' /\ OverIsQuiet'
  BY <1>12 DEF CompletedIsPaid, OverIsQuiet
<1>18. InBooks'
  <2> SUFFICES ASSUME NoneFailedIn(runs') PROVE spent' = Total(runs')
    BY DEF InBooks
  <2>1. new.node[n].status # "failed"
    BY <1>1, <1>3, <1>6, <1>7 DEF NoneFailedIn, IsPut
  <2>2. Step(runs[caller], new, n, run.cost) /\ AllCompleted(run)
    BY <1>2, <2>1
  <2>3. run.cost \in Nat /\ run.cost = Weight(runs[r])
    BY <1>4, RunFields DEF Closed, Good
  <2>4. Total(runs') = Total(B) + run.cost
    <3>1. IsFiniteSet(DOMAIN B)
      BY <1>3, <1>4, FS_RemoveElement DEF IsDrop
    <3>2. Weight(new) = Weight(B[caller]) + run.cost
      BY <1>1, <2>1, <2>2 DEF Step
    <3> QED
      BY <1>1, <1>2, <2>3, <3>1, <3>2, PutTotal
  <2>5. Total(runs) = run.cost + Total(B)
    BY <1>4, <2>3, DropTotal DEF B
  <2>6. Total(B) \in Nat
    <3>1. IsFiniteSet(DOMAIN B)
      BY <1>3, <1>4, FS_RemoveElement DEF IsDrop
    <3> QED
      BY <1>1, <3>1, TotalIsNat
  <2>7. NoneFailedIn(runs)
    <3>1. \A m \in Node : runs[r].node[m].status \notin {"failed", "gate_failed"}
      BY <1>4, <2>2, CompletedIsClean DEF Closed
    <3>2. \A m \in Node : runs[caller].node[m].status \notin {"failed", "gate_failed"}
      <4>1. \A m \in Node : new.node[m].status \notin {"failed", "gate_failed"}
        BY <1>1, <1>7 DEF NoneFailedIn
      <4> QED
        BY <1>1, <1>8, <4>1
    <3>3. \A q \in DOMAIN runs \ {r, caller} : \A m \in Node :
            runs[q].node[m].status \notin {"failed", "gate_failed"}
      BY <1>7 DEF NoneFailedIn
    <3> QED
      BY <3>1, <3>2, <3>3 DEF NoneFailedIn
  <2>8. spent = Total(runs)
    BY <1>4, <2>7 DEF InBooks
  <2> QED
    BY <2>3, <2>4, <2>5, <2>6, <2>8
<1>19. Line'
  <2> SUFFICES ASSUME ~ forked
               PROVE  OnePath(runs') /\ NoneTwice(runs') /\ ~ misjudged' /\ NamedBy(runs', chain')
    BY <1>12 DEF Line
  <2>1. OnePath(runs) /\ NoneTwice(runs) /\ NamedBy(runs, chain) /\ ~ misjudged
    BY <1>4, <1>5 DEF Line
  <2>2. \A q \in DOMAIN runs' : q \in DOMAIN runs /\ runs'[q].strategy = runs[q].strategy
    BY <1>7, <1>8
  <2>3. OnePath(runs') /\ NoneTwice(runs')
    BY <2>1, <2>2 DEF OnePath, NoneTwice
  <2>4. \A q \in DOMAIN runs : Len(q) \in Nat /\ Len(q) <= Len(r)
    <3>1. ~ Nodes(runs[r], "inside")
      BY DEF Closed, Nodes, Settled
    <3>2. \A q \in DOMAIN runs : Len(q) \in Nat
      BY <1>4, LenProperties DEF AllGood
    <3> QED
      BY <1>4, <2>1, <3>1, <3>2, Longest
  <2>5. \A q \in DOMAIN runs : q # r => Len(q) # Len(r)
    BY <1>4, <2>1, SameLength
  <2>6. Len(r) = Len(chain) - 1
    <3>1. \A q \in DOMAIN runs : Len(q) < Len(chain)
      BY <2>1 DEF NamedBy
    <3>2. PICK q \in DOMAIN runs : Len(q) = Len(chain) - 1
      <4>1. Len(chain) \in 1 .. Len(chain)
        BY <1>13, <1>14
      <4> QED
        BY <2>1, <4>1 DEF NamedBy
    <3> QED
      BY <1>4, <1>14, <2>4, <3>1, <3>2
  <2>7. \A q \in DOMAIN runs' : Len(q) < Len(chain')
    BY <1>4, <1>7, <1>14, <2>4, <2>5, <2>6
  <2>8. ASSUME NEW i \in 1 .. Len(chain')
        PROVE  \E q \in DOMAIN runs' : Len(q) = i - 1 /\ runs'[q].strategy = chain'[i]
    <3>1. i \in 1 .. Len(chain) /\ i < Len(chain) /\ chain'[i] = chain[i]
      BY <1>14
    <3>2. PICK q \in DOMAIN runs : Len(q) = i - 1 /\ runs[q].strategy = chain[i]
      BY <2>1, <3>1 DEF NamedBy
    <3>3. q \in DOMAIN runs'
      BY <1>7, <1>14, <2>6, <3>1, <3>2
    <3> QED
      BY <2>2, <3>1, <3>2, <3>3
  <2>9. NamedBy(runs', chain')
    BY <2>7, <2>8 DEF NamedBy
  <2> QED
    BY <2>1, <2>3, <2>9
<1> QED
  BY <1>9, <1>10, <1>11, <1>15, <1>16, <1>17, <1>18, <1>19 DEF Parts

LEMMA ReturnsKeeps ==
    ASSUME Parts, NEW r, NEW run, Closed(r, run), NEW status \in Over,
           status = "completed" => AllCompleted(run), Returns(r, run, status)
    PROVE  Parts'
<1>1. chain' = Front(chain) /\ UNCHANGED <<aborted, spent, forked, misjudged>>
  BY DEF Returns
<1>2. CASE r = <<>>
  <2>1. /\ runs' = Put(runs, <<>>, [run EXCEPT !.status = status])
        /\ entry' = status /\ UNCHANGED <<sessions, asked>>
    BY <1>2 DEF Returns
  <2> QED
    BY <1>1, <1>2, <2>1, RootReturns
<1>3. CASE r # <<>>
  <2>1. ReturnsToNode(Front(r), Last(r), run, status) /\ UNCHANGED entry
    BY <1>3 DEF Returns
  <2>2. PICK new : Resumed(Front(r), Last(r), r, new, run)
    BY <1>3, <2>1, ReturnResumes
  <2> QED
    BY <1>1, <1>3, <2>1, <2>2, CallerReturns
<1> QED
  BY <1>2, <1>3

LEMMA SuspendsKeeps ==
    ASSUME Parts, NEW r, Suspends(r)
    PROVE  Parts'
<1> DEFINE run == Advanced(runs[r])
<1>1. /\ r \in DOMAIN runs /\ runs[r].status = "running" /\ Good(r, runs[r])
      /\ \A n \in runs[r].chunk : runs[r].node[n].status \in Settled
  BY DoneFacts DEF Suspends, LevelDone
<1>2. /\ Good(r, run) /\ run.cost = Weight(runs[r]) /\ run.chunk = {} /\ run.node = runs[r].node
      /\ run.strategy = runs[r].strategy /\ run.born = runs[r].born /\ run.session = runs[r].session
  BY <1>1, AdvancedGood
<1>3. Returns(r, run, "suspended")
  BY DEF Suspends
<1> HIDE DEF run
<1>4. \A n \in Node : runs[r].node[n].status \in Settled \cup {"pending"}
  BY <1>1, SettledIsOutside
<1>5. Closed(r, run)
  BY <1>1, <1>2, <1>4 DEF Closed
<1>6. "suspended" \in Over /\ "suspended" # "completed"
  BY DEF Over
<1> QED
  BY <1>3, <1>5, <1>6, ReturnsKeeps

LEMMA EndsKeeps ==
    ASSUME Parts, NEW r, NEW passed, Ends(r, passed)
    PROVE  Parts'
<1> DEFINE run == runs[r]
           status == IF passed /\ AllCompleted(run) THEN "completed" ELSE "failed"
<1>1. /\ r \in DOMAIN runs /\ run.status = "gating" /\ Returns(r, run, status)
  BY DEF Ends
<1>2. status \in Over /\ (status = "completed" => AllCompleted(run))
  BY DEF Over
<1>3. Good(r, run) /\ run.chunk = {} /\ run \in Run
  BY <1>1 DEF Parts, AllGood, Good, RunShape
<1>4. run.cost = Weight(run)
  <2>1. CostOf(run.node, {}) = 0
    BY <1>3, CostZero
  <2> QED
    BY <1>3, <2>1, RunFields DEF Weight
<1>5. \A n \in Node : run.node[n].status \in Settled \cup {"pending"}
  BY <1>3, SettledIsOutside
<1>6. Closed(r, run)
  BY <1>1, <1>3, <1>4, <1>5 DEF Closed
<1> HIDE DEF status
<1> QED
  BY <1>1, <1>2, <1>6, ReturnsKeeps

-----------------------------------------------------------------------------

LEMMA InitParts == Init => Parts
<1> SUFFICES ASSUME Init PROVE Parts
  OBVIOUS
<1>1. /\ DOMAIN runs = {} /\ chain = <<>> /\ sessions = 0 /\ asked = {} /\ entry = "none"
      /\ aborted = FALSE /\ spent = 0 /\ forked = FALSE /\ misjudged = FALSE
  BY DEF Init
<1>2. AllGood(runs) /\ TreeOf(runs) /\ ApartIn(runs, sessions, asked)
  BY <1>1 DEF AllGood, TreeOf, ApartIn
<1>3. IsFiniteSet(DOMAIN runs) /\ Cardinality(DOMAIN runs) = 0
  BY <1>1, FS_EmptySet
<1>4. <<>> \in Seq(Strategy) /\ Len(<<>>) = 0
  BY EmptySeq
<1>5. ~ Finished
  BY <1>1 DEF Finished
<1>6. Plain /\ Untouched /\ ChainCounted
  BY <1>1, <1>3, <1>4, <1>5 DEF Plain, Untouched, ChainCounted
<1>7. Line
  BY <1>1, <1>4 DEF Line, OnePath, NoneTwice, NamedBy
<1>8. InBooks
  BY <1>1, SumEmpty DEF InBooks, Total
<1>9. CompletedIsPaid /\ OverIsQuiet
  BY <1>5 DEF CompletedIsPaid, OverIsQuiet
<1> QED
  BY <1>2, <1>3, <1>6, <1>7, <1>8, <1>9 DEF Parts

LEMMA StepParts == Parts /\ [Next]_vars => Parts'
<1> SUFFICES ASSUME Parts, [Next]_vars PROVE Parts'
  OBVIOUS
<1>1. ASSUME NEW s \in Strategy, Execute(s) PROVE Parts'
  BY <1>1, ExecuteKeeps
<1>2. ASSUME NEW r \in DOMAIN runs, Advances(r) PROVE Parts'
  <2>1. CASE NextChunk(r)
    BY <2>1, NextChunkKeeps
  <2>2. CASE NextLevel(r)
    BY <2>2, NextLevelKeeps
  <2>3. CASE LevelsDone(r)
    BY <2>3, LevelsDoneKeeps
  <2>4. CASE Suspends(r)
    BY <2>4, SuspendsKeeps
  <2>5. ASSUME NEW passed \in BOOLEAN, Ends(r, passed) PROVE Parts'
    BY <2>5, EndsKeeps
  <2>6. ASSUME NEW n \in Node, Answers(r, n) PROVE Parts'
    BY <2>6, AnswersKeeps
  <2>7. ASSUME NEW n \in Node, Throws(r, n) PROVE Parts'
    BY <2>7, ThrowsKeeps
  <2>8. ASSUME NEW n \in Node, Call(r, n) PROVE Parts'
    BY <2>8, CallKeeps
  <2>9. ASSUME NEW n \in Node, Refuse(r, n) PROVE Parts'
    BY <2>9, RefuseKeeps
  <2>10. ASSUME NEW n \in Node, TimesOut(r, n) PROVE Parts'
    BY <2>10, TimesOutKeeps
  <2> QED
    BY <1>2, <2>1, <2>2, <2>3, <2>4, <2>5, <2>6, <2>7, <2>8, <2>9, <2>10 DEF Advances
<1>3. ASSUME NEW q \in asked, NEW approves \in BOOLEAN, Respond(q, approves) PROVE Parts'
  BY <1>3, RespondKeeps
<1>4. CASE Abort
  BY <1>4, AbortKeeps
<1>5. CASE UNCHANGED vars
  <2>1. /\ runs' = runs /\ chain' = chain /\ sessions' = sessions /\ asked' = asked
        /\ entry' = entry /\ aborted' = aborted /\ spent' = spent /\ forked' = forked
        /\ misjudged' = misjudged
    BY <1>5 DEF vars
  <2>2. /\ AllGood(runs') /\ TreeOf(runs') /\ ApartIn(runs', sessions', asked')
        /\ IsFiniteSet(DOMAIN runs') /\ Plain' /\ Untouched'
    BY <2>1 DEF Parts, Plain, Untouched
  <2>3. ChainCounted' /\ Line' /\ InBooks'
    BY <2>1 DEF Parts, ChainCounted, Line, InBooks, Finished
  <2>4. CompletedIsPaid' /\ OverIsQuiet'
    BY <2>1 DEF Parts, CompletedIsPaid, OverIsQuiet, Finished, Status
  <2> QED
    BY <2>2, <2>3, <2>4 DEF Parts
<1> QED
  BY <1>1, <1>2, <1>3, <1>4, <1>5 DEF Next

\* The invariant of the executor holds: of every strategy, whatever its graph of
\* nodes, its gates and what it calls.
THEOREM Invariant == Spec => []IInv
<1>1. Spec => []Parts
  BY InitParts, StepParts, PTL DEF Spec
<1> QED
  BY <1>1, PartsAreInv, PTL

\* The records of the runs, the chain and the table have their types.
THEOREM TypeCorrect == Spec => []TypeOK
BY Invariant, PTL DEF IInv

\* A node with a human gate is completed only when a human approved an attempt it
\* has made, in the run it belongs to (human-approval-resolver.ts).
THEOREM ApprovalIsNeeded == Spec => []ApprovalNeeded
BY Invariant, PTL DEF IInv

\* No strategy runs inside itself and no call is refused without a cycle, as long
\* as no strategy is called while another one runs beside it.
THEOREM CyclesAreDetected == Spec => []CycleDetection
BY Invariant, PTL DEF IInv

\* What a completed strategy reports as its cost is all that was spent on it, on
\* attempts sent back and in the strategies it called.
THEOREM CompletedStrategiesArePaid == Spec => []CompletedIsPaid
BY Invariant, PTL DEF IInv

\* Once execute has returned to the bridge, no run, no node and no entry of the
\* chain is left (dag-executor.ts).
THEOREM OverMeansQuiet == Spec => []OverIsQuiet
BY Invariant, PTL DEF IInv
=============================================================================
