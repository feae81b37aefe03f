-------------------------- MODULE BatchFlowProofs --------------------------
(***************************************************************************)
(* The rows of a batch on their way through the workers, for all lengths   *)
(* and every number of rows, ranks, micro batches and workers: answers     *)
(* come back in the order of the rows, karmarkar_karp leaves no partition  *)
(* empty and balances up to the heaviest row, reward keys name columns.    *)
(*                                                                         *)
(* In this order: numbers and finite sets; sorting, flattening and cutting *)
(* of sequences; the states and the heap of karmarkar_karp; partitions and *)
(* permutations; the invariants of a training step and of a validation.    *)
(***************************************************************************)
EXTENDS BatchFlow, Integers, FiniteSetTheorems, SequenceTheorems,
        WellFoundedInduction, TLAPS

-----------------------------------------------------------------------------
(* Numbers and finite sets *)

\* A nonempty set of naturals has a least element: induction over the naturals
\* is a least counterexample below.
LEMMA Least ==
  ASSUME NEW T \in SUBSET Nat, T # {}
  PROVE  \E x \in T : \A y \in T : x <= y
<1> DEFINE R == {ss \in Nat \X Nat : ss[1] < ss[2]}
<1>1. OpToRel(<, Nat) = R
  BY Zenon DEF OpToRel
<1>2. IsWellFoundedOn(R, Nat)
  BY Zenon, <1>1, NatLessThanWellFounded
<1>3. T \subseteq Nat
  OBVIOUS
<1>4. \A a, b \in Nat : a < b => <<a, b>> \in R
  OBVIOUS
<1> HIDE DEF R
<1>5. PICK x \in T : \A y \in T : ~ (<<y, x>> \in R)
  BY <1>2, <1>3, WFMin, Zenon
<1>6. \A y \in T : ~(y < x)
  BY <1>3, <1>4, <1>5
<1>7. x \in Nat /\ \A y \in T : y \in Nat
  BY <1>3
<1>8. \A y \in T : x <= y
  BY <1>6, <1>7
<1>9. QED
  BY <1>8

\* Max of a set of naturals with an upper bound
LEMMA MaxFacts ==
  ASSUME NEW S \in SUBSET Nat, S # {}, NEW b \in Nat, \A x \in S : x <= b
  PROVE  Max(S) \in S /\ \A x \in S : x <= Max(S)
<1> DEFINE T == {u \in Nat : \A x \in S : x <= u}
<1>1. PICK u \in T : \A v \in T : u <= v
  BY Least
<1>2. u \in S
  <2>1. SUFFICES ASSUME u \notin S PROVE FALSE
    OBVIOUS
  <2>2. \A x \in S : x < u
    BY <2>1
  <2>3. PICK x \in S : x \in Nat
    OBVIOUS
  <2>4. u \in Nat /\ u - 1 \in Nat
    BY <2>2, <2>3
  <2>5. \A y \in S : y <= u - 1
    BY <2>2, <2>4
  <2>6. u - 1 \in T
    BY <2>4, <2>5
  <2>7. QED
    BY <1>1, <2>4, <2>6
<1>3. \E x \in S : \A y \in S : x >= y
  BY <1>1, <1>2
<1>4. QED
  BY <1>3 DEF Max

LEMMA MinFacts ==
  ASSUME NEW a \in Nat, NEW b \in Nat
  PROVE  Min({a, b}) \in {a, b} /\ Min({a, b}) <= a /\ Min({a, b}) <= b
<1>1. \E x \in {a, b} : \A y \in {a, b} : x =< y
  <2>1. CASE a <= b
    BY <2>1
  <2>2. CASE ~(a <= b)
    BY <2>2
  <2>3. QED
    BY <2>1, <2>2
<1>2. QED
  BY <1>1 DEF Min

\* A finite nonempty set with a strict total order has a first element.
LEMMA FirstExists ==
  ASSUME NEW H, IsFiniteSet(H), H # {}, NEW before \in [H -> SUBSET H],
         \A x \in H : x \notin before[x],
         \A x, y, z \in H : x \in before[y] /\ y \in before[z] => x \in before[z],
         \A x, y \in H : x = y \/ x \in before[y] \/ y \in before[x]
  PROVE  \E x \in H : \A y \in H \ {x} : x \in before[y]
<1> DEFINE C(x) == Cardinality(before[x])
           T == {C(x) : x \in H}
<1>1. \A x \in H : IsFiniteSet(before[x]) /\ C(x) \in Nat
  BY FS_Subset, FS_CardinalityType
<1>2. PICK x \in H : \A y \in H : C(x) <= C(y)
  <2>1. T \in SUBSET Nat /\ T # {}
    BY <1>1
  <2> HIDE DEF C
  <2>2. PICK c \in T : \A d \in T : c <= d
    BY <2>1, Least
  <2>3. QED
    BY <2>2
<1>3. before[x] = {}
  <2>1. SUFFICES ASSUME NEW y \in before[x] PROVE FALSE
    OBVIOUS
  <2>2. y \in H /\ before[y] \subseteq before[x] /\ y \notin before[y]
    BY <2>1
  <2>3. before[y] \in SUBSET before[x] /\ before[y] # before[x]
    BY <2>1, <2>2
  <2>4. C(y) <= C(x) /\ C(x) # C(y)
    BY <1>1, <2>3, FS_Subset
  <2>5. QED
    BY <1>1, <1>2, <2>2, <2>4
<1>4. QED
  BY <1>3

LEMMA IntervalFacts ==
  ASSUME NEW n \in Nat
  PROVE  IsFiniteSet(1 .. n) /\ Cardinality(1 .. n) = n
<1>1. 1 \in Int /\ n \in Int
  OBVIOUS
<1>2. /\ IsFiniteSet(1 .. n)
      /\ Cardinality(1 .. n) = IF 1 > n THEN 0 ELSE n - 1 + 1
  BY <1>1, FS_Interval
<1>3. QED
  BY <1>2

-----------------------------------------------------------------------------
(* Sorting *)

LEMMA TupleFacts ==
  ASSUME NEW X, NEW f \in Seq(X)
  PROVE  Tuple(f) = f
BY ConcatEmptySeq DEF Tuple

\* t has the elements of s in another order.
Rearranged(t, s) ==
  \E p \in [1 .. Len(s) -> 1 .. Len(s)] :
    /\ \A i, j \in 1 .. Len(s) : p[i] = p[j] => i = j
    /\ \A j \in 1 .. Len(s) : \E i \in 1 .. Len(s) : p[i] = j
    /\ t = [i \in 1 .. Len(s) |-> s[p[i]]]

\* A strict total order: before[i] is what comes before i.
Order(before, D) ==
  /\ before \in [D -> SUBSET D]
  /\ \A x \in D : x \notin before[x]
  /\ \A x, y, z \in D : x \in before[y] /\ y \in before[z] => x \in before[z]
  /\ \A x, y \in D : x = y \/ x \in before[y] \/ y \in before[x]

\* t is s in this order of its positions.
OrderedBy(t, s, before) ==
  \E p \in [1 .. Len(s) -> 1 .. Len(s)] :
    /\ \A i, j \in 1 .. Len(s) : p[i] = p[j] => i = j
    /\ \A j \in 1 .. Len(s) : \E i \in 1 .. Len(s) : p[i] = j
    /\ t = [i \in 1 .. Len(s) |-> s[p[i]]]
    /\ \A i, j \in 1 .. Len(s) : i < j => p[i] \in before[p[j]]

\* InOrder rearranges a sequence by a strict total order of its positions.
LEMMA InOrderFacts ==
  ASSUME NEW X, NEW s \in Seq(X), NEW before, Order(before, 1 .. Len(s))
  PROVE  /\ OrderedBy(InOrder(s, before), s, before)
         /\ Rearranged(InOrder(s, before), s)
<1> DEFINE n == Len(s)
           C(x) == Cardinality(before[x])
           rank == [x \in 1 .. n |-> C(x) + 1]
           p == [r \in 1 .. n |-> CHOOSE i \in 1 .. n : C(i) = r - 1]
<1>1. n \in Nat /\ DOMAIN s = 1 .. n /\ s \in [1 .. n -> X]
  BY LenProperties
<1>1a. /\ before \in [1 .. n -> SUBSET (1 .. n)]
       /\ \A x \in 1 .. n : x \notin before[x]
       /\ \A x, y, z \in 1 .. n :
            x \in before[y] /\ y \in before[z] => x \in before[z]
       /\ \A x, y \in 1 .. n : x = y \/ x \in before[y] \/ y \in before[x]
  BY DEF Order
<1>2. IsFiniteSet(1 .. n) /\ Cardinality(1 .. n) = n
  <2> HIDE DEF n
  <2>1. QED
    BY <1>1, IntervalFacts
<1>3. \A x \in 1 .. n : /\ IsFiniteSet(before[x])
                        /\ C(x) \in Nat /\ C(x) <= n - 1
  <2>1. SUFFICES ASSUME NEW x \in 1 .. n
                 PROVE  /\ IsFiniteSet(before[x])
                        /\ C(x) \in Nat /\ C(x) <= n - 1
    OBVIOUS
  <2>2. before[x] \in SUBSET (1 .. n) /\ x \notin before[x]
    BY <1>1a
  <2>3. before[x] # 1 .. n
    BY <2>2
  <2>4. IsFiniteSet(before[x]) /\ C(x) <= n /\ C(x) # n
    BY <1>2, <2>2, <2>3, FS_Subset
  <2>5. C(x) \in Nat
    BY <2>4, FS_CardinalityType
  <2>6. QED
    BY <1>1, <2>4, <2>5
<1>4. \A x, y \in 1 .. n : x \in before[y] => C(x) < C(y)
  <2>1. SUFFICES ASSUME NEW x \in 1 .. n, NEW y \in 1 .. n, x \in before[y]
                 PROVE  C(x) < C(y)
    OBVIOUS
  <2>2. before[x] \in SUBSET before[y] /\ before[x] # before[y]
    BY <1>1a, <2>1
  <2>3. C(x) <= C(y) /\ C(x) # C(y)
    BY <1>3, <2>2, FS_Subset
  <2>4. QED
    BY <1>3, <2>3
<1>5. \A x, y \in 1 .. n : C(x) = C(y) => x = y
  BY <1>1a, <1>3, <1>4
<1>6. rank \in Injection(1 .. n, 1 .. n)
  <2>1. \A x \in 1 .. n : C(x) + 1 \in 1 .. n
    BY <1>1, <1>3
  <2>2. \A x, y \in 1 .. n : C(x) + 1 = C(y) + 1 => x = y
    BY <1>3, <1>5
  <2> HIDE DEF C
  <2>3. rank \in [1 .. n -> 1 .. n]
    BY <2>1
  <2>4. \A x, y \in 1 .. n : rank[x] = rank[y] => x = y
    BY <2>2
  <2>5. QED
    BY <2>3, <2>4 DEF Injection, IsInjective
<1>7. \A r \in 1 .. n : \E i \in 1 .. n : C(i) = r - 1
  <2>1. rank \in Surjection(1 .. n, 1 .. n)
    BY <1>2, <1>6, FS_Injection
  <2>2. \A r \in 1 .. n : \E i \in 1 .. n : rank[i] = r
    BY <2>1 DEF Surjection
  <2>3. \A i \in 1 .. n : rank[i] = C(i) + 1 /\ C(i) \in Nat
    BY <1>3
  <2> HIDE DEF C, rank
  <2>4. SUFFICES ASSUME NEW r \in 1 .. n PROVE \E i \in 1 .. n : C(i) = r - 1
    OBVIOUS
  <2>5. PICK i \in 1 .. n : rank[i] = r
    BY <2>2
  <2>6. C(i) + 1 = r /\ C(i) \in Nat
    BY <2>3, <2>5
  <2>7. C(i) = r - 1
    BY <2>6
  <2>8. QED
    BY <2>7
<1>8. \A r \in 1 .. n : p[r] \in 1 .. n /\ C(p[r]) = r - 1
  <2> HIDE DEF C
  <2>1. SUFFICES ASSUME NEW r \in 1 .. n
                 PROVE  p[r] \in 1 .. n /\ C(p[r]) = r - 1
    OBVIOUS
  <2>2. p[r] = CHOOSE i \in 1 .. n : C(i) = r - 1
    OBVIOUS
  <2>3. QED
    BY <1>7, <2>2
<1>9. p \in [1 .. n -> 1 .. n] 
  <2>1. p = [r \in 1 .. n |-> p[r]]
    OBVIOUS
  <2> HIDE DEF p
  <2>2. QED
    BY <1>8, <2>1
<1>10. InOrder(s, before) = [i \in 1 .. n |-> s[p[i]]]
  <2>1. [r \in DOMAIN s |-> s[CHOOSE i \in DOMAIN s : C(i) = r - 1]]
          = [i \in 1 .. n |-> s[p[i]]]
    BY <1>1
  <2>2. [i \in 1 .. n |-> s[p[i]]] \in Seq(X)
    <3> HIDE DEF p
    <3>1. QED
      BY <1>1, <1>9
  <2>3. QED
    BY <2>1, <2>2, TupleFacts DEF InOrder
<1> HIDE DEF p
<1>12. \A i, j \in 1 .. n : p[i] = p[j] => i = j
  <2> HIDE DEF C
  <2>1. QED
    BY <1>8, <1>1
<1>13. \A j \in 1 .. n : \E i \in 1 .. n : p[i] = j
  <2>1. SUFFICES ASSUME NEW j \in 1 .. n PROVE \E i \in 1 .. n : p[i] = j
    OBVIOUS
  <2>2. C(j) + 1 \in 1 .. n /\ C(j) \in Nat
    BY <1>1, <1>3
  <2>3. C(p[C(j) + 1]) = C(j) /\ p[C(j) + 1] \in 1 .. n
    <3> HIDE DEF C
    <3>1. QED
      BY <1>8, <2>2
  <2>4. p[C(j) + 1] = j
    BY <1>5, <2>3
  <2>5. QED
    BY <2>2, <2>4
<1>14. \A i, j \in 1 .. n : i < j => p[i] \in before[p[j]]
  <2>1. SUFFICES ASSUME NEW i \in 1 .. n, NEW j \in 1 .. n, i < j
                 PROVE  p[i] \in before[p[j]]
    OBVIOUS
  <2>2. C(p[i]) = i - 1 /\ C(p[j]) = j - 1
    BY <1>8
  <2>3. ~(C(p[j]) < C(p[i])) /\ p[i] # p[j]
    BY <2>1, <2>2
  <2>4. p[j] \notin before[p[i]]
    BY <1>4, <1>8, <2>3
  <2>5. QED
    BY <1>1a, <1>8, <2>3, <2>4
<1>15. QED
  BY <1>9, <1>10, <1>12, <1>13, <1>14 DEF OrderedBy, Rearranged
-----------------------------------------------------------------------------
(* Recursion: sums and FlattenSeq *)

\* Induction over 1 .. n, with a set for the property
LEMMA Induct ==
  ASSUME NEW n \in Nat, NEW S, 1 \in S,
         \A m \in 1 .. n : m \in S /\ m + 1 \in 1 .. n => m + 1 \in S
  PROVE  \A m \in 1 .. n : m \in S
<1> DEFINE T == {m \in 1 .. n : m \notin S}
<1>1. SUFFICES ASSUME T # {} PROVE FALSE
  OBVIOUS
<1>2. T \in SUBSET Nat
  OBVIOUS
<1> HIDE DEF T
<1>3. PICK m \in T : \A y \in T : m <= y
  BY <1>1, <1>2, Least
<1>4. m \in 1 .. n /\ m \notin S /\ m # 1
  BY <1>3 DEF T
<1>5. m - 1 \in 1 .. n /\ (m - 1) + 1 = m
  BY <1>4
<1>6. m - 1 \notin T
  BY <1>3, <1>4, <1>5
<1>7. m - 1 \in S
  BY <1>5, <1>6 DEF T
<1>8. QED
  BY <1>4, <1>5, <1>7

\* What FlattenSeq computes: every prefix is the one before and the next part.
LEMMA FlattenRec ==
  ASSUME NEW X, NEW p \in Seq(Seq(X)), p # <<>>
  PROVE  \E f \in [1 .. Len(p) -> Seq(X)] :
           /\ f[1] = p[1]
           /\ \A i \in 2 .. Len(p) : f[i] = f[i - 1] \o p[i]
           /\ FlattenSeq(p) = f[Len(p)]
<1> DEFINE n == Len(p)
           Step(g, i) == IF i = 1 THEN p[i] ELSE g[i - 1] \o p[i]
           Fix(g) == g = [i \in 1 .. n |-> Step(g, i)]
           f == CHOOSE g : Fix(g)
           Ok == {m \in 1 .. n : \E g \in [1 .. n -> Seq(X)] :
                                   \A i \in 1 .. m : g[i] = Step(g, i)}
<1>1. n \in Nat /\ n >= 1 /\ \A i \in 1 .. n : p[i] \in Seq(X)
  BY LenProperties, EmptySeq
<1>2. FlattenSeq(p) = f[n]
  BY <1>1 DEF FlattenSeq
<1>3. 1 \in Ok
  <2> DEFINE g == [i \in 1 .. n |-> p[1]]
  <2>1. g \in [1 .. n -> Seq(X)] /\ \A i \in 1 .. 1 : g[i] = Step(g, i)
    BY <1>1
  <2> HIDE DEF g
  <2>2. QED
    BY <1>1, <2>1
<1>4. ASSUME NEW m \in 1 .. n, m \in Ok, m + 1 \in 1 .. n
      PROVE  m + 1 \in Ok
  <2>1. PICK g \in [1 .. n -> Seq(X)] : \A i \in 1 .. m : g[i] = Step(g, i)
    BY <1>4
  <2> DEFINE h == [i \in 1 .. n |-> Step(g, i)]
  <2>2. h \in [1 .. n -> Seq(X)]
    <3>1. \A i \in 1 .. n : Step(g, i) \in Seq(X)
      <4>1. SUFFICES ASSUME NEW i \in 1 .. n PROVE Step(g, i) \in Seq(X)
        OBVIOUS
      <4>2. CASE i = 1
        BY <1>1, <4>2
      <4>3. CASE i # 1
        <5>1. i - 1 \in 1 .. n
          BY <1>1, <4>3
        <5>2. g[i - 1] \in Seq(X) /\ p[i] \in Seq(X)
          BY <1>1, <5>1
        <5>3. g[i - 1] \o p[i] \in Seq(X)
          BY <5>2, ConcatProperties
        <5>4. QED
          BY <4>3, <5>3
      <4>4. QED
        BY <4>2, <4>3
    <3> HIDE DEF Step
    <3>2. QED
      BY <3>1
  <2>3. ASSUME NEW i \in 1 .. m + 1 PROVE h[i] = Step(h, i)
    <3>1. h[i] = Step(g, i)
      BY <2>3, <1>4
    <3>2. CASE i = 1
      BY <3>1, <3>2
    <3>3. CASE i # 1
      <4>1. i - 1 \in 1 .. m /\ i - 1 \in 1 .. n
        BY <1>1, <1>4, <2>3, <3>3
      <4>2. h[i - 1] = Step(g, i - 1) /\ g[i - 1] = Step(g, i - 1)
        BY <2>1, <4>1
      <4>3. QED
        BY <3>1, <3>3, <4>2
    <3>4. QED
      BY <3>2, <3>3
  <2> HIDE DEF h, Step
  <2>4. QED
    BY <1>4, <2>2, <2>3
<1>5. PICK g \in [1 .. n -> Seq(X)] : \A i \in 1 .. n : g[i] = Step(g, i)
  <2>1. n \in Ok
    <3> HIDE DEF Ok, n
    <3>1. \A m \in 1 .. n : m \in Ok
      BY <1>1, <1>3, <1>4, Induct
    <3>2. QED
      BY <1>1, <3>1
  <2>2. QED
    BY <2>1
<1>6. Fix(g)
  <2>1. g = [i \in 1 .. n |-> g[i]]
    OBVIOUS
  <2> HIDE DEF Step
  <2>2. QED
    BY <1>5, <2>1
<1>7. Fix(f)
  <2> HIDE DEF Fix
  <2>1. QED
    BY <1>6
<1>8. \A i \in 1 .. n : f[i] = Step(f, i)
  <2> HIDE DEF f, Step
  <2>1. QED
    BY <1>7
<1>9. f = [i \in 1 .. n |-> f[i]]
  <2> HIDE DEF f, Step
  <2>1. QED
    BY <1>7
<1> HIDE DEF f, Fix
<1>10. \A i \in 1 .. n : f[i] = g[i]
  <2> DEFINE S == {i \in 1 .. n : f[i] = g[i]}
  <2>1. 1 \in S
    <3>1. 1 \in 1 .. n
      BY <1>1
    <3>2. f[1] = p[1] /\ g[1] = p[1]
      BY <1>5, <1>8, <3>1
    <3>3. QED
      BY <3>1, <3>2
  <2>2. ASSUME NEW m \in 1 .. n, m \in S, m + 1 \in 1 .. n
        PROVE  m + 1 \in S
    <3>1. (m + 1) - 1 = m /\ m + 1 # 1
      BY <2>2
    <3>2. f[m + 1] = f[m] \o p[m + 1] /\ g[m + 1] = g[m] \o p[m + 1]
      BY <1>5, <1>8, <2>2, <3>1
    <3>3. QED
      BY <2>2, <3>2
  <2> HIDE DEF S
  <2>3. \A i \in 1 .. n : i \in S
    BY <1>1, <2>1, <2>2, Induct
  <2>4. QED
    BY <2>3 DEF S
<1>11. g[1] = p[1] /\ \A i \in 2 .. n : g[i] = g[i - 1] \o p[i]
  <2>1. 1 \in 1 .. n /\ \A i \in 2 .. n : i \in 1 .. n /\ i # 1
    BY <1>1
  <2> HIDE DEF n
  <2>2. QED
    BY <1>5, <2>1
<1>12. FlattenSeq(p) = g[n]
  BY <1>1, <1>2, <1>10
<1>13. QED
  BY <1>11, <1>12

\* The parts of p have no element in common, and none has one twice.
Apart(p) ==
  \A i, j \in 1 .. Len(p) : \A a \in 1 .. Len(p[i]), b \in 1 .. Len(p[j]) :
    p[i][a] = p[j][b] => i = j /\ a = b

\* f is distinct and has the elements of p up to part m.
FlatUpto(f, p, m) ==
  /\ \A a, b \in 1 .. Len(f) : f[a] = f[b] => a = b
  /\ \A a \in 1 .. Len(f) : \E i \in 1 .. m : \E b \in 1 .. Len(p[i]) :
       f[a] = p[i][b]
  /\ \A i \in 1 .. m : \A b \in 1 .. Len(p[i]) : \E a \in 1 .. Len(f) :
       f[a] = p[i][b]

LEMMA FlattenApart ==
  ASSUME NEW X, NEW p \in Seq(Seq(X)), p # <<>>, Apart(p)
  PROVE  FlattenSeq(p) \in Seq(X) /\ FlatUpto(FlattenSeq(p), p, Len(p))
<1> DEFINE n == Len(p)
<1>1. PICK f \in [1 .. n -> Seq(X)] :
           /\ f[1] = p[1]
           /\ \A i \in 2 .. n : f[i] = f[i - 1] \o p[i]
           /\ FlattenSeq(p) = f[n]
  BY FlattenRec
<1>2. n \in Nat /\ n >= 1 /\ \A i \in 1 .. n : p[i] \in Seq(X)
  BY LenProperties, EmptySeq
<1> DEFINE S == {m \in 1 .. n : FlatUpto(f[m], p, m)}
<1>3. 1 \in S
  <2>1. 1 \in 1 .. n
    BY <1>2
  <2>2. \A a, b \in 1 .. Len(p[1]) : p[1][a] = p[1][b] => a = b
    BY <2>1 DEF Apart
  <2>3. FlatUpto(p[1], p, 1)
    BY <2>2 DEF FlatUpto
  <2>4. QED
    BY <1>1, <2>1, <2>3
<1>4. ASSUME NEW m \in 1 .. n, m \in S, m + 1 \in 1 .. n
      PROVE  m + 1 \in S
  <2> DEFINE g == f[m]
             q == p[m + 1]
             h == f[m + 1]
  <2>1. m + 1 \in 2 .. n /\ (m + 1) - 1 = m
    BY <1>4
  <2>2. h = g \o q
    BY <1>1, <2>1
  <2>3. g \in Seq(X) /\ q \in Seq(X) /\ FlatUpto(g, p, m)
    BY <1>1, <1>2, <1>4
  <2> HIDE DEF g, q, h
  <2>4. /\ h \in Seq(X) /\ Len(h) = Len(g) + Len(q)
        /\ Len(g) \in Nat /\ Len(q) \in Nat
        /\ \A a \in 1 .. Len(g) : h[a] = g[a]
        /\ \A a \in 1 .. Len(q) : h[Len(g) + a] = q[a]
    BY <2>2, <2>3
  <2>4a. Len(h) = Len(g) + Len(q) /\ Len(g) \in Nat /\ Len(q) \in Nat
    BY <2>4
  <2>5. \A a \in 1 .. Len(h) : \/ a \in 1 .. Len(g) /\ h[a] = g[a]
                               \/ /\ a - Len(g) \in 1 .. Len(q)
                                  /\ h[a] = q[a - Len(g)]
    BY <2>2, <2>3
  <2>6. \A a \in 1 .. Len(g) : \A b \in 1 .. Len(q) : g[a] # q[b]
    <3>1. SUFFICES ASSUME NEW a \in 1 .. Len(g), NEW b \in 1 .. Len(q),
                          g[a] = q[b]
                   PROVE  FALSE
      OBVIOUS
    <3>2. PICK i \in 1 .. m : \E c \in 1 .. Len(p[i]) : g[a] = p[i][c]
      BY <2>3 DEF FlatUpto
    <3>3. PICK c \in 1 .. Len(p[i]) : g[a] = p[i][c]
      BY <3>2
    <3>4. i \in 1 .. n /\ i # m + 1
      BY <1>2, <1>4
    <3>5. p[i][c] = p[m + 1][b] /\ b \in 1 .. Len(p[m + 1])
      BY <3>1, <3>3 DEF q
    <3>6. i = m + 1
      BY <1>4, <3>3, <3>4, <3>5 DEF Apart
    <3>7. QED
      BY <3>4, <3>6
  <2>7. \A a, b \in 1 .. Len(q) : q[a] = q[b] => a = b
    BY <1>4 DEF q, Apart
  <2>8. \A a, b \in 1 .. Len(h) : h[a] = h[b] => a = b
    <3>1. SUFFICES ASSUME NEW a \in 1 .. Len(h), NEW b \in 1 .. Len(h),
                          h[a] = h[b]
                   PROVE  a = b
      OBVIOUS
    <3>2. \A x, y \in 1 .. Len(g) : g[x] = g[y] => x = y
      BY <2>3 DEF FlatUpto
    <3>3. a \in Nat /\ b \in Nat
      BY <2>4a
    <3>4. CASE a \in 1 .. Len(g) /\ h[a] = g[a]
      <4>1. ~ \E c \in 1 .. Len(q) : h[b] = q[c]
        BY <2>6, <3>1, <3>4
      <4>2. b \in 1 .. Len(g) /\ h[b] = g[b]
        BY <2>5, <4>1
      <4>3. QED
        BY <3>1, <3>2, <3>4, <4>2
    <3>5. CASE a - Len(g) \in 1 .. Len(q) /\ h[a] = q[a - Len(g)]
      <4>1. ~ \E c \in 1 .. Len(g) : h[b] = g[c]
        BY <2>6, <3>1, <3>5
      <4>2. b - Len(g) \in 1 .. Len(q) /\ h[b] = q[b - Len(g)]
        BY <2>5, <4>1
      <4>3. a - Len(g) = b - Len(g)
        BY <2>7, <3>1, <3>5, <4>2
      <4>4. QED
        BY <2>4a, <3>3, <4>3
    <3>6. QED
      BY <2>5, <3>4, <3>5
  <2>9. \A a \in 1 .. Len(h) : \E i \in 1 .. m + 1 : \E b \in 1 .. Len(p[i]) :
          h[a] = p[i][b]
    <3>1. SUFFICES ASSUME NEW a \in 1 .. Len(h)
                   PROVE  \E i \in 1 .. m + 1 : \E b \in 1 .. Len(p[i]) :
                            h[a] = p[i][b]
      OBVIOUS
    <3>2. CASE a \in 1 .. Len(g) /\ h[a] = g[a]
      <4>1. PICK i \in 1 .. m : \E b \in 1 .. Len(p[i]) : g[a] = p[i][b]
        BY <2>3, <3>2 DEF FlatUpto
      <4>2. i \in 1 .. m + 1
        BY <1>4
      <4>3. QED
        BY <3>2, <4>1, <4>2
    <3>3. CASE a - Len(g) \in 1 .. Len(q) /\ h[a] = q[a - Len(g)]
      <4>1. m + 1 \in 1 .. m + 1
        BY <1>4
      <4>2. QED
        BY <3>3, <4>1 DEF q
    <3>4. QED
      BY <2>5, <3>2, <3>3
  <2>10. \A i \in 1 .. m + 1 : \A b \in 1 .. Len(p[i]) : \E a \in 1 .. Len(h) :
           h[a] = p[i][b]
    <3>1. SUFFICES ASSUME NEW i \in 1 .. m + 1, NEW b \in 1 .. Len(p[i])
                   PROVE  \E a \in 1 .. Len(h) : h[a] = p[i][b]
      OBVIOUS
    <3>2. CASE i = m + 1
      <4>1. b \in 1 .. Len(q) /\ p[i][b] = q[b]
        BY <3>2 DEF q
      <4>2. Len(g) + b \in 1 .. Len(h)
        BY <2>4a, <4>1
      <4>3. QED
        BY <2>4, <4>1, <4>2
    <3>3. CASE i # m + 1
      <4>1. i \in 1 .. m
        BY <1>4, <3>3
      <4>2. PICK a \in 1 .. Len(g) : g[a] = p[i][b]
        BY <2>3, <4>1 DEF FlatUpto
      <4>3. a \in 1 .. Len(h)
        BY <2>4
      <4>4. QED
        BY <2>4, <4>2, <4>3
    <3>4. QED
      BY <3>2, <3>3
  <2>11. FlatUpto(h, p, m + 1)
    BY <2>8, <2>9, <2>10 DEF FlatUpto
  <2>12. QED
    BY <1>4, <2>11 DEF h
<1> HIDE DEF S, n
<1>5. \A m \in 1 .. n : m \in S
  BY <1>2, <1>3, <1>4, Induct
<1>6. n \in S
  BY <1>2, <1>5
<1>7. QED
  BY <1>1, <1>2, <1>6 DEF S, n

\* A distinct sequence with the elements 1 .. n has n elements.
LEMMA DistinctLen ==
  ASSUME NEW n \in Nat, NEW f \in Seq(1 .. n),
         \A a, b \in 1 .. Len(f) : f[a] = f[b] => a = b,
         \A x \in 1 .. n : \E a \in 1 .. Len(f) : f[a] = x
  PROVE  Len(f) = n
<1>1. Len(f) \in Nat /\ f \in [1 .. Len(f) -> 1 .. n]
  BY LenProperties
<1>2. f \in Bijection(1 .. Len(f), 1 .. n)
  BY <1>1 DEF Bijection, Injection, Surjection, IsInjective
<1>3. Cardinality(1 .. n) = Len(f)
  BY <1>1, <1>2, FS_CountingElements DEF ExistsBijection
<1>4. QED
  BY <1>3, IntervalFacts

LEMMA MulFacts ==
  ASSUME NEW a \in Nat, NEW b \in Nat, NEW m \in Nat
  PROVE  /\ a * m \in Nat
         /\ (a + 1) * m = a * m + m
         /\ a <= b => a * m <= b * m
<1>1. a * m \in Nat /\ (a + 1) * m = a * m + m
  OBVIOUS
<1>2. ASSUME a <= b PROVE a * m <= b * m
  <2>1. PICK c \in Nat : b = a + c
    BY <1>2
  <2>2. (a + c) * m = a * m + c * m /\ c * m \in Nat
    OBVIOUS
  <2>3. QED
    BY <1>1, <2>1, <2>2
<1>3. QED
  BY <1>1, <1>2

LEMMA DivFacts ==
  ASSUME NEW a \in Nat, NEW n \in Nat \ {0}
  PROVE  /\ a \div n \in Nat
         /\ a % n \in 0 .. n - 1
         /\ a = n * (a \div n) + (a % n)
OBVIOUS

\* Chunks of equal size, put together again
LEMMA FlattenChunk ==
  ASSUME NEW X, NEW s \in Seq(X), NEW n \in Nat \ {0}, Len(s) % n = 0
  PROVE  /\ FlattenSeq(Chunk(s, n)) = s
         /\ Chunk(s, n) \in Seq(Seq(X)) /\ Len(Chunk(s, n)) = n
         /\ \A i \in 1 .. n : Len(Chunk(s, n)[i]) = Len(s) \div n
<1> DEFINE m == Len(s) \div n
           c == Chunk(s, n)
<1>1. Len(s) \in Nat /\ m \in Nat /\ Len(s) = n * m
  BY DivFacts, LenProperties
<1>2. c = [i \in 1 .. n |-> SubSeq(s, (i - 1) * m + 1, i * m)]
  BY DEF Chunk
<1> HIDE DEF m, c
<1>3. \A i \in 1 .. n : /\ (i - 1) * m \in Nat /\ i * m \in Nat
                        /\ i * m = (i - 1) * m + m
                        /\ i * m <= Len(s)
  <2>1. SUFFICES ASSUME NEW i \in 1 .. n
                 PROVE  /\ (i - 1) * m \in Nat /\ i * m \in Nat
                        /\ i * m = (i - 1) * m + m
                        /\ i * m <= Len(s)
    OBVIOUS
  <2>2. i \in Nat /\ i - 1 \in Nat /\ (i - 1) + 1 = i /\ i <= n
    OBVIOUS
  <2>3. (i - 1) * m \in Nat /\ ((i - 1) + 1) * m = (i - 1) * m + m
    BY <1>1, <2>2, MulFacts
  <2>4. i * m \in Nat /\ i * m <= n * m
    BY <1>1, <2>2, MulFacts
  <2>5. QED
    BY <1>1, <2>2, <2>3, <2>4
<1>4. \A i \in 1 .. n : c[i] \in Seq(X) /\ Len(c[i]) = m
  <2>1. SUFFICES ASSUME NEW i \in 1 .. n
                 PROVE  c[i] \in Seq(X) /\ Len(c[i]) = m
    OBVIOUS
  <2>2. PICK a \in Nat, b \in Nat : /\ a = (i - 1) * m /\ b = i * m
                                    /\ b = a + m /\ b <= Len(s)
    BY <1>3
  <2>3. c[i] = SubSeq(s, a + 1, b)
    BY <1>2, <2>2
  <2>4. \A x \in (a + 1) .. b : s[x] \in X
    BY <1>1, <2>2, ElementOfSeq
  <2>5. /\ SubSeq(s, a + 1, b) \in Seq(X)
        /\ Len(SubSeq(s, a + 1, b)) = IF a + 1 <= b THEN b - (a + 1) + 1 ELSE 0
    BY <2>4, SubSeqProperties
  <2>6. QED
    BY <1>1, <2>2, <2>3, <2>5
<1>5. c \in Seq(Seq(X)) /\ Len(c) = n
  <2>1. c = [i \in 1 .. n |-> c[i]]
    BY <1>2
  <2>2. QED
    BY <1>4, <2>1
<1>6. c # <<>>
  BY <1>5
<1>7. PICK f \in [1 .. n -> Seq(X)] :
           /\ f[1] = c[1]
           /\ \A i \in 2 .. n : f[i] = f[i - 1] \o c[i]
           /\ FlattenSeq(c) = f[n]
  <2>1. \E f \in [1 .. Len(c) -> Seq(X)] :
           /\ f[1] = c[1]
           /\ \A i \in 2 .. Len(c) : f[i] = f[i - 1] \o c[i]
           /\ FlattenSeq(c) = f[Len(c)]
    BY <1>5, <1>6, FlattenRec
  <2>2. QED
    BY <1>5, <2>1, Zenon
<1> DEFINE S == {i \in 1 .. n : f[i] = SubSeq(s, 1, i * m)}
<1>8. 1 \in S
  <2>1. 1 \in 1 .. n /\ (1 - 1) * m = 0 /\ 0 + 1 = 1
    BY <1>1
  <2>2. c[1] = SubSeq(s, (1 - 1) * m + 1, 1 * m)
    BY <1>2, <2>1
  <2>3. QED
    BY <1>7, <2>1, <2>2
<1>9. ASSUME NEW i \in 1 .. n, i \in S, i + 1 \in 1 .. n
      PROVE  i + 1 \in S
  <2>1. i + 1 \in 2 .. n /\ (i + 1) - 1 = i
    BY <1>9
  <2>2. f[i + 1] = f[i] \o c[i + 1] /\ f[i] = SubSeq(s, 1, i * m)
    BY <1>7, <1>9, <2>1
  <2>3. PICK a \in Nat, b \in Nat : /\ a = i * m /\ b = (i + 1) * m
                                    /\ b = a + m /\ b <= Len(s)
    BY <1>3, <1>9, <2>1
  <2>4. c[i + 1] = SubSeq(s, a + 1, b)
    BY <1>2, <1>9, <2>1, <2>3
  <2>5. SubSeq(s, 1, a) \o SubSeq(s, a + 1, b) = SubSeq(s, 1, b)
    <3>1. /\ 1 \in 1 .. Len(s) + 1 /\ a \in 1 - 1 .. Len(s)
          /\ b \in a .. Len(s)
      BY <1>1, <2>3
    <3>2. QED
      BY <3>1, ConcatAdjacentSubSeq
  <2>6. QED
    BY <1>9, <2>2, <2>3, <2>4, <2>5
<1> HIDE DEF S
<1>10. \A i \in 1 .. n : i \in S
  BY <1>8, <1>9, Induct
<1>11. f[n] = SubSeq(s, 1, n * m)
  BY <1>10 DEF S
<1>12. FlattenSeq(c) = s
  BY <1>1, <1>7, <1>11, SubSeqFull
<1>13. QED
  BY <1>4, <1>5, <1>12 DEF m, c

\* The sum of positive numbers, at least one
LEMMA SumFacts ==
  ASSUME NEW D, IsFiniteSet(D), D # {}, NEW f \in [D -> Nat],
         \A x \in D : f[x] > 0
  PROVE  SumFunction(f) \in Nat /\ SumFunction(f) > 0
<1> DEFINE c(s) == CHOOSE x \in s : TRUE
           Step(g, s) == IF s = {} THEN 0 ELSE f[c(s)] + g[s \ {c(s)}]
           Fix(g) == g = [s \in SUBSET D |-> Step(g, s)]
           iter == CHOOSE g : Fix(g)
           N == Cardinality(D)
           Upon(g, m) == \A s \in SUBSET D : Cardinality(s) < m => g[s] = Step(g, s)
           Ok == {m \in 1 .. N + 1 : \E g \in [SUBSET D -> Nat] : Upon(g, m)}
<1>1. SumFunction(f) = iter[D]
  <2>1. DOMAIN f = D
    OBVIOUS
  <2>2. QED
    BY <2>1, Zenon DEF SumFunction, SumFunctionOnSet, FoldFunctionOnSet, MapThenFoldSet
<1>2. \A s \in SUBSET D : /\ IsFiniteSet(s) /\ Cardinality(s) \in Nat
                          /\ Cardinality(s) <= N
                          /\ Cardinality(s) = 0 <=> s = {}
  BY FS_Subset, FS_CardinalityType, FS_EmptySet
<1>3. N \in Nat
  BY <1>2
<1>4. \A s \in SUBSET D : s # {} => /\ c(s) \in s /\ f[c(s)] \in Nat
                                    /\ f[c(s)] > 0
                                    /\ s \ {c(s)} \in SUBSET D
                                    /\ Cardinality(s \ {c(s)}) = Cardinality(s) - 1
  <2>1. SUFFICES ASSUME NEW s \in SUBSET D, s # {}
                 PROVE  /\ c(s) \in s /\ f[c(s)] \in Nat /\ f[c(s)] > 0
                        /\ s \ {c(s)} \in SUBSET D
                        /\ Cardinality(s \ {c(s)}) = Cardinality(s) - 1
    OBVIOUS
  <2>2. c(s) \in s
    BY <2>1
  <2> HIDE DEF c
  <2>3. QED
    BY <1>2, <2>1, <2>2, FS_RemoveElement
<1> HIDE DEF c
<1>5. 1 \in Ok
  <2> DEFINE g == [s \in SUBSET D |-> 0]
  <2>1. g \in [SUBSET D -> Nat] /\ Upon(g, 1)
    BY <1>2
  <2> HIDE DEF g, Upon
  <2>2. QED
    BY <1>3, <2>1
<1>6. ASSUME NEW m \in 1 .. N + 1, m \in Ok, m + 1 \in 1 .. N + 1
      PROVE  m + 1 \in Ok
  <2>1. PICK g \in [SUBSET D -> Nat] : Upon(g, m)
    BY <1>6
  <2> DEFINE h == [s \in SUBSET D |-> Step(g, s)]
  <2>2. \A s \in SUBSET D : Step(g, s) \in Nat
    <3>1. SUFFICES ASSUME NEW s \in SUBSET D, s # {}
                   PROVE  f[c(s)] + g[s \ {c(s)}] \in Nat
      OBVIOUS
    <3>2. f[c(s)] \in Nat /\ s \ {c(s)} \in SUBSET D
      BY <1>4, <3>1
    <3>3. g[s \ {c(s)}] \in Nat
      BY <3>2
    <3>4. QED
      BY <3>2, <3>3
  <2>3. h \in [SUBSET D -> Nat]
    <3> HIDE DEF Step
    <3>1. QED
      BY <2>2
  <2>4. ASSUME NEW s \in SUBSET D, Cardinality(s) < m + 1
        PROVE  h[s] = Step(h, s)
    <3>1. CASE s = {}
      BY <3>1
    <3>2. CASE s # {}
      <4>1. /\ s \ {c(s)} \in SUBSET D
            /\ Cardinality(s \ {c(s)}) < m
        BY <1>2, <1>4, <1>6, <2>4, <3>2
      <4>2. g[s \ {c(s)}] = Step(g, s \ {c(s)})
        BY <2>1, <4>1
      <4>3. h[s \ {c(s)}] = g[s \ {c(s)}]
        BY <4>1, <4>2
      <4>4. QED
        BY <3>2, <4>3
    <3>3. QED
      BY <3>1, <3>2
  <2>5. Upon(h, m + 1)
    <3> HIDE DEF h, Step
    <3>1. QED
      BY <2>4
  <2> HIDE DEF h, Upon
  <2>6. QED
    BY <1>6, <2>3, <2>5
<1>7. PICK g \in [SUBSET D -> Nat] : \A s \in SUBSET D : g[s] = Step(g, s)
  <2>1. N + 1 \in Ok
    <3> HIDE DEF Ok, N
    <3>1. \A m \in 1 .. N + 1 : m \in Ok
      BY <1>3, <1>5, <1>6, Induct
    <3>2. QED
      BY <1>3, <3>1
  <2>2. PICK g \in [SUBSET D -> Nat] : Upon(g, N + 1)
    BY <2>1
  <2>3. \A s \in SUBSET D : Cardinality(s) < N + 1
    BY <1>2, <1>3
  <2> HIDE DEF Step
  <2>4. QED
    BY <2>2, <2>3
<1>8. Fix(g)
  <2>1. g = [s \in SUBSET D |-> g[s]]
    OBVIOUS
  <2> HIDE DEF Step
  <2>2. QED
    BY <1>7, <2>1
<1>9. Fix(iter)
  <2> HIDE DEF Fix
  <2>1. QED
    BY <1>8
<1>10. \A s \in SUBSET D : iter[s] = Step(iter, s)
  <2> HIDE DEF iter, Step
  <2>1. QED
    BY <1>9
<1> HIDE DEF iter, Fix
<1>11. \A s \in SUBSET D : iter[s] = g[s]
  <2> DEFINE S == {m \in 1 .. N + 1 :
                     \A s \in SUBSET D : Cardinality(s) < m => iter[s] = g[s]}
  <2>1. 1 \in S
    <3>1. \A s \in SUBSET D : Cardinality(s) < 1 => s = {}
      BY <1>2
    <3>2. iter[{}] = 0 /\ g[{}] = 0
      BY <1>7, <1>10
    <3>3. \A s \in SUBSET D : Cardinality(s) < 1 => iter[s] = g[s]
      BY <3>1, <3>2
    <3> HIDE DEF N
    <3>4. 1 \in 1 .. N + 1
      BY <1>3
    <3>5. QED
      BY <3>3, <3>4
  <2>2. ASSUME NEW m \in 1 .. N + 1, m \in S, m + 1 \in 1 .. N + 1
        PROVE  m + 1 \in S
    <3>1. SUFFICES ASSUME NEW s \in SUBSET D, Cardinality(s) < m + 1
                   PROVE  iter[s] = g[s]
      BY <2>2
    <3>2. CASE s = {}
      BY <1>7, <1>10, <3>2
    <3>3. CASE s # {}
      <4>1. /\ s \ {c(s)} \in SUBSET D
            /\ Cardinality(s \ {c(s)}) < m
        BY <1>2, <1>4, <2>2, <3>1, <3>3
      <4>2. iter[s \ {c(s)}] = g[s \ {c(s)}]
        BY <2>2, <4>1
      <4>3. QED
        BY <1>7, <1>10, <3>3, <4>2
    <3>4. QED
      BY <3>2, <3>3
  <2> HIDE DEF S
  <2>3. \A m \in 1 .. N + 1 : m \in S
    BY <1>3, <2>1, <2>2, Induct
  <2>4. N + 1 \in S
    BY <1>3, <2>3
  <2>5. QED
    BY <1>2, <1>3, <2>4 DEF S
<1>12. iter[D] = g[D] /\ g[D] = f[c(D)] + g[D \ {c(D)}]
  <2>1. D \in SUBSET D
    OBVIOUS
  <2>2. QED
    BY <1>7, <1>11, <2>1
<1>13. f[c(D)] \in Nat /\ f[c(D)] > 0 /\ g[D \ {c(D)}] \in Nat
  BY <1>4
<1>14. QED
  BY <1>1, <1>12, <1>13

-----------------------------------------------------------------------------
(* The orders of the model *)

LEMMA RearrangedFacts ==
  ASSUME NEW X, NEW s \in Seq(X), NEW t, Rearranged(t, s)
  PROVE  /\ t \in Seq(X) /\ Len(t) = Len(s)
         /\ \A i \in 1 .. Len(s) : \E j \in 1 .. Len(s) : t[i] = s[j]
         /\ \A j \in 1 .. Len(s) : \E i \in 1 .. Len(s) : t[i] = s[j]
         /\ (\A a, b \in 1 .. Len(s) : s[a] = s[b] => a = b)
              => \A a, b \in 1 .. Len(s) : t[a] = t[b] => a = b
<1>1. PICK p \in [1 .. Len(s) -> 1 .. Len(s)] :
           /\ \A i, j \in 1 .. Len(s) : p[i] = p[j] => i = j
           /\ \A j \in 1 .. Len(s) : \E i \in 1 .. Len(s) : p[i] = j
           /\ t = [i \in 1 .. Len(s) |-> s[p[i]]]
  BY DEF Rearranged
<1>2. Len(s) \in Nat /\ \A i \in 1 .. Len(s) : s[i] \in X
  BY LenProperties
<1>3. t \in Seq(X) /\ Len(t) = Len(s)
  BY <1>1, <1>2
<1>4. QED
  BY <1>1, <1>3

LEMMA SeqNatFacts ==
  ASSUME NEW s \in Seq(Nat)
  PROVE  /\ Len(s) \in Nat /\ s # <<>> <=> Len(s) # 0
         /\ s # <<>> => s[1] \in Nat
OBVIOUS

\* The least item of a set, or zero
FrontItem(s) == IF s = <<>> THEN 0 ELSE s[1]

\* Set.__lt__ is a lexicographic order of numbers.
LEMMA LessLex ==
  ASSUME NEW a \in ItemSet, NEW b \in ItemSet
  PROVE  /\ a.sum \in Nat /\ Len(a.items) \in Nat /\ FrontItem(a.items) \in Nat
         /\ Less(a, b) <=>
              \/ a.sum < b.sum
              \/ a.sum = b.sum /\ Len(a.items) < Len(b.items)
              \/ /\ a.sum = b.sum /\ Len(a.items) = Len(b.items)
                 /\ FrontItem(a.items) < FrontItem(b.items)
<1>1. /\ a.sum \in Nat /\ b.sum \in Nat
      /\ a.items \in Seq(Nat) /\ b.items \in Seq(Nat)
  BY DEF ItemSet
<1>2. /\ Len(a.items) \in Nat /\ Len(b.items) \in Nat
      /\ a.items # <<>> <=> Len(a.items) # 0
      /\ b.items # <<>> <=> Len(b.items) # 0
      /\ a.items # <<>> => a.items[1] \in Nat
  BY <1>1, SeqNatFacts
<1>3. FrontItem(a.items) \in Nat
  BY <1>2 DEF FrontItem
<1>4. CASE Len(a.items) = Len(b.items) /\ a.items = <<>>
  <2>1. FrontItem(a.items) = 0 /\ FrontItem(b.items) = 0
    BY <1>2, <1>4 DEF FrontItem
  <2>2. QED
    BY <1>1, <1>2, <1>4, <2>1 DEF Less
<1>5. CASE Len(a.items) = Len(b.items) /\ a.items # <<>>
  <2>1. FrontItem(a.items) = a.items[1] /\ FrontItem(b.items) = b.items[1]
    BY <1>2, <1>5 DEF FrontItem
  <2>2. QED
    BY <1>1, <1>2, <1>3, <1>5, <2>1 DEF Less
<1>6. CASE Len(a.items) # Len(b.items)
  BY <1>1, <1>2, <1>3, <1>6 DEF Less
<1>7. QED
  BY <1>4, <1>5, <1>6

LEMMA LessFacts ==
  ASSUME NEW a \in ItemSet, NEW b \in ItemSet, NEW c \in ItemSet
  PROVE  /\ ~Less(a, a)
         /\ Less(a, b) => ~Less(b, a)
         /\ Less(a, b) /\ Less(b, c) => Less(a, c)
         /\ ~Less(a, b) /\ ~Less(b, c) => ~Less(a, c)
         /\ ~Less(a, b) => b.sum <= a.sum
         /\ ~Less(a, b) /\ ~Less(b, a) => FrontItem(a.items) = FrontItem(b.items)
<1> DEFINE lex(x, y) == \/ x.sum < y.sum
                        \/ x.sum = y.sum /\ Len(x.items) < Len(y.items)
                        \/ /\ x.sum = y.sum /\ Len(x.items) = Len(y.items)
                           /\ FrontItem(x.items) < FrontItem(y.items)
<1>1. \A x \in {a, b, c} : /\ x.sum \in Nat /\ Len(x.items) \in Nat
                           /\ FrontItem(x.items) \in Nat
  BY LessLex
<1>2. \A x, y \in {a, b, c} : Less(x, y) <=> lex(x, y)
  BY LessLex
<1>3. ~Less(a, a)
  BY <1>1, <1>2
<1>4. Less(a, b) => ~Less(b, a)
  BY <1>1, <1>2
<1>5. Less(a, b) /\ Less(b, c) => Less(a, c)
  BY <1>1, <1>2
<1>6. ~Less(a, b) /\ ~Less(b, c) => ~Less(a, c)
  BY <1>1, <1>2
<1>7. ~Less(a, b) => b.sum <= a.sum
  BY <1>1, <1>2
<1>8. ~Less(a, b) /\ ~Less(b, a) => FrontItem(a.items) = FrontItem(b.items)
  BY <1>1, <1>2
<1>9. QED
  BY <1>3, <1>4, <1>5, <1>6, <1>7, <1>8

\* State: its sets in decreasing order
LEMMA SortedFacts ==
  ASSUME NEW s \in Seq(ItemSet)
  PROVE  /\ Rearranged(Sorted[s], s)
         /\ \A i, j \in 1 .. Len(s) : i < j => Sorted[s][j].sum <= Sorted[s][i].sum
<1> DEFINE n == Len(s)
           before == [i \in DOMAIN s |-> {j \in DOMAIN s :
                        \/ Less(s[i], s[j])
                        \/ ~Less(s[j], s[i]) /\ j < i}]
<1>1. n \in Nat /\ DOMAIN s = 1 .. n /\ \A i \in 1 .. n : s[i] \in ItemSet
  BY LenProperties
<1>2. Sorted[s] = InOrder(s, before)
  BY DEF Sorted
<1>3. \A i, j \in 1 .. n : j \in before[i] <=> \/ Less(s[i], s[j])
                                               \/ ~Less(s[j], s[i]) /\ j < i
  BY <1>1
<1>4. before \in [1 .. n -> SUBSET (1 .. n)]
  BY <1>1
<1> HIDE DEF before, n
<1>5. \A x \in 1 .. n : x \notin before[x]
  BY <1>1, <1>3, LessFacts
<1>6. \A x, y, z \in 1 .. n :
        x \in before[y] /\ y \in before[z] => x \in before[z]
  <2>1. SUFFICES ASSUME NEW x \in 1 .. n, NEW y \in 1 .. n, NEW z \in 1 .. n,
                        x \in before[y], y \in before[z]
                 PROVE  x \in before[z]
    OBVIOUS
  <2> DEFINE a == s[x]
             b == s[y]
             c == s[z]
  <2>2. a \in ItemSet /\ b \in ItemSet /\ c \in ItemSet
    BY <1>1
  <2>3. /\ Less(b, a) \/ (~Less(a, b) /\ x < y)
        /\ Less(c, b) \/ (~Less(b, c) /\ y < z)
    BY <1>3, <2>1
  <2>4. x < y /\ y < z => x < z
    BY <1>1
  <2> HIDE DEF a, b, c
  <2>5. Less(c, a) \/ (~Less(a, c) /\ x < z)
    BY <2>2, <2>3, <2>4, LessFacts
  <2>6. QED
    BY <1>3, <2>5 DEF a, c
<1>7. \A x, y \in 1 .. n : x = y \/ x \in before[y] \/ y \in before[x]
  <2>1. SUFFICES ASSUME NEW x \in 1 .. n, NEW y \in 1 .. n, x # y
                 PROVE  x \in before[y] \/ y \in before[x]
    OBVIOUS
  <2>2. x < y \/ y < x
    BY <1>1, <2>1
  <2>3. s[x] \in ItemSet /\ s[y] \in ItemSet
    BY <1>1
  <2>4. QED
    BY <1>3, <2>2, <2>3, LessFacts
<1>8. /\ OrderedBy(Sorted[s], s, before)
      /\ Rearranged(Sorted[s], s)
  <2>1. Order(before, 1 .. Len(s))
    BY <1>4, <1>5, <1>6, <1>7 DEF Order, n
  <2>2. QED
    BY <1>2, <2>1, InOrderFacts
<1>9. PICK p \in [1 .. n -> 1 .. n] :
           /\ Sorted[s] = [i \in 1 .. n |-> s[p[i]]]
           /\ \A i, j \in 1 .. n : i < j => p[i] \in before[p[j]]
  BY <1>8 DEF OrderedBy, n
<1>10. ASSUME NEW i \in 1 .. n, NEW j \in 1 .. n, i < j
       PROVE  Sorted[s][j].sum <= Sorted[s][i].sum
  <2>1. /\ Sorted[s][i] = s[p[i]] /\ Sorted[s][j] = s[p[j]]
        /\ p[i] \in 1 .. n /\ p[j] \in 1 .. n /\ p[i] \in before[p[j]]
    BY <1>9, <1>10
  <2>2. ~Less(s[p[i]], s[p[j]])
    BY <1>1, <1>3, <2>1, LessFacts
  <2>3. QED
    BY <1>1, <2>1, <2>2, LessFacts
<1>11. QED
  BY <1>8, <1>10 DEF n

\* Positions by a number first and a distinct number second
ByKeys(before, n, k, l) ==
  /\ before \in [1 .. n -> SUBSET (1 .. n)]
  /\ \A x \in 1 .. n : k[x] \in Int /\ l[x] \in Int
  /\ \A x, y \in 1 .. n : l[x] = l[y] => x = y
  /\ \A x, y \in 1 .. n :
       y \in before[x] <=> k[y] < k[x] \/ (k[y] = k[x] /\ l[y] < l[x])

LEMMA KeyOrder ==
  ASSUME NEW n \in Nat, NEW k, NEW l, NEW before, ByKeys(before, n, k, l)
  PROVE  Order(before, 1 .. n)
<1>1. \A x, y \in 1 .. n : y \in before[x] <=> \/ k[y] < k[x]
                                               \/ k[y] = k[x] /\ l[y] < l[x]
  BY Zenon DEF ByKeys
<1>2. before \in [1 .. n -> SUBSET (1 .. n)]
  BY Zenon DEF ByKeys
<1>3. \A x \in 1 .. n : k[x] \in Int /\ l[x] \in Int
  BY Zenon DEF ByKeys
<1>3a. \A x, y \in 1 .. n : l[x] = l[y] => x = y
  BY Zenon DEF ByKeys
<1>4. \A x \in 1 .. n : x \notin before[x]
  BY <1>1, <1>3
<1>5. \A x, y, z \in 1 .. n :
        x \in before[y] /\ y \in before[z] => x \in before[z]
  <2>1. SUFFICES ASSUME NEW x \in 1 .. n, NEW y \in 1 .. n, NEW z \in 1 .. n,
                        x \in before[y], y \in before[z]
                 PROVE  x \in before[z]
    OBVIOUS
  <2>2. /\ k[x] < k[y] \/ (k[x] = k[y] /\ l[x] < l[y])
        /\ k[y] < k[z] \/ (k[y] = k[z] /\ l[y] < l[z])
    BY <1>1, <2>1
  <2>3. k[x] < k[z] \/ (k[x] = k[z] /\ l[x] < l[z])
    BY <1>3, <2>2
  <2>4. QED
    BY <1>1, <2>3
<1>6. \A x, y \in 1 .. n : x = y \/ x \in before[y] \/ y \in before[x]
  BY <1>1, <1>3, <1>3a
<1>7. QED
  BY <1>2, <1>4, <1>5, <1>6 DEF Order

\* Rows by their work
LEMMA AscendingFacts ==
  ASSUME NEW w, NEW s \in Seq(Nat),
         \A a, b \in 1 .. Len(s) : s[a] = s[b] => a = b,
         \A a \in 1 .. Len(s) : Work(w, s[a]) \in Nat
  PROVE  Rearranged(Ascending(w)[s], s)
<1> DEFINE n == Len(s)
           k == [i \in 1 .. n |-> Work(w, s[i])]
           before == [i \in DOMAIN s |-> {j \in DOMAIN s :
                        \/ Work(w, s[j]) < Work(w, s[i])
                        \/ Work(w, s[j]) = Work(w, s[i]) /\ s[j] < s[i]}]
<1>1. n \in Nat /\ DOMAIN s = 1 .. n /\ s \in [1 .. n -> Int]
  BY LenProperties
<1>2. Ascending(w)[s] = InOrder(s, before)
  BY DEF Ascending
<1>3. ByKeys(before, n, k, s)
  <2>1. ASSUME NEW x \in 1 .. n PROVE k[x] \in Int /\ s[x] \in Int
    BY <1>1
  <2>2. ASSUME NEW x \in 1 .. n, NEW y \in 1 .. n
        PROVE  y \in before[x] <=> \/ k[y] < k[x]
                                   \/ k[y] = k[x] /\ s[y] < s[x]
    BY <1>1
  <2>3. before \in [1 .. n -> SUBSET (1 .. n)]
    BY <1>1
  <2> HIDE DEF before, k
  <2>4. QED
    BY <2>1, <2>2, <2>3, Zenon DEF ByKeys
<1> HIDE DEF before
<1>5. Order(before, 1 .. n)
  BY <1>1, <1>3, KeyOrder
<1>6. QED
  BY <1>2, <1>5, InOrderFacts

LEMMA IncreasingFacts ==
  ASSUME NEW s \in Seq(Nat), \A a, b \in 1 .. Len(s) : s[a] = s[b] => a = b
  PROVE  Rearranged(Increasing[s], s)
<1> DEFINE n == Len(s)
           before == [i \in DOMAIN s |-> {j \in DOMAIN s : s[j] < s[i]}]
<1>1. n \in Nat /\ DOMAIN s = 1 .. n /\ s \in [1 .. n -> Int]
  BY LenProperties
<1>2. Increasing[s] = InOrder(s, before)
  BY DEF Increasing
<1>3. ByKeys(before, n, s, s)
  BY <1>1 DEF ByKeys
<1> HIDE DEF before
<1>4. Order(before, 1 .. n)
  BY <1>1, <1>3, KeyOrder
<1>5. QED
  BY <1>2, <1>4, InOrderFacts DEF n

\* Micro batches by their work, the heaviest first
LEMMA HeaviestFacts ==
  ASSUME NEW s \in Seq(ItemSet), \A a \in 1 .. Len(s) : s[a].items # <<>>,
         \A a, b \in 1 .. Len(s) : s[a].items[1] = s[b].items[1] => a = b
  PROVE  Rearranged(Heaviest[s], s)
<1> DEFINE n == Len(s)
           k == [i \in 1 .. n |-> -s[i].sum]
           l == [i \in 1 .. n |-> -s[i].items[1]]
           before == [i \in DOMAIN s |-> {j \in DOMAIN s :
                        \/ s[j].sum > s[i].sum
                        \/ s[j].sum = s[i].sum /\ s[j].items[1] > s[i].items[1]}]
<1>1. n \in Nat /\ DOMAIN s = 1 .. n /\ \A i \in 1 .. n : s[i] \in ItemSet
  BY LenProperties
<1>2. Heaviest[s] = InOrder(s, before)
  BY DEF Heaviest
<1>3. \A i \in 1 .. n : s[i].sum \in Nat /\ s[i].items[1] \in Nat
  BY <1>1, SeqNatFacts DEF ItemSet
<1>4. ASSUME NEW x \in 1 .. n PROVE k[x] \in Int /\ l[x] \in Int
  BY <1>3
<1>5. ASSUME NEW x \in 1 .. n, NEW y \in 1 .. n, l[x] = l[y] PROVE x = y
  <2>1. s[x].items[1] = s[y].items[1]
    BY <1>3, <1>5
  <2>2. QED
    BY <2>1
<1>6. ASSUME NEW x \in 1 .. n, NEW y \in 1 .. n
      PROVE  y \in before[x] <=> \/ k[y] < k[x]
                                 \/ k[y] = k[x] /\ l[y] < l[x]
  <2>1. PICK a, b, c, d : /\ a = s[x].sum /\ b = s[x].items[1]
                          /\ c = s[y].sum /\ d = s[y].items[1]
    OBVIOUS
  <2>2. a \in Nat /\ b \in Nat /\ c \in Nat /\ d \in Nat
    BY <1>3, <2>1
  <2>3. k[x] = -a /\ l[x] = -b /\ k[y] = -c /\ l[y] = -d
    BY <2>1
  <2>4. y \in before[x] <=> c > a \/ (c = a /\ d > b)
    BY <1>1, <2>1
  <2> HIDE DEF k, l, before
  <2>5. QED
    BY <2>2, <2>3, <2>4
<1>6a. before \in [1 .. n -> SUBSET (1 .. n)]
  BY <1>1
<1> HIDE DEF k, l, before, n
<1>7. Order(before, 1 .. n)
  <2>1. ByKeys(before, n, k, l)
    BY <1>4, <1>5, <1>6, <1>6a, Zenon DEF ByKeys
  <2>2. QED
    BY <1>1, <2>1, KeyOrder
<1>8. QED
  BY <1>2, <1>7, InOrderFacts DEF n

LEMMA ReverseFacts ==
  ASSUME NEW X, NEW s \in Seq(X)
  PROVE  /\ Reverse(s) \in Seq(X) /\ Len(Reverse(s)) = Len(s)
         /\ \A i \in 1 .. Len(s) : Reverse(s)[i] = s[Len(s) - i + 1]
<1>1. Len(s) \in Nat /\ \A i \in 1 .. Len(s) : s[i] \in X
  BY LenProperties
<1>2. \A i \in 1 .. Len(s) : (Len(s) - i) + 1 \in 1 .. Len(s)
  BY <1>1
<1>3. QED
  BY <1>1, <1>2 DEF Reverse

\* The halves of a sequence of length n, of lengths e and o
Halves(X, s, n, e, o) ==
  /\ n \in Nat /\ e \in Nat /\ o \in Nat /\ e + o = n
  /\ n = 2 * e \/ n = 2 * e - 1
  /\ n = Len(s)
  /\ Evens(s) \in Seq(X) /\ Len(Evens(s)) = e
  /\ \A i \in 1 .. e : 2 * i - 1 \in 1 .. n /\ Evens(s)[i] = s[2 * i - 1]
  /\ Odds(s) \in Seq(X) /\ Len(Odds(s)) = o
  /\ \A i \in 1 .. o : 2 * i \in 1 .. n /\ Odds(s)[i] = s[2 * i]

LEMMA HalvesFacts ==
  ASSUME NEW X, NEW s \in Seq(X)
  PROVE  \E n, e, o : Halves(X, s, n, e, o)
<1>0. PICK n, e, o : n = Len(s) /\ e = (n + 1) \div 2 /\ o = n \div 2
  OBVIOUS
<1>1. /\ n \in Nat /\ \A i \in 1 .. n : s[i] \in X
  BY <1>0, LenProperties
<1>2. /\ e \in Nat /\ o \in Nat /\ e + o = n /\ (n = 2 * e \/ n = 2 * e - 1)
  BY <1>0, <1>1
<1>3. /\ \A i \in 1 .. e : 2 * i - 1 \in 1 .. n
      /\ \A i \in 1 .. o : 2 * i \in 1 .. n
  BY <1>1, <1>2
<1>4. /\ Evens(s) = [i \in 1 .. e |-> s[2 * i - 1]]
      /\ Odds(s) = [i \in 1 .. o |-> s[2 * i]]
  BY <1>0 DEF Evens, Odds
<1>5. Evens(s) \in Seq(X) /\ Len(Evens(s)) = e
  BY <1>1, <1>2, <1>3, <1>4
<1>6. Odds(s) \in Seq(X) /\ Len(Odds(s)) = o
  BY <1>1, <1>2, <1>3, <1>4
<1>7. Halves(X, s, n, e, o)
  BY <1>0, <1>1, <1>2, <1>3, <1>4, <1>5, <1>6 DEF Halves
<1>8. QED
  BY <1>7

Permutation(p, n) ==
  /\ p \in [1 .. n -> 1 .. n]
  /\ \A i, j \in 1 .. n : p[i] = p[j] => i = j
  /\ \A j \in 1 .. n : \E i \in 1 .. n : p[i] = j

\* A concatenation that takes position p[i] of s at i
LEMMA ConcatRearranges ==
  ASSUME NEW X, NEW s \in Seq(X), NEW u \in Seq(X), NEW v \in Seq(X),
         Len(u) + Len(v) = Len(s), NEW p, Permutation(p, Len(s)),
         \A i \in 1 .. Len(u) : u[i] = s[p[i]],
         \A i \in 1 .. Len(v) : v[i] = s[p[Len(u) + i]]
  PROVE  Rearranged(u \o v, s)
<1> DEFINE n == Len(s)
<1>1. Len(u) \in Nat /\ Len(v) \in Nat
  BY LenProperties
<1>2. /\ u \o v \in Seq(X) /\ Len(u \o v) = n
      /\ \A i \in 1 .. n : (u \o v)[i] = IF i <= Len(u) THEN u[i]
                                                       ELSE v[i - Len(u)]
  BY <1>1, ConcatProperties
<1>3. \A i \in 1 .. n : (u \o v)[i] = s[p[i]]
  <2>1. SUFFICES ASSUME NEW i \in 1 .. n PROVE (u \o v)[i] = s[p[i]]
    OBVIOUS
  <2>2. CASE i <= Len(u)
    BY <1>1, <1>2, <2>2
  <2>3. CASE ~(i <= Len(u))
    <3>1. i - Len(u) \in 1 .. Len(v) /\ Len(u) + (i - Len(u)) = i
      BY <1>1, <2>3
    <3>2. QED
      BY <1>2, <2>3, <3>1
  <2>4. QED
    BY <2>2, <2>3
<1>4. u \o v = [i \in 1 .. n |-> s[p[i]]]
  <2>1. u \o v \in [1 .. Len(u \o v) -> X]
    BY <1>2, LenProperties
  <2>2. u \o v \in [1 .. n -> X]
    BY <1>2, <2>1
  <2>3. ASSUME NEW w \in [1 .. n -> X], \A i \in 1 .. n : w[i] = s[p[i]]
        PROVE  w = [i \in 1 .. n |-> s[p[i]]]
    BY <2>3
  <2> HIDE DEF n
  <2>4. QED
    BY <1>3, <2>2, <2>3, Zenon
<1>5. QED
  BY <1>4, Zenon DEF Rearranged, Permutation

LEMMA EndsFacts ==
  ASSUME NEW s \in Seq(Nat)
  PROVE  Rearranged(Ends[s], s)
<1>1. PICK n, e, o : Halves(Nat, s, n, e, o)
  BY HalvesFacts
<1> DEFINE u == Evens(s)
           v == Reverse(Odds(s))
           p == [i \in 1 .. n |-> IF i <= e THEN 2 * i - 1 ELSE 2 * (n + 1 - i)]
<1>2. /\ n \in Nat /\ e \in Nat /\ o \in Nat /\ e + o = n
      /\ n = 2 * e \/ n = 2 * e - 1
      /\ n = Len(s)
  BY <1>1 DEF Halves
<1>3. /\ u \in Seq(Nat) /\ Len(u) = e
      /\ \A i \in 1 .. e : 2 * i - 1 \in 1 .. n /\ u[i] = s[2 * i - 1]
  BY <1>1 DEF Halves
<1>4. /\ Odds(s) \in Seq(Nat) /\ Len(Odds(s)) = o
      /\ \A i \in 1 .. o : 2 * i \in 1 .. n /\ Odds(s)[i] = s[2 * i]
  BY <1>1 DEF Halves
<1>5. /\ v \in Seq(Nat) /\ Len(v) = o
      /\ \A i \in 1 .. o : v[i] = Odds(s)[o - i + 1]
  BY <1>4, ReverseFacts
<1> HIDE DEF u, v
<1>6. \A i \in 1 .. n : p[i] \in 1 .. n
  BY <1>2
<1>7. \A i, j \in 1 .. n : p[i] = p[j] => i = j
  BY <1>2
<1>8. \A j \in 1 .. n : \E i \in 1 .. n : p[i] = j
  <2>1. SUFFICES ASSUME NEW j \in 1 .. n PROVE \E i \in 1 .. n : p[i] = j
    OBVIOUS
  <2>2. PICK h \in Nat : j = 2 * h \/ j = 2 * h + 1
    <3>1. j \div 2 \in Nat /\ (j = 2 * (j \div 2) \/ j = 2 * (j \div 2) + 1)
      OBVIOUS
    <3>2. QED
      BY <3>1
  <2>3. CASE j = 2 * h
    <3>1. n + 1 - h \in 1 .. n /\ ~(n + 1 - h <= e)
      BY <1>2, <2>3
    <3>2. p[n + 1 - h] = j
      BY <1>2, <2>3, <3>1
    <3>3. QED
      BY <3>1, <3>2
  <2>4. CASE j = 2 * h + 1
    <3>1. h + 1 \in 1 .. n /\ h + 1 <= e
      BY <1>2, <2>4
    <3>2. p[h + 1] = j
      BY <1>2, <2>4, <3>1
    <3>3. QED
      BY <3>1, <3>2
  <2>5. QED
    BY <2>2, <2>3, <2>4
<1>9. \A i \in 1 .. Len(u) : u[i] = s[p[i]]
  BY <1>2, <1>3
<1>10. \A i \in 1 .. Len(v) : v[i] = s[p[Len(u) + i]]
  <2>1. SUFFICES ASSUME NEW i \in 1 .. o PROVE v[i] = s[p[e + i]]
    BY <1>3, <1>5
  <2>2. o - i + 1 \in 1 .. o /\ e + i \in 1 .. n /\ ~(e + i <= e)
    BY <1>2
  <2>3. v[i] = s[2 * (o - i + 1)]
    BY <1>4, <1>5, <2>2
  <2>4. p[e + i] = 2 * (n + 1 - (e + i)) /\ n + 1 - (e + i) = o - i + 1
    BY <1>2, <2>2
  <2>5. QED
    BY <2>3, <2>4
<1>11. p \in [1 .. n -> 1 .. n]
  <2>1. p = [i \in 1 .. n |-> p[i]]
    OBVIOUS
  <2> HIDE DEF p
  <2>2. QED
    BY <1>6, <2>1
<1> HIDE DEF p
<1>12. Permutation(p, Len(s)) /\ Len(u) + Len(v) = Len(s)
  BY <1>2, <1>3, <1>5, <1>7, <1>8, <1>11 DEF Permutation
<1>13. Rearranged(u \o v, s)
  BY <1>3, <1>5, <1>9, <1>10, <1>12, ConcatRearranges
<1>14. QED
  BY <1>13 DEF Ends, u, v

LEMMA BothEndsFacts ==
  ASSUME NEW s \in Seq(ItemSet)
  PROVE  Rearranged(BothEnds[s], s)
<1>1. PICK n, e, o : Halves(ItemSet, s, n, e, o)
  BY HalvesFacts
<1> DEFINE u == Reverse(Evens(s))
           v == Odds(s)
           p == [i \in 1 .. n |-> IF i <= e THEN 2 * (e - i + 1) - 1
                                            ELSE 2 * (i - e)]
<1>2. /\ n \in Nat /\ e \in Nat /\ o \in Nat /\ e + o = n
      /\ n = 2 * e \/ n = 2 * e - 1
      /\ n = Len(s)
  BY <1>1 DEF Halves
<1>3. /\ Evens(s) \in Seq(ItemSet) /\ Len(Evens(s)) = e
      /\ \A i \in 1 .. e : 2 * i - 1 \in 1 .. n /\ Evens(s)[i] = s[2 * i - 1]
  BY <1>1 DEF Halves
<1>4. /\ v \in Seq(ItemSet) /\ Len(v) = o
      /\ \A i \in 1 .. o : 2 * i \in 1 .. n /\ v[i] = s[2 * i]
  BY <1>1 DEF Halves
<1>5. /\ u \in Seq(ItemSet) /\ Len(u) = e
      /\ \A i \in 1 .. e : u[i] = Evens(s)[e - i + 1]
  BY <1>3, ReverseFacts
<1> HIDE DEF u, v
<1>6. \A i \in 1 .. n : p[i] \in 1 .. n
  BY <1>2
<1>7. \A i, j \in 1 .. n : p[i] = p[j] => i = j
  BY <1>2
<1>8. \A j \in 1 .. n : \E i \in 1 .. n : p[i] = j
  <2>1. SUFFICES ASSUME NEW j \in 1 .. n PROVE \E i \in 1 .. n : p[i] = j
    OBVIOUS
  <2>2. PICK h \in Nat : j = 2 * h \/ j = 2 * h + 1
    <3>1. j \div 2 \in Nat /\ (j = 2 * (j \div 2) \/ j = 2 * (j \div 2) + 1)
      OBVIOUS
    <3>2. QED
      BY <3>1
  <2>3. CASE j = 2 * h
    <3>1. e + h \in 1 .. n /\ ~(e + h <= e)
      BY <1>2, <2>3
    <3>2. p[e + h] = j
      BY <1>2, <2>3, <3>1
    <3>3. QED
      BY <3>1, <3>2
  <2>4. CASE j = 2 * h + 1
    <3>1. e - h \in 1 .. n /\ e - h <= e
      BY <1>2, <2>4
    <3>2. p[e - h] = j
      BY <1>2, <2>4, <3>1
    <3>3. QED
      BY <3>1, <3>2
  <2>5. QED
    BY <2>2, <2>3, <2>4
<1>9. \A i \in 1 .. Len(u) : u[i] = s[p[i]]
  <2>1. SUFFICES ASSUME NEW i \in 1 .. e PROVE u[i] = s[p[i]]
    BY <1>5
  <2>2. e - i + 1 \in 1 .. e /\ i \in 1 .. n /\ i <= e
    BY <1>2
  <2>3. u[i] = s[2 * (e - i + 1) - 1]
    BY <1>3, <1>5, <2>2
  <2>4. QED
    BY <2>2, <2>3
<1>10. \A i \in 1 .. Len(v) : v[i] = s[p[Len(u) + i]]
  <2>1. SUFFICES ASSUME NEW i \in 1 .. o PROVE v[i] = s[p[e + i]]
    BY <1>4, <1>5
  <2>2. e + i \in 1 .. n /\ ~(e + i <= e) /\ (e + i) - e = i
    BY <1>2
  <2>3. p[e + i] = 2 * i
    BY <2>2
  <2>4. QED
    BY <1>4, <2>3
<1>11. p \in [1 .. n -> 1 .. n]
  <2>1. p = [i \in 1 .. n |-> p[i]]
    OBVIOUS
  <2> HIDE DEF p
  <2>2. QED
    BY <1>6, <2>1
<1> HIDE DEF p
<1>12. Permutation(p, Len(s)) /\ Len(u) + Len(v) = Len(s)
  BY <1>2, <1>4, <1>5, <1>7, <1>8, <1>11 DEF Permutation
<1>13. Rearranged(u \o v, s)
  BY <1>4, <1>5, <1>9, <1>10, <1>12, ConcatRearranges
<1>14. QED
  BY <1>13 DEF BothEnds, u, v

-----------------------------------------------------------------------------
(* The elements of sequences *)

In(x, q) == \E a \in 1 .. Len(q) : q[a] = x
Distinct(q) == \A a, b \in 1 .. Len(q) : q[a] = q[b] => a = b

LEMMA InFacts ==
  ASSUME NEW X, NEW q \in Seq(X)
  PROVE  /\ \A x : In(x, q) => x \in X
         /\ q = <<>> => \A x : ~In(x, q)
         /\ q # <<>> => In(q[1], q)
<1>1. Len(q) \in Nat /\ \A a \in 1 .. Len(q) : q[a] \in X
  BY LenProperties
<1>2. q = <<>> => Len(q) = 0
  BY EmptySeq
<1>3. q # <<>> => 1 \in 1 .. Len(q)
  BY EmptySeq
<1>4. QED
  BY <1>1, <1>2, <1>3 DEF In

LEMMA ConcatFacts ==
  ASSUME NEW X, NEW p \in Seq(X), NEW q \in Seq(X)
  PROVE  /\ p \o q \in Seq(X) /\ Len(p \o q) = Len(p) + Len(q)
         /\ p \o q = <<>> <=> p = <<>> /\ q = <<>>
         /\ \A x : In(x, p \o q) <=> In(x, p) \/ In(x, q)
         /\ Distinct(p) /\ Distinct(q) /\ (\A x : ~(In(x, p) /\ In(x, q)))
              => Distinct(p \o q)
<1> DEFINE r == p \o q
           m == Len(p)
           n == Len(q)
<1>1. /\ r \in Seq(X) /\ Len(r) = m + n
      /\ \A i \in 1 .. m + n : r[i] = IF i <= m THEN p[i] ELSE q[i - m]
  BY ConcatProperties
<1>2. m \in Nat /\ n \in Nat
  BY LenProperties
<1>3. p \o q = <<>> <=> p = <<>> /\ q = <<>>
  BY ConcatEqualIffEmpty
<1> HIDE DEF r
<1>4. ASSUME NEW x, In(x, r) PROVE In(x, p) \/ In(x, q)
  <2>1. PICK i \in 1 .. m + n : r[i] = x
    BY <1>1, <1>4 DEF In
  <2>2. CASE i <= m
    <3>1. i \in 1 .. m /\ p[i] = x
      BY <1>1, <1>2, <2>1, <2>2
    <3>2. QED
      BY <3>1 DEF In
  <2>3. CASE ~(i <= m)
    <3>1. i - m \in 1 .. n /\ q[i - m] = x
      BY <1>1, <1>2, <2>1, <2>3
    <3>2. QED
      BY <3>1 DEF In
  <2>4. QED
    BY <2>2, <2>3
<1>5. ASSUME NEW x, In(x, p) PROVE In(x, r)
  <2>1. PICK i \in 1 .. m : p[i] = x
    BY <1>5 DEF In
  <2>2. i \in 1 .. m + n /\ r[i] = x
    BY <1>1, <1>2, <2>1
  <2>3. QED
    BY <1>1, <2>2 DEF In
<1>6. ASSUME NEW x, In(x, q) PROVE In(x, r)
  <2>1. PICK i \in 1 .. n : q[i] = x
    BY <1>6 DEF In
  <2>2. m + i \in 1 .. m + n /\ ~(m + i <= m) /\ (m + i) - m = i
    BY <1>2
  <2>3. r[m + i] = x
    BY <1>1, <2>1, <2>2
  <2>4. QED
    BY <1>1, <2>2, <2>3 DEF In
<1>7. ASSUME Distinct(p), Distinct(q), \A x : ~(In(x, p) /\ In(x, q))
      PROVE  Distinct(r)
  <2>1. SUFFICES ASSUME NEW a \in 1 .. m + n, NEW b \in 1 .. m + n, r[a] = r[b]
                 PROVE  a = b
    BY <1>1 DEF Distinct
  <2>2. ASSUME NEW c \in 1 .. m + n
        PROVE  \/ c \in 1 .. m /\ r[c] = p[c] /\ In(r[c], p)
               \/ ~(c <= m) /\ c - m \in 1 .. n /\ r[c] = q[c - m] /\ In(r[c], q)
    <3>1. CASE c <= m
      <4>1. c \in 1 .. m /\ r[c] = p[c]
        BY <1>1, <1>2, <3>1
      <4>2. QED
        BY <4>1 DEF In
    <3>2. CASE ~(c <= m)
      <4>1. c - m \in 1 .. n /\ r[c] = q[c - m]
        BY <1>1, <1>2, <3>2
      <4>2. QED
        BY <3>2, <4>1 DEF In
    <3>3. QED
      BY <3>1, <3>2
  <2>3. CASE a \in 1 .. m /\ b \in 1 .. m /\ r[a] = p[a] /\ r[b] = p[b]
    BY <1>7, <2>1, <2>3 DEF Distinct
  <2>4. CASE /\ a - m \in 1 .. n /\ b - m \in 1 .. n
             /\ r[a] = q[a - m] /\ r[b] = q[b - m]
    <3>1. a - m = b - m
      BY <1>7, <2>1, <2>4 DEF Distinct
    <3>2. QED
      BY <1>2, <3>1
  <2>5. QED
    BY <1>7, <2>1, <2>2, <2>3, <2>4
<1>8. QED
  BY <1>1, <1>3, <1>4, <1>5, <1>6, <1>7 DEF r

LEMMA RearrangedIn ==
  ASSUME NEW X, NEW s \in Seq(X), NEW t, Rearranged(t, s)
  PROVE  /\ t \in Seq(X) /\ Len(t) = Len(s)
         /\ t = <<>> <=> s = <<>>
         /\ \A x : In(x, t) <=> In(x, s)
         /\ Distinct(s) => Distinct(t)
<1>1. PICK p \in [1 .. Len(s) -> 1 .. Len(s)] :
           /\ \A i, j \in 1 .. Len(s) : p[i] = p[j] => i = j
           /\ \A j \in 1 .. Len(s) : \E i \in 1 .. Len(s) : p[i] = j
           /\ t = [i \in 1 .. Len(s) |-> s[p[i]]]
  BY DEF Rearranged
<1>2. t \in Seq(X) /\ Len(t) = Len(s)
  BY RearrangedFacts
<1>3. t = <<>> <=> s = <<>>
  BY <1>2, EmptySeq
<1>4. \A i \in 1 .. Len(s) : p[i] \in 1 .. Len(s) /\ t[i] = s[p[i]]
  BY <1>1
<1>5. ASSUME NEW x, In(x, t) PROVE In(x, s)
  BY <1>2, <1>4, <1>5, Zenon DEF In
<1>6. ASSUME NEW x, In(x, s) PROVE In(x, t)
  <2>1. PICK j \in 1 .. Len(s) : s[j] = x
    BY <1>6 DEF In
  <2>2. PICK i \in 1 .. Len(s) : p[i] = j
    BY <1>1
  <2>3. QED
    BY <1>2, <1>4, <2>1, <2>2, Zenon DEF In
<1>7. ASSUME Distinct(s) PROVE Distinct(t)
  <2>1. SUFFICES ASSUME NEW a \in 1 .. Len(s), NEW b \in 1 .. Len(s), t[a] = t[b]
                 PROVE  a = b
    BY <1>2 DEF Distinct
  <2>2. p[a] = p[b]
    <3>1. /\ p[a] \in 1 .. Len(s) /\ p[b] \in 1 .. Len(s)
          /\ s[p[a]] = s[p[b]]
      BY <1>4, <2>1
    <3>2. QED
      BY <1>7, <3>1, Zenon DEF Distinct
  <2>3. QED
    BY <1>1, <2>2
<1>8. QED
  BY <1>2, <1>3, <1>5, <1>6, <1>7

-----------------------------------------------------------------------------
(* The states of karmarkar_karp *)

Holds(x, s) == \E i \in 1 .. Len(s) : In(x, s[i].items)
Full(s) == \A i \in 1 .. Len(s) : s[i].items # <<>>
Thin(s) == \A i \in 1 .. Len(s) : Len(s[i].items) <= 1

\* k sets of items in 1 .. n, disjoint; a set without work is empty; no set is
\* empty once a set has more than one item.
SetsOK(s, n, k) ==
  /\ s \in Seq(ItemSet) /\ Len(s) = k
  /\ \A i \in 1 .. k : s[i].items \in Seq(1 .. n) /\ Distinct(s[i].items)
  /\ \A i, j \in 1 .. k : \A x : In(x, s[i].items) /\ In(x, s[j].items) => i = j
  /\ \A i \in 1 .. k : s[i].sum = 0 <=> s[i].items = <<>>
  /\ Full(s) \/ Thin(s)

Decreasing(s) ==
  \A i, j \in 1 .. Len(s) : i < j => s[j].sum <= s[i].sum

\* u has the sets of J, sorted.
SortedOK(u, J, n, k) ==
  /\ SetsOK(u, n, k) /\ Decreasing(u) /\ u[1].items # <<>>
  /\ \A x : Holds(x, u) <=> Holds(x, J)
  /\ \E i, j \in 1 .. k : u[1] = J[i] /\ u[k] = J[j]

LEMMA SortedSets ==
  ASSUME NEW n \in Nat, NEW k \in Nat \ {0}, NEW J, SetsOK(J, n, k),
         \E i \in 1 .. k : J[i].items # <<>>
  PROVE  SortedOK(Sorted[J], J, n, k)
<1> DEFINE u == Sorted[J]
<1>1. /\ J \in Seq(ItemSet) /\ Len(J) = k
      /\ \A i \in 1 .. k : J[i].items \in Seq(1 .. n) /\ Distinct(J[i].items)
      /\ \A i, j \in 1 .. k : \A x : In(x, J[i].items) /\ In(x, J[j].items) => i = j
      /\ \A i \in 1 .. k : J[i].sum = 0 <=> J[i].items = <<>>
      /\ Full(J) \/ Thin(J)
  BY DEF SetsOK
<1>2. /\ Rearranged(u, J)
      /\ \A i, j \in 1 .. k : i < j => u[j].sum <= u[i].sum
  BY <1>1, SortedFacts
<1> HIDE DEF u
<1>3. PICK p \in [1 .. k -> 1 .. k] :
           /\ \A i, j \in 1 .. k : p[i] = p[j] => i = j
           /\ \A j \in 1 .. k : \E i \in 1 .. k : p[i] = j
           /\ u = [i \in 1 .. k |-> J[p[i]]]
  <2>1. Rearranged(u, J) /\ Len(J) = k
    BY <1>1, <1>2
  <2>2. PICK p \in [1 .. Len(J) -> 1 .. Len(J)] :
           /\ \A i, j \in 1 .. Len(J) : p[i] = p[j] => i = j
           /\ \A j \in 1 .. Len(J) : \E i \in 1 .. Len(J) : p[i] = j
           /\ u = [i \in 1 .. Len(J) |-> J[p[i]]]
    BY <2>1, Zenon DEF Rearranged
  <2>3. QED
    BY <2>1, <2>2
<1>4. u \in Seq(ItemSet) /\ Len(u) = k
  BY <1>1, <1>2, RearrangedIn
<1>5. \A i \in 1 .. k : p[i] \in 1 .. k /\ u[i] = J[p[i]]
  BY <1>3
<1>6. \A j \in 1 .. k : \E i \in 1 .. k : u[i] = J[j]
  BY <1>3, <1>5
<1>7. SetsOK(u, n, k)
  <2>1. \A i \in 1 .. k : u[i].items \in Seq(1 .. n) /\ Distinct(u[i].items)
    BY <1>1, <1>5
  <2>2. ASSUME NEW i \in 1 .. k, NEW j \in 1 .. k, NEW x,
               In(x, u[i].items), In(x, u[j].items)
        PROVE  i = j
    <3>1. /\ p[i] \in 1 .. k /\ p[j] \in 1 .. k
          /\ u[i] = J[p[i]] /\ u[j] = J[p[j]]
      BY <1>5
    <3>2. p[i] = p[j]
      BY <1>1, <2>2, <3>1, Zenon
    <3>3. QED
      BY <1>3, <3>2
  <2>3. ASSUME NEW i \in 1 .. k PROVE u[i].sum = 0 <=> u[i].items = <<>>
    <3>1. p[i] \in 1 .. k /\ u[i] = J[p[i]]
      BY <1>5
    <3>2. J[p[i]].sum = 0 <=> J[p[i]].items = <<>>
      BY <1>1, <3>1
    <3>3. QED
      BY <3>1, <3>2
  <2>4. Full(u) \/ Thin(u)
    BY <1>1, <1>4, <1>5 DEF Full, Thin
  <2>5. QED
    BY <1>4, <2>1, <2>2, <2>3, <2>4 DEF SetsOK
<1>8. Decreasing(u)
  BY <1>2, <1>4 DEF Decreasing
<1>9. u[1].items # <<>>
  <2>1. PICK j \in 1 .. k : u[j].items # <<>>
    BY <1>6
  <2>2. 1 \in 1 .. k /\ (1 = j \/ 1 < j)
    OBVIOUS
  <2>3. u[1] \in ItemSet /\ u[j] \in ItemSet
    BY <1>4, <2>2, ElementOfSeq
  <2>4. u[1].sum \in Nat /\ u[j].sum \in Nat
    BY <2>3 DEF ItemSet
  <2>5. u[j].sum # 0 /\ (u[1].sum = 0 <=> u[1].items = <<>>)
    BY <1>7, <2>1, <2>2 DEF SetsOK
  <2>6. 1 = j \/ u[j].sum <= u[1].sum
    BY <1>2, <2>2
  <2>7. u[1].sum # 0
    <3>1. PICK a, b : a = u[1].sum /\ b = u[j].sum
      OBVIOUS
    <3>2. a \in Nat /\ b \in Nat /\ b # 0 /\ (a = b \/ b <= a)
      BY <2>4, <2>5, <2>6, <3>1, Zenon
    <3>3. a # 0
      BY <3>2
    <3>4. QED
      BY <3>1, <3>3
  <2>8. QED
    BY <2>5, <2>7
<1>10. \A x : Holds(x, u) <=> Holds(x, J)
  <2>1. ASSUME NEW x, Holds(x, u) PROVE Holds(x, J)
    BY <1>1, <1>4, <1>5, <2>1 DEF Holds
  <2>2. ASSUME NEW x, Holds(x, J) PROVE Holds(x, u)
    BY <1>1, <1>4, <1>6, <2>2 DEF Holds
  <2>3. QED
    BY <2>1, <2>2
<1>11. \E i, j \in 1 .. k : u[1] = J[i] /\ u[k] = J[j]
  <2>1. 1 \in 1 .. k /\ k \in 1 .. k
    OBVIOUS
  <2>2. QED
    BY <1>5, <2>1
<1>12. QED
  BY <1>7, <1>8, <1>9, <1>10, <1>11 DEF u, SortedOK

LEMMA JoinFields ==
  ASSUME NEW a, NEW b
  PROVE  /\ Join(a, b).sum = a.sum + b.sum
         /\ Join(a, b).items = a.items \o b.items
BY DEF Join

LEMMA JoinType ==
  ASSUME NEW a, NEW b, a.sum + b.sum \in Nat, a.items \o b.items \in Seq(Nat)
  PROVE  Join(a, b) \in ItemSet
BY DEF Join, ItemSet

Joined(s, t, k) == [i \in 1 .. k |-> Join(s[i], t[k + 1 - i])]

\* State.merge keeps the shape: where both states have a hole, no set of the
\* merged state has more than one item.
LEMMA JoinSets ==
  ASSUME NEW n \in Nat, NEW k \in Nat \ {0}, NEW s, NEW t, NEW J,
         SetsOK(s, n, k), SetsOK(t, n, k), Decreasing(s), Decreasing(t),
         \A x : ~(Holds(x, s) /\ Holds(x, t)),
         J = Joined(s, t, k)
  PROVE  /\ SetsOK(J, n, k)
         /\ \A x : Holds(x, J) <=> Holds(x, s) \/ Holds(x, t)
<1>1. PICK r : r = [i \in 1 .. k |-> t[k + 1 - i]]
  OBVIOUS
<1>2. \A i \in 1 .. k : k + 1 - i \in 1 .. k /\ k + 1 - (k + 1 - i) = i
  OBVIOUS
<1>3. /\ s \in Seq(ItemSet) /\ Len(s) = k /\ t \in Seq(ItemSet) /\ Len(t) = k
      /\ Full(s) \/ Thin(s)
      /\ Full(t) \/ Thin(t)
  BY DEF SetsOK
<1>4. ASSUME NEW i \in 1 .. k
      PROVE  /\ J[i] = Join(s[i], r[i])
             /\ J[i].sum = s[i].sum + r[i].sum
             /\ J[i].items = s[i].items \o r[i].items
  BY <1>1 DEF Join, Joined
<1>5. ASSUME NEW i \in 1 .. k
      PROVE  /\ s[i].items \in Seq(1 .. n) /\ Distinct(s[i].items)
             /\ s[i].sum \in Nat /\ s[i].items \in Seq(Nat)
             /\ s[i].sum = 0 <=> s[i].items = <<>>
  <2>1. s[i] \in ItemSet
    BY <1>3, ElementOfSeq
  <2>2. QED
    BY <2>1, Zenon DEF SetsOK, ItemSet
<1>6. ASSUME NEW i \in 1 .. k
      PROVE  /\ t[i].items \in Seq(1 .. n) /\ Distinct(t[i].items)
             /\ t[i].sum \in Nat /\ t[i].items \in Seq(Nat)
             /\ t[i].sum = 0 <=> t[i].items = <<>>
  <2>1. t[i] \in ItemSet
    BY <1>3, ElementOfSeq
  <2>2. QED
    BY <2>1, Zenon DEF SetsOK, ItemSet
<1>7. ASSUME NEW i \in 1 .. k
      PROVE  /\ r[i].items \in Seq(1 .. n) /\ Distinct(r[i].items)
             /\ r[i].sum \in Nat /\ r[i].items \in Seq(Nat)
             /\ r[i].sum = 0 <=> r[i].items = <<>>
  <2>1. k + 1 - i \in 1 .. k /\ r[i] = t[k + 1 - i]
    BY <1>1, <1>2
  <2>2. QED
    BY <1>6, <2>1, Zenon
<1>8. \A i, j \in 1 .. k : \A x :
        /\ In(x, s[i].items) /\ In(x, s[j].items) => i = j
        /\ In(x, r[i].items) /\ In(x, r[j].items) => i = j
  <2>1. SUFFICES ASSUME NEW i \in 1 .. k, NEW j \in 1 .. k, NEW x
                 PROVE  /\ In(x, s[i].items) /\ In(x, s[j].items) => i = j
                        /\ In(x, r[i].items) /\ In(x, r[j].items) => i = j
    OBVIOUS
  <2>2. In(x, s[i].items) /\ In(x, s[j].items) => i = j
    BY Zenon DEF SetsOK
  <2>3. /\ k + 1 - i \in 1 .. k /\ r[i] = t[k + 1 - i]
        /\ k + 1 - j \in 1 .. k /\ r[j] = t[k + 1 - j]
    BY <1>1, <1>2
  <2>4. In(x, r[i].items) /\ In(x, r[j].items) => k + 1 - i = k + 1 - j
    BY <2>3, Zenon DEF SetsOK
  <2>5. k + 1 - i = k + 1 - j => i = j
    OBVIOUS
  <2>6. QED
    BY <2>2, <2>4, <2>5
<1>9. \A x : Holds(x, t) <=> \E i \in 1 .. k : In(x, r[i].items)
  <2>1. \A i \in 1 .. k : r[i] = t[k + 1 - i] /\ t[i] = r[k + 1 - i]
    BY <1>1, <1>2
  <2>2. QED
    BY <1>2, <1>3, <2>1, Zenon DEF Holds
<1>10. \A i, j \in 1 .. k : \A x : ~(In(x, s[i].items) /\ In(x, r[j].items))
  <2>1. SUFFICES ASSUME NEW i \in 1 .. k, NEW j \in 1 .. k, NEW x,
                        In(x, s[i].items), In(x, r[j].items)
                 PROVE  FALSE
    OBVIOUS
  <2>2. Holds(x, s)
    BY <1>3, <2>1 DEF Holds
  <2>3. Holds(x, t)
    BY <1>9, <2>1
  <2>4. QED
    BY <2>2, <2>3
<1>11. J \in Seq(ItemSet) /\ Len(J) = k
  <2>1. ASSUME NEW i \in 1 .. k PROVE J[i] \in ItemSet
    <3>1. s[i].items \o r[i].items \in Seq(Nat)
      BY <1>5, <1>7, ConcatProperties
    <3>2. s[i].sum + r[i].sum \in Nat
      <4>1. PICK a, b : a = s[i].sum /\ b = r[i].sum
        OBVIOUS
      <4>2. a \in Nat /\ b \in Nat
        BY <1>5, <1>7, <4>1, Zenon
      <4>3. a + b \in Nat
        BY <4>2
      <4>4. QED
        BY <4>1, <4>3, Zenon
    <3>3. QED
      BY <1>4, <3>1, <3>2, JoinType, Zenon
  <2>2. J = [i \in 1 .. k |-> J[i]]
    BY DEF Joined
  <2>3. J \in [1 .. k -> ItemSet]
    BY <2>1, <2>2
  <2>4. QED
    BY <2>3
<1>12. ASSUME NEW i \in 1 .. k
       PROVE  /\ J[i].items \in Seq(1 .. n) /\ Distinct(J[i].items)
              /\ Len(J[i].items) = Len(s[i].items) + Len(r[i].items)
              /\ J[i].items = <<>> <=> s[i].items = <<>> /\ r[i].items = <<>>
              /\ \A x : In(x, J[i].items)
                          <=> In(x, s[i].items) \/ In(x, r[i].items)
  <2>1. /\ s[i].items \in Seq(1 .. n) /\ r[i].items \in Seq(1 .. n)
        /\ Distinct(s[i].items) /\ Distinct(r[i].items)
        /\ \A x : ~(In(x, s[i].items) /\ In(x, r[i].items))
        /\ J[i].items = s[i].items \o r[i].items
    BY <1>4, <1>5, <1>7, <1>10
  <2>2. PICK a, b, c : a = s[i].items /\ b = r[i].items /\ c = J[i].items
    OBVIOUS
  <2>3. /\ a \in Seq(1 .. n) /\ b \in Seq(1 .. n) /\ Distinct(a) /\ Distinct(b)
        /\ \A x : ~(In(x, a) /\ In(x, b))
        /\ c = a \o b
    BY <2>1, <2>2
  <2>4. /\ c \in Seq(1 .. n) /\ Distinct(c) /\ Len(c) = Len(a) + Len(b)
        /\ c = <<>> <=> a = <<>> /\ b = <<>>
        /\ \A x : In(x, c) <=> In(x, a) \/ In(x, b)
    BY <2>3, ConcatFacts
  <2>5. QED
    BY <2>2, <2>4
<1>13. ASSUME NEW i \in 1 .. k PROVE J[i].sum = 0 <=> J[i].items = <<>>
  <2>1. J[i].sum = 0 <=> s[i].sum = 0 /\ r[i].sum = 0
    <3>1. PICK a, b, c : a = s[i].sum /\ b = r[i].sum /\ c = J[i].sum
      OBVIOUS
    <3>2. a \in Nat /\ b \in Nat /\ c = a + b
      BY <1>4, <1>5, <1>7, <3>1, Zenon
    <3>3. c = 0 <=> a = 0 /\ b = 0
      BY <3>2
    <3>4. QED
      BY <3>1, <3>3
  <2>2. QED
    BY <1>5, <1>7, <1>12, <2>1
<1>14. ASSUME NEW i \in 1 .. k, NEW j \in 1 .. k, NEW x,
              In(x, J[i].items), In(x, J[j].items)
       PROVE  i = j
  <2>1. /\ In(x, s[i].items) \/ In(x, r[i].items)
        /\ In(x, s[j].items) \/ In(x, r[j].items)
    BY <1>12, <1>14
  <2>2. QED
    BY <1>8, <1>10, <2>1, Zenon
<1>15. Full(J) \/ Thin(J)
  <2>1. SUFFICES ASSUME ~Full(J) PROVE Thin(J)
    OBVIOUS
  <2>2. PICK i \in 1 .. k : s[i].items = <<>> /\ r[i].items = <<>>
    BY <1>11, <1>12, <2>1 DEF Full
  <2>3. k + 1 - i \in 1 .. k /\ r[i] = t[k + 1 - i]
    BY <1>1, <1>2
  <2>4. Thin(s) /\ Thin(t)
    BY <1>3, <2>2, <2>3 DEF Full
  <2>5. s[i].sum = 0 /\ r[i].sum = 0
    BY <1>5, <1>7, <2>2
  <2>6. SUFFICES ASSUME NEW j \in 1 .. k PROVE Len(J[j].items) <= 1
    BY <1>11 DEF Thin
  <2>7. k + 1 - j \in 1 .. k /\ r[j] = t[k + 1 - j]
    BY <1>1, <1>2
  <2>8. Len(s[j].items) <= 1 /\ Len(r[j].items) <= 1
    BY <1>3, <2>4, <2>7 DEF Thin
  <2>9. /\ Len(s[j].items) \in Nat /\ Len(r[j].items) \in Nat
        /\ s[j].sum \in Nat /\ r[j].sum \in Nat
    BY <1>5, <1>7, LenProperties
  <2>10. Len(J[j].items) = Len(s[j].items) + Len(r[j].items)
    BY <1>12
  <2>11. CASE i = j \/ i < j
    <3>1. s[j].sum = 0
      <4>1. i = j \/ s[j].sum <= s[i].sum
        BY <1>3, <2>11 DEF Decreasing
      <4>2. QED
        BY <2>5, <2>9, <4>1
    <3>2. Len(s[j].items) = 0
      BY <1>5, <3>1, EmptySeq
    <3>3. QED
      BY <2>8, <2>9, <2>10, <3>2
  <2>12. CASE j < i
    <3>1. r[j].sum = 0
      <4>1. k + 1 - i < k + 1 - j
        BY <2>12
      <4>2. r[j].sum <= r[i].sum
        BY <1>3, <2>3, <2>7, <4>1 DEF Decreasing
      <4>3. QED
        BY <2>5, <2>9, <4>2
    <3>2. Len(r[j].items) = 0
      BY <1>7, <3>1, EmptySeq
    <3>3. QED
      BY <2>8, <2>9, <2>10, <3>2
  <2>13. i = j \/ i < j \/ j < i
    OBVIOUS
  <2>14. QED
    BY <2>11, <2>12, <2>13
<1>16. SetsOK(J, n, k)
  BY <1>11, <1>12, <1>13, <1>14, <1>15, Zenon DEF SetsOK
<1>17. \A x : Holds(x, J) <=> Holds(x, s) \/ Holds(x, t)
  BY <1>3, <1>9, <1>11, <1>12, Zenon DEF Holds
<1>18. QED
  BY <1>16, <1>17

\* A state in the heap
StateOK(s, n, k, W) ==
  /\ SetsOK(s, n, k) /\ Decreasing(s)
  /\ s[1].items # <<>>
  /\ \E x \in 1 .. n : Spread(s) <= W[x]

\* No item is in two states.
Disjoint(H) == \A s, t \in H : \A x : Holds(x, s) /\ Holds(x, t) => s = t

HeapOK(H, n, k, W) ==
  /\ IsFiniteSet(H) /\ H # {} /\ Disjoint(H)
  /\ \A s \in H : StateOK(s, n, k, W)
  /\ \A x \in 1 .. n : \E s \in H : Holds(x, s)

LEMMA SpreadFacts ==
  ASSUME NEW n \in Nat, NEW k \in Nat \ {0}, NEW s, SetsOK(s, n, k), Decreasing(s)
  PROVE  /\ \A i \in 1 .. k : s[i] \in ItemSet /\ s[i].sum \in Nat
         /\ \A i, j \in 1 .. k : i <= j => s[j].sum <= s[i].sum
         /\ Spread(s) = s[1].sum - s[k].sum
         /\ Spread(s) \in Nat
<1>1. s \in Seq(ItemSet) /\ Len(s) = k
  BY DEF SetsOK
<1>2. ASSUME NEW i \in 1 .. k PROVE s[i] \in ItemSet /\ s[i].sum \in Nat
  <2>1. s[i] \in ItemSet
    BY <1>1, ElementOfSeq
  <2>2. QED
    BY <2>1, Zenon DEF ItemSet
<1>3. ASSUME NEW i \in 1 .. k, NEW j \in 1 .. k, i <= j
      PROVE  s[j].sum <= s[i].sum
  <2>1. CASE i = j
    <3>1. PICK a : a = s[i].sum /\ a \in Nat
      BY <1>2
    <3>2. a <= a
      BY <3>1
    <3>3. QED
      BY <2>1, <3>1, <3>2, Zenon
  <2>2. CASE i # j
    <3>1. i < j
      BY <1>3, <2>2
    <3>2. QED
      BY <1>1, <3>1 DEF Decreasing
  <2>3. QED
    BY <2>1, <2>2
<1>4. Spread(s) = s[1].sum - s[k].sum
  BY <1>1 DEF Spread
<1>5. Spread(s) \in Nat
  <2>1. PICK a, b : a = s[1].sum /\ b = s[k].sum
    OBVIOUS
  <2>2. 1 \in 1 .. k /\ k \in 1 .. k /\ 1 <= k
    OBVIOUS
  <2>3. a \in Nat /\ b \in Nat /\ b <= a /\ Spread(s) = a - b
    BY <1>2, <1>3, <1>4, <2>1, <2>2, Zenon
  <2>4. a - b \in Nat
    BY <2>3
  <2>5. QED
    BY <2>3, <2>4, Zenon
<1>6. QED
  BY <1>2, <1>3, <1>4, <1>5

\* State.merge: the spread of the merged state is at most that of one of the two.
LEMMA MergedState ==
  ASSUME NEW n \in Nat, NEW k \in Nat \ {0}, NEW W \in [1 .. n -> Nat],
         NEW s, NEW t, StateOK(s, n, k, W), StateOK(t, n, k, W),
         \A x : ~(Holds(x, s) /\ Holds(x, t))
  PROVE  /\ StateOK(Merged(s, t), n, k, W)
         /\ \A x : Holds(x, Merged(s, t)) <=> Holds(x, s) \/ Holds(x, t)
<1>0. PICK J : J = Joined(s, t, k)
  OBVIOUS
<1>1. J = [i \in 1 .. k |-> Join(s[i], t[k + 1 - i])]
  BY <1>0 DEF Joined
<1>2. /\ SetsOK(s, n, k) /\ Decreasing(s) /\ SetsOK(t, n, k) /\ Decreasing(t)
      /\ s[1].items # <<>>
  BY DEF StateOK
<1>3. /\ SetsOK(J, n, k)
      /\ \A x : Holds(x, J) <=> Holds(x, s) \/ Holds(x, t)
  BY <1>0, <1>2, JoinSets, Zenon
<1>4. Merged(s, t) = Sorted[J]
  <2>1. DOMAIN s = 1 .. k /\ Len(s) = k
    BY <1>2, LenProperties DEF SetsOK
  <2>2. Merged(s, t) = Sorted[Tuple(J)]
    BY <1>1, <2>1, Zenon DEF Merged
  <2>3. J \in Seq(ItemSet)
    BY <1>3 DEF SetsOK
  <2>4. QED
    BY <2>2, <2>3, TupleFacts
<1>5. 1 \in 1 .. k /\ k \in 1 .. k
  OBVIOUS
<1>6. J[1].items # <<>>
  <2>1. J[1] = Join(s[1], t[k + 1 - 1]) /\ k + 1 - 1 = k
    BY <1>1, <1>5
  <2>1a. J[1] = Join(s[1], t[k])
    BY <2>1, Zenon
  <2>2. J[1].items = s[1].items \o t[k].items
    BY <2>1a, JoinFields, Zenon
  <2>3. s[1].items \in Seq(1 .. n) /\ t[k].items \in Seq(1 .. n)
    BY <1>2, <1>5 DEF SetsOK
  <2>4. QED
    BY <1>2, <2>2, <2>3, ConcatFacts
<1> DEFINE u == Sorted[J]
<1>7. /\ SetsOK(u, n, k) /\ Decreasing(u) /\ u[1].items # <<>>
      /\ \A x : Holds(x, u) <=> Holds(x, J)
      /\ \E i, j \in 1 .. k : u[1] = J[i] /\ u[k] = J[j]
  <2>1. \E i \in 1 .. k : J[i].items # <<>>
    BY <1>5, <1>6
  <2>2. SortedOK(u, J, n, k)
    BY <1>3, <2>1, SortedSets, Zenon
  <2> HIDE DEF u
  <2>3. QED
    BY <2>2, Zenon DEF SortedOK
<1> HIDE DEF u
<1>8. PICK i \in 1 .. k, j \in 1 .. k : u[1] = J[i] /\ u[k] = J[j]
  BY <1>7
<1>9. PICK p \in 1 .. k, q \in 1 .. k :
           /\ p = k + 1 - i /\ q = k + 1 - j
           /\ u[1].sum = s[i].sum + t[p].sum
           /\ u[k].sum = s[j].sum + t[q].sum
  <2>1. k + 1 - i \in 1 .. k /\ k + 1 - j \in 1 .. k
    OBVIOUS
  <2>2. J[i] = Join(s[i], t[k + 1 - i]) /\ J[j] = Join(s[j], t[k + 1 - j])
    BY <1>1
  <2>3. QED
    BY <1>8, <2>1, <2>2 DEF Join
<1>10. Spread(u) <= Spread(s) \/ Spread(u) <= Spread(t)
  <2>1. PICK a, b, c, d : a = s[i].sum /\ b = t[p].sum /\ c = s[j].sum /\ d = t[q].sum
    OBVIOUS
  <2>2. PICK e, f, g, h : e = s[1].sum /\ f = t[1].sum /\ g = s[k].sum /\ h = t[k].sum
    OBVIOUS
  <2>3. /\ a \in Nat /\ b \in Nat /\ c \in Nat /\ d \in Nat
        /\ e \in Nat /\ f \in Nat /\ g \in Nat /\ h \in Nat
    BY <1>2, <1>5, <2>1, <2>2, SpreadFacts, Zenon
  <2>4. 1 <= i /\ 1 <= p /\ j <= k /\ q <= k
    OBVIOUS
  <2>5. a <= e /\ b <= f /\ g <= c /\ h <= d
    BY <1>2, <1>5, <2>1, <2>2, <2>4, SpreadFacts, Zenon
  <2>6. Spread(s) = e - g /\ Spread(t) = f - h
    BY <1>2, <2>2, SpreadFacts, Zenon
  <2>7. Spread(u) = (a + b) - (c + d)
    BY <1>7, <1>9, <2>1, SpreadFacts, Zenon
  <2>8. CASE i <= j
    <3>1. q <= p
      BY <1>9, <2>8
    <3>2. b <= d
      BY <1>2, <2>1, <3>1, SpreadFacts, Zenon
    <3>3. QED
      BY <2>3, <2>5, <2>6, <2>7, <3>2
  <2>9. CASE j <= i
    <3>1. a <= c
      BY <1>2, <2>1, <2>9, SpreadFacts, Zenon
    <3>2. QED
      BY <2>3, <2>5, <2>6, <2>7, <3>1
  <2>10. i <= j \/ j <= i
    OBVIOUS
  <2>11. QED
    BY <2>8, <2>9, <2>10
<1>11. \E x \in 1 .. n : Spread(u) <= W[x]
  <2>1. Spread(u) \in Nat /\ Spread(s) \in Nat /\ Spread(t) \in Nat
    BY <1>2, <1>7, SpreadFacts, Zenon
  <2>2. PICK x \in 1 .. n : Spread(s) <= W[x]
    BY DEF StateOK
  <2>3. PICK y \in 1 .. n : Spread(t) <= W[y]
    BY DEF StateOK
  <2>4. W[x] \in Nat /\ W[y] \in Nat
    OBVIOUS
  <2>5. Spread(u) <= W[x] \/ Spread(u) <= W[y]
    BY <1>10, <2>1, <2>2, <2>3, <2>4
  <2>6. QED
    BY <2>5
<1>12. StateOK(u, n, k, W)
  BY <1>7, <1>11 DEF StateOK
<1>13. QED
  BY <1>3, <1>4, <1>7, <1>12 DEF u

\* State.__lt__ is a total order of the states in the heap.
LEMMA FirstFacts ==
  ASSUME NEW n \in Nat, NEW k \in Nat \ {0}, NEW W, NEW H,
         IsFiniteSet(H), H # {}, Disjoint(H), \A s \in H : StateOK(s, n, k, W)
  PROVE  First(H) \in H
<1>1. PICK before : before = [t \in H |-> {s \in H : Before(s, t)}]
  OBVIOUS
<1>2. \A s, t \in H : s \in before[t] <=> Before(s, t)
  BY <1>1
<1>3. before \in [H -> SUBSET H]
  BY <1>1
<1>4. \A s \in H : /\ Spread(s) \in Nat /\ s[1] \in ItemSet
                   /\ s[1].items # <<>> /\ 1 \in 1 .. Len(s)
  <2>1. SUFFICES ASSUME NEW s \in H
                 PROVE  /\ Spread(s) \in Nat /\ s[1] \in ItemSet
                        /\ s[1].items # <<>> /\ 1 \in 1 .. Len(s)
    OBVIOUS
  <2>2. SetsOK(s, n, k) /\ Decreasing(s) /\ s[1].items # <<>>
    BY DEF StateOK
  <2>3. 1 \in 1 .. k /\ Len(s) = k
    BY <2>2 DEF SetsOK
  <2>4. QED
    BY <2>2, <2>3, SpreadFacts, Zenon
<1>5. \A s \in H : s \notin before[s]
  <2>1. SUFFICES ASSUME NEW s \in H PROVE ~Before(s, s)
    BY <1>2
  <2>2. ~(Spread(s) > Spread(s))
    BY <1>4
  <2>3. ~Less(s[1], s[1])
    BY <1>4, LessFacts
  <2>4. QED
    BY <2>2, <2>3 DEF Before
<1>6. ASSUME NEW r \in H, NEW s \in H, NEW t \in H,
             r \in before[s], s \in before[t]
      PROVE  r \in before[t]
  <2>1. Before(r, s) /\ Before(s, t)
    BY <1>2, <1>6
  <2>2. PICK a, b, c : a = Spread(r) /\ b = Spread(s) /\ c = Spread(t)
    OBVIOUS
  <2>3. /\ a > b \/ (a = b /\ Less(s[1], r[1]))
        /\ b > c \/ (b = c /\ Less(t[1], s[1]))
    BY <2>1, <2>2, Zenon DEF Before
  <2>4. a \in Nat /\ b \in Nat /\ c \in Nat
    BY <1>4, <2>2, Zenon
  <2>5. Less(s[1], r[1]) /\ Less(t[1], s[1]) => Less(t[1], r[1])
    BY <1>4, LessFacts, Zenon
  <2>6. a > c \/ (a = c /\ Less(t[1], r[1]))
    BY <2>3, <2>4, <2>5
  <2>7. QED
    BY <1>2, <2>2, <2>6, Zenon DEF Before
<1>7. ASSUME NEW s \in H, NEW t \in H
      PROVE  s = t \/ s \in before[t] \/ t \in before[s]
  <2>1. PICK a, b : a = Spread(s) /\ b = Spread(t)
    OBVIOUS
  <2>2. a \in Nat /\ b \in Nat
    BY <1>4, <2>1, Zenon
  <2>3. a > b \/ b > a \/ a = b
    BY <2>2
  <2>4. \/ Less(s[1], t[1]) \/ Less(t[1], s[1])
        \/ FrontItem(s[1].items) = FrontItem(t[1].items)
    BY <1>4, LessFacts, Zenon
  <2>5. ASSUME FrontItem(s[1].items) = FrontItem(t[1].items) PROVE s = t
    <3>1. PICK p, q : p = s[1].items /\ q = t[1].items
      OBVIOUS
    <3>2. p \in Seq(Nat) /\ q \in Seq(Nat) /\ p # <<>> /\ q # <<>>
      BY <1>4, <3>1, Zenon DEF ItemSet
    <3>3. p[1] = q[1]
      BY <2>5, <3>1, <3>2 DEF FrontItem
    <3>4. In(p[1], p) /\ In(p[1], q)
      BY <3>2, <3>3, InFacts
    <3>5. Holds(p[1], s) /\ Holds(p[1], t)
      BY <1>4, <3>1, <3>4, Zenon DEF Holds
    <3>6. QED
      BY <3>5 DEF Disjoint
  <2>6. QED
    BY <1>2, <2>1, <2>3, <2>4, <2>5, Zenon DEF Before
<1>8. \E s \in H : \A t \in H \ {s} : s \in before[t]
  BY <1>3, <1>5, <1>6, <1>7, FirstExists
<1>9. \E s \in H : \A t \in H \ {s} : Before(s, t)
  BY <1>2, <1>8
<1>10. QED
  BY <1>9, Zenon DEF First

\* One round of karmarkar_karp
LEMMA MergeHeap ==
  ASSUME NEW n \in Nat, NEW k \in Nat \ {0}, NEW W \in [1 .. n -> Nat], NEW H,
         HeapOK(H, n, k, W), Cardinality(H) > 1,
         NEW s, s = First(H), NEW t, t = First(H \ {s})
  PROVE  HeapOK(Popped(H, s, t) \union {Merged(s, t)}, n, k, W)
<1>1. /\ IsFiniteSet(H) /\ H # {} /\ Disjoint(H)
      /\ \A r \in H : StateOK(r, n, k, W)
      /\ \A x \in 1 .. n : \E r \in H : Holds(x, r)
  BY DEF HeapOK
<1>2. s \in H
  BY <1>1, FirstFacts
<1>3. t \in H \ {s}
  <2>1. IsFiniteSet(H \ {s}) /\ Cardinality(H \ {s}) = Cardinality(H) - 1
    BY <1>1, <1>2, FS_RemoveElement
  <2>2. Cardinality(H) \in Nat
    BY <1>1, FS_CardinalityType
  <2>3. Cardinality(H \ {s}) # 0
    BY <2>1, <2>2
  <2>4. H \ {s} # {}
    BY <2>3, FS_EmptySet
  <2>5. Disjoint(H \ {s}) /\ \A r \in H \ {s} : StateOK(r, n, k, W)
    BY <1>1 DEF Disjoint
  <2>6. QED
    BY <2>1, <2>4, <2>5, FirstFacts
<1> DEFINE u == Merged(s, t)
           P == Popped(H, s, t)
<1>4. /\ StateOK(u, n, k, W)
      /\ \A x : Holds(x, u) <=> Holds(x, s) \/ Holds(x, t)
  <2>1. \A x : ~(Holds(x, s) /\ Holds(x, t))
    BY <1>1, <1>2, <1>3 DEF Disjoint
  <2>2. StateOK(s, n, k, W) /\ StateOK(t, n, k, W)
    BY <1>1, <1>2, <1>3
  <2>3. QED
    BY <2>1, <2>2, MergedState
<1> HIDE DEF u
<1>5. P \in SUBSET H /\ \A r : r \in P <=> r \in H /\ r # s /\ r # t
  BY DEF Popped
<1> HIDE DEF P
<1>6. IsFiniteSet(P \union {u}) /\ P \union {u} # {}
  BY <1>1, <1>5, FS_Subset, FS_AddElement
<1>7. ASSUME NEW a \in P \union {u}, NEW b \in P \union {u}, NEW x,
             Holds(x, a), Holds(x, b)
      PROVE  a = b
  <2>1. CASE a \in P /\ b \in P
    BY <1>1, <1>5, <1>7, <2>1 DEF Disjoint
  <2>2. ASSUME NEW c \in P PROVE ~(Holds(x, c) /\ Holds(x, u))
    BY <1>1, <1>2, <1>3, <1>4, <1>5, <2>2 DEF Disjoint
  <2>3. QED
    BY <1>7, <2>1, <2>2
<1>8. \A r \in P \union {u} : StateOK(r, n, k, W)
  BY <1>1, <1>4, <1>5
<1>9. ASSUME NEW x \in 1 .. n PROVE \E r \in P \union {u} : Holds(x, r)
  <2>1. PICK r \in H : Holds(x, r)
    BY <1>1
  <2>2. CASE r = s \/ r = t
    BY <1>4, <2>1, <2>2
  <2>3. CASE r # s /\ r # t
    BY <1>5, <2>1, <2>3
  <2>4. QED
    BY <2>2, <2>3
<1>10. HeapOK(P \union {u}, n, k, W)
  BY <1>6, <1>7, <1>8, <1>9 DEF HeapOK, Disjoint
<1>11. QED
  BY <1>10 DEF P, u

LEMMA SingletonFacts ==
  ASSUME NEW X, NEW x \in X
  PROVE  /\ <<x>> \in Seq(X) /\ <<x>> # <<>> /\ Len(<<x>>) = 1
         /\ Distinct(<<x>>) /\ \A y : In(y, <<x>>) <=> y = x
<1>1. <<x>> \in Seq(X) /\ Len(<<x>>) = 1 /\ <<x>>[1] = x
  OBVIOUS
<1>2. <<x>> # <<>>
  BY <1>1, EmptySeq
<1>3. \A a \in 1 .. 1 : a = 1
  OBVIOUS
<1>4. 1 \in 1 .. 1
  OBVIOUS
<1>5. PICK q : q = <<x>>
  OBVIOUS
<1>6. Len(q) = 1 /\ q[1] = x
  BY <1>1, <1>5
<1>7. Distinct(q) /\ \A y : In(y, q) <=> y = x
  BY <1>3, <1>4, <1>6, Zenon DEF Distinct, In
<1>8. QED
  BY <1>1, <1>2, <1>5, <1>7

LEMMA SingleFacts ==
  ASSUME NEW w, NEW i \in Nat, Work(w, i) \in Nat
  PROVE  /\ Single(w, i) \in ItemSet
         /\ Single(w, i).sum = Work(w, i) /\ Single(w, i).items = <<i>>
BY DEF Single, ItemSet

LEMMA EmptySetFacts ==
  EmptySet \in ItemSet /\ EmptySet.sum = 0 /\ EmptySet.items = <<>>
BY DEF EmptySet, ItemSet

\* W is the work of the rows.
WorkOf(W, w, n) ==
  W \in [1 .. n -> Nat] /\ \A i \in 1 .. n : W[i] = Work(w, i) /\ W[i] > 0

Singles(w, q, k) == [i \in 1 .. k |-> Single(w, q[i])]

\* A state of equal sizes: one row in every set
LEMMA EqualState ==
  ASSUME NEW w, NEW n \in Nat, NEW k \in Nat \ {0}, NEW q \in Seq(1 .. n),
         Len(q) = k, Distinct(q), NEW W, WorkOf(W, w, n),
         NEW E, E = Singles(w, q, k)
  PROVE  /\ StateOK(Sorted[E], n, k, W) /\ E \in Seq(ItemSet)
         /\ \A x : Holds(x, Sorted[E]) <=> In(x, q)
<1>1. ASSUME NEW i \in 1 .. k
      PROVE  /\ q[i] \in 1 .. n /\ E[i] \in ItemSet
             /\ E[i].sum = W[q[i]] /\ E[i].items = <<q[i]>> /\ W[q[i]] > 0
  <2>1. q[i] \in 1 .. n
    BY ElementOfSeq
  <2>2. q[i] \in Nat /\ W[q[i]] = Work(w, q[i]) /\ W[q[i]] > 0 /\ W[q[i]] \in Nat
    BY <2>1 DEF WorkOf
  <2>3. E[i] = Single(w, q[i])
    BY DEF Singles
  <2>4. Work(w, q[i]) \in Nat
    BY <2>2
  <2>5. /\ Single(w, q[i]) \in ItemSet
        /\ Single(w, q[i]).sum = Work(w, q[i]) /\ Single(w, q[i]).items = <<q[i]>>
    BY <2>2, <2>4, SingleFacts, Zenon
  <2>6. QED
    BY <2>1, <2>2, <2>3, <2>5, Zenon
<1>2. E \in Seq(ItemSet) /\ Len(E) = k
  <2>1. E = [i \in 1 .. k |-> E[i]]
    BY DEF Singles
  <2>2. E \in [1 .. k -> ItemSet]
    BY <1>1, <2>1
  <2>3. QED
    BY <2>2
<1>3. ASSUME NEW i \in 1 .. k
      PROVE  /\ E[i].items \in Seq(1 .. n) /\ Distinct(E[i].items)
             /\ E[i].items # <<>> /\ E[i].sum # 0 /\ Len(E[i].items) = 1
             /\ \A x : In(x, E[i].items) <=> x = q[i]
  <2>1. /\ <<q[i]>> \in Seq(1 .. n) /\ <<q[i]>> # <<>> /\ Len(<<q[i]>>) = 1
        /\ Distinct(<<q[i]>>) /\ \A y : In(y, <<q[i]>>) <=> y = q[i]
    BY <1>1, SingletonFacts, Zenon
  <2>2. W[q[i]] # 0
    BY <1>1
  <2>3. QED
    BY <1>1, <2>1, <2>2, Zenon
<1>4. SetsOK(E, n, k)
  <2>1. ASSUME NEW i \in 1 .. k, NEW j \in 1 .. k, NEW x,
               In(x, E[i].items), In(x, E[j].items)
        PROVE  i = j
    <3>1. q[i] = q[j]
      BY <1>3, <2>1, Zenon
    <3>2. QED
      BY <3>1 DEF Distinct
  <2>2. Full(E)
    BY <1>2, <1>3, Zenon DEF Full
  <2>3. QED
    BY <1>2, <1>3, <2>1, <2>2, Zenon DEF SetsOK
<1>5. 1 \in 1 .. k /\ k \in 1 .. k
  OBVIOUS
<1> DEFINE u == Sorted[E]
<1>6. /\ SetsOK(u, n, k) /\ Decreasing(u) /\ u[1].items # <<>>
      /\ \A x : Holds(x, u) <=> Holds(x, E)
      /\ \E i, j \in 1 .. k : u[1] = E[i] /\ u[k] = E[j]
  <2>1. \E i \in 1 .. k : E[i].items # <<>>
    BY <1>3, <1>5
  <2>2. QED
    <3>1. SortedOK(u, E, n, k)
      BY <1>4, <2>1, SortedSets, Zenon
    <3> HIDE DEF u
    <3>2. QED
      BY <3>1, Zenon DEF SortedOK
<1> HIDE DEF u
<1>7. \E x \in 1 .. n : Spread(u) <= W[x]
  <2>1. PICK i \in 1 .. k : u[1] = E[i]
    BY <1>6
  <2>2. PICK a, b : a = u[1].sum /\ b = u[k].sum
    OBVIOUS
  <2>3. a \in Nat /\ b \in Nat /\ Spread(u) = a - b
    BY <1>5, <1>6, <2>2, SpreadFacts, Zenon
  <2>4. a = W[q[i]] /\ q[i] \in 1 .. n
    BY <1>1, <2>1, <2>2, Zenon
  <2>5. a - b <= a
    BY <2>3
  <2>6. QED
    BY <2>3, <2>4, <2>5, Zenon
<1>8. \A x : Holds(x, u) <=> In(x, q)
  <2>1. SUFFICES ASSUME NEW x PROVE Holds(x, E) <=> In(x, q)
    BY <1>6
  <2>2. Holds(x, E) <=> \E i \in 1 .. k : In(x, E[i].items)
    BY <1>2, Zenon DEF Holds
  <2>3. In(x, q) <=> \E i \in 1 .. k : q[i] = x
    BY DEF In
  <2>4. QED
    BY <1>3, <2>2, <2>3
<1>9. StateOK(u, n, k, W)
  BY <1>6, <1>7, Zenon DEF StateOK
<1>10. QED
  BY <1>2, <1>8, <1>9 DEF u

\* A heap given by a family of states
LEMMA FamilyHeap ==
  ASSUME NEW n \in Nat, NEW k \in Nat \ {0}, NEW W, NEW D, IsFiniteSet(D), D # {},
         NEW f, NEW H, \A o \in D : f[o] \in H, \A s \in H : \E o \in D : s = f[o],
         \A o \in D : StateOK(f[o], n, k, W),
         \A o, p \in D : \A x : Holds(x, f[o]) /\ Holds(x, f[p]) => o = p,
         \A x \in 1 .. n : \E o \in D : Holds(x, f[o])
  PROVE  HeapOK(H, n, k, W)
<1> DEFINE g == [o \in D |-> f[o]]
<1>1. g \in Surjection(D, H)
  BY DEF Surjection
<1>2. IsFiniteSet(H)
  <2> HIDE DEF g
  <2>1. QED
    BY <1>1, FS_Surjection
<1>3. H # {}
  OBVIOUS
<1>4. Disjoint(H)
  <2>1. SUFFICES ASSUME NEW s \in H, NEW t \in H, NEW x, Holds(x, s), Holds(x, t)
                 PROVE  s = t
    BY DEF Disjoint
  <2>2. PICK o \in D : s = f[o]
    OBVIOUS
  <2>3. PICK p \in D : t = f[p]
    OBVIOUS
  <2>4. o = p
    BY <2>1, <2>2, <2>3
  <2>5. QED
    BY <2>2, <2>3, <2>4
<1>5. \A s \in H : StateOK(s, n, k, W)
  BY Zenon
<1>6. \A x \in 1 .. n : \E s \in H : Holds(x, s)
  BY Zenon
<1>7. QED
  BY <1>2, <1>3, <1>4, <1>5, <1>6 DEF HeapOK

LEMMA UptoFacts ==
  ASSUME NEW n \in Nat
  PROVE  /\ Upto(n) \in Seq(1 .. n) /\ Upto(n) \in Seq(Nat) /\ Len(Upto(n)) = n
         /\ Distinct(Upto(n)) /\ \A x : In(x, Upto(n)) <=> x \in 1 .. n
         /\ \A i \in 1 .. n : Upto(n)[i] = i
<1>1. /\ Upto(n) \in Seq(1 .. n) /\ Upto(n) \in Seq(Nat) /\ Len(Upto(n)) = n
      /\ \A i \in 1 .. n : Upto(n)[i] = i
  BY DEF Upto
<1>2. QED
  BY <1>1, Zenon DEF Distinct, In

\* Blocks of k positions
BlocksOK(n, k, D) ==
  /\ \A o \in D : \A i \in 1 .. k : k * o + i \in 1 .. n
  /\ \A o, p \in D : \A i, j \in 1 .. k :
       k * o + i = k * p + j => o = p /\ i = j
  /\ \A a \in 1 .. n : \E o \in D : \E i \in 1 .. k : a = k * o + i

LEMMA Blocks ==
  ASSUME NEW n \in Nat, NEW k \in Nat \ {0}, NEW m \in Nat, n = k * m
  PROVE  BlocksOK(n, k, 0 .. m - 1)
<1>1. ASSUME NEW a \in Nat, NEW b \in Nat, a < b
      PROVE  k * a \in Nat /\ k * b \in Nat /\ k * a + k <= k * b
  <2>1. a + 1 \in Nat /\ a + 1 <= b
    BY <1>1
  <2>2. /\ a * k \in Nat /\ (a + 1) * k = a * k + k
        /\ (a + 1) * k <= b * k /\ b * k \in Nat
    BY <2>1, MulFacts
  <2>3. a * k = k * a /\ b * k = k * b
    OBVIOUS
  <2>4. QED
    BY <2>2, <2>3
<1>2. ASSUME NEW o \in 0 .. m - 1, NEW i \in 1 .. k PROVE k * o + i \in 1 .. n
  <2>1. o \in Nat /\ o < m
    OBVIOUS
  <2>2. k * o \in Nat /\ k * o + k <= n /\ n \in Nat
    BY <1>1, <2>1
  <2>3. QED
    BY <2>2
<1>3. ASSUME NEW o \in 0 .. m - 1, NEW p \in 0 .. m - 1, NEW i \in 1 .. k,
             NEW j \in 1 .. k, k * o + i = k * p + j
      PROVE  o = p /\ i = j
  <2>1. k * o \in Nat /\ k * p \in Nat
    OBVIOUS
  <2>2. CASE o < p
    <3>1. k * o + k <= k * p
      BY <1>1, <2>2
    <3>2. QED
      BY <1>3, <2>1, <3>1
  <2>3. CASE p < o
    <3>1. k * p + k <= k * o
      BY <1>1, <2>3
    <3>2. QED
      BY <1>3, <2>1, <3>1
  <2>4. CASE o = p
    BY <1>3, <2>1, <2>4
  <2>5. QED
    BY <2>2, <2>3, <2>4
<1>4. ASSUME NEW a \in 1 .. n
      PROVE  \E o \in 0 .. m - 1 : \E i \in 1 .. k : a = k * o + i
  <2>1. a - 1 \in Nat
    OBVIOUS
  <2>2. PICK o \in Nat, i \in 0 .. k - 1 : a - 1 = k * o + i
    <3>1. /\ (a - 1) \div k \in Nat /\ (a - 1) % k \in 0 .. k - 1
          /\ a - 1 = k * ((a - 1) \div k) + ((a - 1) % k)
      BY <2>1, DivFacts
    <3>2. QED
      BY <3>1
  <2>3. k * o \in Nat
    OBVIOUS
  <2>4. o < m
    <3>1. SUFFICES ASSUME m <= o PROVE FALSE
      OBVIOUS
    <3>2. m * k <= o * k /\ m * k = k * m /\ o * k = k * o
      BY <3>1, MulFacts
    <3>3. n <= k * o
      BY <3>2
    <3>4. QED
      BY <2>1, <2>2, <2>3, <3>3
  <2>5. o \in 0 .. m - 1 /\ i + 1 \in 1 .. k /\ a = k * o + (i + 1)
    BY <2>2, <2>3, <2>4
  <2>6. QED
    BY <2>5
<1>5. QED
  BY <1>2, <1>3, <1>4, Zenon DEF BlocksOK

\* karmarkar_karp with equal sizes: the heap at first
LEMMA EqualHeap ==
  ASSUME NEW w, NEW n \in Nat \ {0}, NEW k \in Nat \ {0}, n % k = 0,
         NEW W, WorkOf(W, w, n)
  PROVE  HeapOK(EqualStates(w, n, k), n, k, W)
<1> DEFINE m == n \div k
<1>1. m \in Nat /\ n = k * m /\ n \in Nat
  <2>1. n \in Nat /\ n \div k \in Nat /\ n = k * (n \div k) + (n % k)
    BY DivFacts
  <2>2. k * (n \div k) \in Nat
    BY <2>1
  <2>3. n = k * (n \div k)
    BY <2>1, <2>2
  <2>4. QED
    BY <2>1, <2>3, Zenon
<1> DEFINE asc == Ascending(w)[Upto(n)]
           D == 0 .. m - 1
           E(o) == [i \in 1 .. k |-> Single(w, asc[k * o + i])]
           f == [o \in D |-> Sorted[E(o)]]
<1>2. EqualStates(w, n, k) = {Sorted[Tuple(E(o))] : o \in D}
  BY DEF EqualStates
<1> HIDE DEF m
<1>2a. BlocksOK(n, k, D)
  BY <1>1, Blocks, Zenon
<1>2b. D \subseteq Nat
  BY <1>1
<1>3. \A o \in D : \A i \in 1 .. k : k * o + i \in 1 .. n
  BY <1>2a, Zenon DEF BlocksOK
<1>4. \A o, p \in D : \A i, j \in 1 .. k :
         k * o + i = k * p + j => o = p /\ i = j
  BY <1>2a, Zenon DEF BlocksOK
<1>4a. \A a \in 1 .. n : \E o \in D : \E i \in 1 .. k : a = k * o + i
  BY <1>2a, Zenon DEF BlocksOK
<1>5. /\ asc \in Seq(1 .. n) /\ Len(asc) = n /\ Distinct(asc)
      /\ \A x \in 1 .. n : In(x, asc)
  <2>1. /\ Upto(n) \in Seq(1 .. n) /\ Upto(n) \in Seq(Nat) /\ Len(Upto(n)) = n
        /\ Distinct(Upto(n)) /\ \A x : In(x, Upto(n)) <=> x \in 1 .. n
        /\ \A i \in 1 .. n : Upto(n)[i] = i
    BY UptoFacts
  <2>2. \A a \in 1 .. n : Work(w, a) \in Nat
    BY DEF WorkOf
  <2>3. /\ \A a, b \in 1 .. Len(Upto(n)) : Upto(n)[a] = Upto(n)[b] => a = b
        /\ \A a \in 1 .. Len(Upto(n)) : Work(w, Upto(n)[a]) \in Nat
    BY <2>1, <2>2
  <2>4. Rearranged(asc, Upto(n))
    BY <2>1, <2>3, AscendingFacts
  <2>5. /\ asc \in Seq(1 .. n) /\ Len(asc) = Len(Upto(n))
        /\ \A x : In(x, asc) <=> In(x, Upto(n))
        /\ Distinct(asc)
    BY <2>1, <2>4, RearrangedIn, Zenon
  <2>6. QED
    BY <2>1, <2>5
<1> HIDE DEF asc
<1>6. ASSUME NEW o \in D
      PROVE  /\ StateOK(f[o], n, k, W) /\ E(o) \in Seq(ItemSet)
             /\ \A x : Holds(x, f[o]) <=> \E i \in 1 .. k : asc[k * o + i] = x
  <2>1. PICK c : c = k * o
    OBVIOUS
  <2>2. \A i \in 1 .. k : c + i \in 1 .. n /\ asc[c + i] \in 1 .. n
    <3>1. \A a \in 1 .. n : asc[a] \in 1 .. n
      BY <1>5, ElementOfSeq
    <3>2. \A i \in 1 .. k : c + i \in 1 .. n
      BY <1>3, <2>1, Zenon
    <3>3. QED
      BY <3>1, <3>2
  <2>3. PICK r : r = [i \in 1 .. k |-> asc[c + i]]
    OBVIOUS
  <2>4. r \in Seq(1 .. n) /\ Len(r) = k /\ \A i \in 1 .. k : r[i] = asc[c + i]
    BY <2>2, <2>3
  <2>5. Distinct(r)
    <3>1. SUFFICES ASSUME NEW a \in 1 .. k, NEW b \in 1 .. k, r[a] = r[b]
                   PROVE  a = b
      BY <2>4 DEF Distinct
    <3>2. asc[c + a] = asc[c + b]
      BY <2>4, <3>1
    <3>3. c + a = c + b
      BY <1>5, <2>2, <3>2, Zenon DEF Distinct
    <3>4. QED
      <4>1. o \in Nat
        BY <1>2b
      <4>2. c \in Nat
        BY <2>1, <4>1
      <4>3. QED
        BY <3>3, <4>2
  <2>6. E(o) = Singles(w, r, k)
    BY <2>1, <2>4 DEF Singles
  <2>7. PICK e : e = E(o)
    OBVIOUS
  <2>8. f[o] = Sorted[e]
    BY <2>7
  <2> HIDE DEF f, E
  <2>9. e = Singles(w, r, k)
    BY <2>6, <2>7, Zenon
  <2>10. /\ StateOK(Sorted[e], n, k, W) /\ e \in Seq(ItemSet)
         /\ \A x : Holds(x, Sorted[e]) <=> In(x, r)
    BY <1>1, <2>4, <2>5, <2>9, EqualState, Zenon
  <2>11. \A x : In(x, r) <=> \E i \in 1 .. k : asc[c + i] = x
    BY <2>4, Zenon DEF In
  <2>12. QED
    BY <2>1, <2>7, <2>8, <2>10, <2>11, Zenon
<1>7. EqualStates(w, n, k) = {f[o] : o \in D}
  <2>2. \A o \in D : f[o] = Sorted[E(o)]
    OBVIOUS
  <2> HIDE DEF f, E, D
  <2>3. \A o \in D : Tuple(E(o)) = E(o)
    BY <1>6, TupleFacts, Zenon
  <2>4. \A o \in D : f[o] = Sorted[Tuple(E(o))]
    BY <2>2, <2>3, Zenon
  <2>5. QED
    BY <1>2, <2>4
<1>8. IsFiniteSet(D) /\ D # {}
  <2>1. 0 \in Int /\ m - 1 \in Int
    BY <1>1
  <2>2. m # 0
    <3>1. m = 0 => n = 0
      BY <1>1
    <3>2. QED
      BY <3>1
  <2>3. 0 \in D
    BY <1>1, <2>2
  <2>4. QED
    BY <2>1, <2>3, FS_Interval
<1> HIDE DEF f, E, D
<1>9. ASSUME NEW o \in D, NEW p \in D, NEW x, Holds(x, f[o]), Holds(x, f[p])
      PROVE  o = p
  <2>1. PICK i \in 1 .. k : asc[k * o + i] = x
    BY <1>6, <1>9, Zenon
  <2>2. PICK j \in 1 .. k : asc[k * p + j] = x
    BY <1>6, <1>9, Zenon
  <2>3. k * o + i \in 1 .. n /\ k * p + j \in 1 .. n
    BY <1>3, Zenon
  <2>4. k * o + i = k * p + j
    BY <1>5, <2>1, <2>2, <2>3, Zenon DEF Distinct
  <2>5. QED
    BY <1>4, <2>4, Zenon
<1>10. ASSUME NEW x \in 1 .. n PROVE \E o \in D : Holds(x, f[o])
  <2>1. PICK a \in 1 .. n : asc[a] = x
    BY <1>5, Zenon DEF In
  <2>2. PICK o \in D, i \in 1 .. k : a = k * o + i
    BY <1>4a, Zenon
  <2>3. Holds(x, f[o])
    BY <1>6, <2>1, <2>2, Zenon
  <2>4. QED
    BY <2>3
<1>11. \A o \in D : StateOK(f[o], n, k, W)
  BY <1>6, Zenon
<1>12. PICK H : H = EqualStates(w, n, k)
  OBVIOUS
<1>13. (\A o \in D : f[o] \in H) /\ (\A s \in H : \E o \in D : s = f[o])
  BY <1>7, <1>12
<1>14. HeapOK(H, n, k, W)
  BY <1>1, <1>8, <1>9, <1>10, <1>11, <1>13, FamilyHeap
<1>15. QED
  BY <1>12, <1>14, Zenon

\* karmarkar_karp without equal sizes: the heap at first
LEMMA SingleHeap ==
  ASSUME NEW w, NEW n \in Nat \ {0}, NEW k \in Nat \ {0}, NEW W, WorkOf(W, w, n)
  PROVE  HeapOK(SingleStates(w, n, k), n, k, W)
<1> DEFINE D == 1 .. n
           f == [x \in D |-> [i \in 1 .. k |-> IF i = 1 THEN Single(w, x)
                                                        ELSE EmptySet]]
<1>1. ASSUME NEW x \in D
      PROVE  StateOK(f[x], n, k, W) /\ \A y : Holds(y, f[x]) <=> y = x
  <2>1. PICK s : s = f[x]
    OBVIOUS
  <2>2. s = [i \in 1 .. k |-> IF i = 1 THEN Single(w, x) ELSE EmptySet]
    BY <2>1
  <2>3. x \in Nat /\ W[x] \in Nat /\ W[x] > 0 /\ W[x] = Work(w, x) /\ W[x] # 0
    BY DEF WorkOf
  <2>3a. Work(w, x) \in Nat
    BY <2>3
  <2>4. /\ Single(w, x) \in ItemSet
        /\ Single(w, x).sum = W[x] /\ Single(w, x).items = <<x>>
    BY <2>3, <2>3a, SingleFacts, Zenon
  <2>5. 1 \in 1 .. k /\ k \in 1 .. k
    OBVIOUS
  <2>6. /\ s[1] \in ItemSet /\ s[1].sum = W[x] /\ s[1].items = <<x>>
        /\ s[1] = Single(w, x)
    <3>1. s[1] = Single(w, x)
      BY <2>2, <2>5
    <3>2. QED
      BY <2>4, <3>1, Zenon
  <2>7. ASSUME NEW i \in 1 .. k, i # 1
        PROVE  s[i] \in ItemSet /\ s[i].sum = 0 /\ s[i].items = <<>>
    <3>1. s[i] = EmptySet
      BY <2>2, <2>7
    <3>2. QED
      BY <3>1, EmptySetFacts, Zenon
  <2>8. s \in Seq(ItemSet) /\ Len(s) = k
    <3>1. \A i \in 1 .. k : (IF i = 1 THEN Single(w, x) ELSE EmptySet) \in ItemSet
      BY <2>4, EmptySetFacts
    <3>2. s \in [1 .. k -> ItemSet]
      BY <2>2, <3>1
    <3>3. QED
      BY <3>2
  <2>9. /\ <<x>> \in Seq(1 .. n) /\ <<x>> # <<>> /\ Len(<<x>>) = 1
        /\ Distinct(<<x>>) /\ \A y : In(y, <<x>>) <=> y = x
    BY SingletonFacts, Zenon
  <2>10. /\ <<>> \in Seq(1 .. n) /\ Len(<<>>) = 0 /\ Distinct(<<>>)
         /\ \A y : ~In(y, <<>>)
    <3>1. <<>> \in Seq(1 .. n) /\ Len(<<>>) = 0
      BY EmptySeq
    <3>2. \A a \in 1 .. 0 : FALSE
      OBVIOUS
    <3>3. QED
      BY <3>1, <3>2 DEF Distinct, In
  <2>11. \A i \in 1 .. k :
           /\ s[i].items \in Seq(1 .. n) /\ Distinct(s[i].items)
           /\ s[i].sum = 0 <=> s[i].items = <<>>
           /\ \A y : In(y, s[i].items) <=> i = 1 /\ y = x
    <3>1. SUFFICES ASSUME NEW i \in 1 .. k
                   PROVE  /\ s[i].items \in Seq(1 .. n) /\ Distinct(s[i].items)
                          /\ s[i].sum = 0 <=> s[i].items = <<>>
                          /\ \A y : In(y, s[i].items) <=> i = 1 /\ y = x
      OBVIOUS
    <3>2. CASE i = 1
      BY <2>3, <2>6, <2>9, <3>2, Zenon
    <3>3. CASE i # 1
      BY <2>7, <2>10, <3>3, Zenon
    <3>4. QED
      BY <3>2, <3>3
  <2>12. Thin(s)
    <3>1. SUFFICES ASSUME NEW i \in 1 .. k PROVE Len(s[i].items) <= 1
      BY <2>8 DEF Thin
    <3>2. Len(s[i].items) = 1 \/ Len(s[i].items) = 0
      BY <2>6, <2>7, <2>9, <2>10, Zenon
    <3>3. PICK l : l = Len(s[i].items)
      OBVIOUS
    <3>4. l <= 1
      <4>1. l = 1 \/ l = 0
        BY <3>2, <3>3, Zenon
      <4>2. QED
        BY <4>1
    <3>5. QED
      BY <3>3, <3>4, Zenon
  <2>13. SetsOK(s, n, k)
    <3>1. ASSUME NEW i \in 1 .. k, NEW j \in 1 .. k, NEW y,
                 In(y, s[i].items), In(y, s[j].items)
          PROVE  i = j
      BY <2>11, <3>1, Zenon
    <3>2. QED
      BY <2>8, <2>11, <2>12, <3>1, Zenon DEF SetsOK
  <2>14. Decreasing(s)
    <3>1. SUFFICES ASSUME NEW i \in 1 .. k, NEW j \in 1 .. k, i < j
                   PROVE  s[j].sum <= s[i].sum
      BY <2>8 DEF Decreasing
    <3>2. j # 1
      BY <3>1
    <3>3. s[j].sum = 0
      BY <2>7, <3>2, Zenon
    <3>4. PICK a : a = s[i].sum
      OBVIOUS
    <3>5. a = W[x] \/ a = 0
      BY <2>6, <2>7, <3>4, Zenon
    <3>6. 0 <= a
      BY <2>3, <3>5
    <3>7. QED
      BY <3>3, <3>4, <3>6, Zenon
  <2>15. Spread(s) <= W[x]
    <3>1. PICK b : b = s[k].sum
      OBVIOUS
    <3>2. b = W[x] \/ b = 0
      BY <2>5, <2>6, <2>7, <3>1, Zenon
    <3>3. Spread(s) = W[x] - b
      BY <2>6, <2>8, <3>1, Zenon DEF Spread
    <3>4. W[x] - b <= W[x]
      BY <2>3, <3>2
    <3>5. QED
      BY <3>3, <3>4, Zenon
  <2>16. StateOK(s, n, k, W)
    BY <2>6, <2>9, <2>13, <2>14, <2>15, Zenon DEF StateOK
  <2>17. \A y : Holds(y, s) <=> y = x
    BY <2>5, <2>8, <2>11, Zenon DEF Holds
  <2> HIDE DEF f
  <2>18. QED
    BY <2>1, <2>16, <2>17, Zenon
<1>2. SingleStates(w, n, k) = {f[x] : x \in D}
  BY DEF SingleStates
<1>3. IsFiniteSet(D) /\ D # {}
  <2>1. n \in Nat /\ 1 \in 1 .. n
    OBVIOUS
  <2>2. QED
    BY <2>1, IntervalFacts
<1> HIDE DEF f
<1>4. \A x \in D : StateOK(f[x], n, k, W)
  BY <1>1
<1>5. \A o, p \in D : \A x : Holds(x, f[o]) /\ Holds(x, f[p]) => o = p
  BY <1>1, Zenon
<1>6. \A x \in 1 .. n : \E o \in D : Holds(x, f[o])
  BY <1>1, Zenon
<1> HIDE DEF D
<1>7. PICK H : H = SingleStates(w, n, k)
  OBVIOUS
<1>8. (\A o \in D : f[o] \in H) /\ (\A s \in H : \E o \in D : s = f[o])
  BY <1>2, <1>7
<1>9. n \in Nat
  OBVIOUS
<1>10. HeapOK(H, n, k, W)
  BY <1>3, <1>4, <1>5, <1>6, <1>8, <1>9, FamilyHeap
<1>11. QED
  BY <1>7, <1>10, Zenon

\* The end of karmarkar_karp: one state is left, and none of its sets is empty.
LEMMA LastState ==
  ASSUME NEW n \in Nat, NEW k \in Nat \ {0}, k <= n, NEW W, NEW H,
         HeapOK(H, n, k, W), ~(Cardinality(H) > 1)
  PROVE  \E s : /\ H = {s} /\ StateOK(s, n, k, W) /\ Full(s)
                /\ \A x \in 1 .. n : Holds(x, s)
<1>1. /\ IsFiniteSet(H) /\ H # {} /\ \A s \in H : StateOK(s, n, k, W)
      /\ \A x \in 1 .. n : \E s \in H : Holds(x, s)
  BY DEF HeapOK
<1>2. Cardinality(H) = 1
  <2>1. Cardinality(H) \in Nat /\ Cardinality(H) # 0
    BY <1>1, FS_CardinalityType, FS_EmptySet
  <2>2. QED
    BY <2>1
<1>3. PICK s : H = {s}
  BY <1>1, <1>2, FS_Singleton
<1>4. StateOK(s, n, k, W) /\ \A x \in 1 .. n : Holds(x, s)
  BY <1>1, <1>3
<1>5. SetsOK(s, n, k)
  BY <1>4 DEF StateOK
<1>6. Len(s) = k /\ (Full(s) \/ Thin(s))
  BY <1>5 DEF SetsOK
<1>7. Full(s)
  <2>1. SUFFICES ASSUME ~Full(s) PROVE FALSE
    OBVIOUS
  <2>2. PICK e \in 1 .. k : s[e].items = <<>>
    BY <1>6, <2>1 DEF Full
  <2> DEFINE T == (1 .. k) \ {e}
             P == [x \in 1 .. n |-> CHOOSE i \in T : In(x, s[i].items)]
  <2>3. ASSUME NEW x \in 1 .. n PROVE \E i \in T : In(x, s[i].items)
    <3>1. PICK i \in 1 .. k : In(x, s[i].items)
      BY <1>4, <1>6 DEF Holds
    <3>2. s[e].items \in Seq(1 .. n)
      BY <1>5 DEF SetsOK
    <3>3. ~In(x, s[e].items)
      BY <2>2, <3>2, InFacts, Zenon
    <3>4. i # e
      BY <3>1, <3>3
    <3>5. QED
      BY <3>1, <3>4
  <2>4. \A x \in 1 .. n : P[x] \in T /\ In(x, s[P[x]].items)
    BY <2>3
  <2>5. P \in [1 .. n -> T]
    <3>1. P = [x \in 1 .. n |-> P[x]]
      OBVIOUS
    <3> HIDE DEF P, T
    <3>2. QED
      BY <2>4, <3>1
  <2>6. IsFiniteSet(1 .. n) /\ Cardinality(1 .. n) = n
    BY IntervalFacts
  <2>7. IsFiniteSet(T) /\ Cardinality(T) = k - 1
    <3>1. k \in Nat /\ IsFiniteSet(1 .. k) /\ Cardinality(1 .. k) = k
      BY IntervalFacts
    <3>2. QED
      BY <3>1, FS_RemoveElement
  <2>8. Cardinality(T) < Cardinality(1 .. n)
    BY <2>6, <2>7
  <2> HIDE DEF T, P
  <2>9. PICK x \in 1 .. n, y \in 1 .. n : x # y /\ P[x] = P[y]
    BY <2>5, <2>6, <2>7, <2>8, FS_PigeonHole
  <2>10. PICK i \in 1 .. k : In(x, s[i].items) /\ In(y, s[i].items)
    BY <2>4, <2>9 DEF T
  <2>11. Len(s[i].items) <= 1
    BY <1>6, <2>1 DEF Thin
  <2>12. PICK q : q = s[i].items
    OBVIOUS
  <2>13. q \in Seq(1 .. n) /\ Len(q) <= 1 /\ In(x, q) /\ In(y, q)
    BY <1>5, <2>10, <2>11, <2>12, Zenon DEF SetsOK
  <2>14. \A a \in 1 .. Len(q) : a = 1
    <3>1. Len(q) \in Nat
      BY <2>13, LenProperties
    <3>2. QED
      BY <2>13, <3>1
  <2>15. x = q[1] /\ y = q[1]
    BY <2>13, <2>14, Zenon DEF In
  <2>16. QED
    BY <2>9, <2>15
<1>8. QED
  BY <1>3, <1>4, <1>7

-----------------------------------------------------------------------------
(* Partitions *)

\* p partitions 1 .. n into nonempty sequences.
PartsOK(p, n) ==
  /\ p \in Seq(Seq(1 .. n)) /\ p # <<>>
  /\ \A i \in 1 .. Len(p) : p[i] # <<>> /\ Distinct(p[i])
  /\ \A i, j \in 1 .. Len(p) : \A x : In(x, p[i]) /\ In(x, p[j]) => i = j
  /\ \A x \in 1 .. n : \E i \in 1 .. Len(p) : In(x, p[i])

\* f has every number in 1 .. n once.
PermSeq(f, n) ==
  /\ f \in Seq(1 .. n) /\ Len(f) = n /\ Distinct(f)
  /\ \A x \in 1 .. n : In(x, f)

LEMMA PartsFlatten ==
  ASSUME NEW n \in Nat, NEW p, PartsOK(p, n)
  PROVE  PermSeq(FlattenSeq(p), n)
<1>1. /\ p \in Seq(Seq(1 .. n)) /\ p # <<>>
      /\ \A i \in 1 .. Len(p) : Distinct(p[i])
      /\ \A i, j \in 1 .. Len(p) : \A x : In(x, p[i]) /\ In(x, p[j]) => i = j
      /\ \A x \in 1 .. n : \E i \in 1 .. Len(p) : In(x, p[i])
  BY DEF PartsOK
<1>2. Apart(p)
  <2>1. SUFFICES ASSUME NEW i \in 1 .. Len(p), NEW j \in 1 .. Len(p),
                        NEW a \in 1 .. Len(p[i]), NEW b \in 1 .. Len(p[j]),
                        p[i][a] = p[j][b]
                 PROVE  i = j /\ a = b
    BY DEF Apart
  <2>2. In(p[i][a], p[i]) /\ In(p[i][a], p[j])
    BY <2>1, Zenon DEF In
  <2>3. i = j
    BY <1>1, <2>2, Zenon
  <2>4. QED
    BY <1>1, <2>1, <2>3, Zenon DEF Distinct
<1> DEFINE f == FlattenSeq(p)
<1>3. f \in Seq(1 .. n) /\ FlatUpto(f, p, Len(p))
  BY <1>1, <1>2, FlattenApart
<1> HIDE DEF f
<1>4. /\ \A a, b \in 1 .. Len(f) : f[a] = f[b] => a = b
      /\ \A i \in 1 .. Len(p) : \A b \in 1 .. Len(p[i]) :
           \E a \in 1 .. Len(f) : f[a] = p[i][b]
  BY <1>3 DEF FlatUpto
<1>5. ASSUME NEW x \in 1 .. n PROVE \E a \in 1 .. Len(f) : f[a] = x
  <2>1. PICK i \in 1 .. Len(p) : In(x, p[i])
    BY <1>1
  <2>2. PICK b \in 1 .. Len(p[i]) : p[i][b] = x
    BY <2>1 DEF In
  <2>3. QED
    BY <1>4, <2>2, Zenon
<1>6. Len(f) = n
  BY <1>3, <1>4, <1>5, DistinctLen
<1>7. PermSeq(f, n)
  BY <1>3, <1>4, <1>5, <1>6, Zenon DEF PermSeq, Distinct, In
<1>8. QED
  BY <1>7 DEF f

\* The parts, each in another order
LEMMA PartsRearranged ==
  ASSUME NEW n \in Nat, NEW p, PartsOK(p, n), NEW q,
         q = [i \in 1 .. Len(p) |-> q[i]],
         \A i \in 1 .. Len(p) : Rearranged(q[i], p[i])
  PROVE  PartsOK(q, n) /\ Len(q) = Len(p)
<1>1. /\ p \in Seq(Seq(1 .. n)) /\ p # <<>>
      /\ \A i \in 1 .. Len(p) : p[i] # <<>> /\ Distinct(p[i])
      /\ \A i, j \in 1 .. Len(p) : \A x : In(x, p[i]) /\ In(x, p[j]) => i = j
      /\ \A x \in 1 .. n : \E i \in 1 .. Len(p) : In(x, p[i])
  BY DEF PartsOK
<1>2. Len(p) \in Nat /\ Len(p) # 0
  BY <1>1, EmptySeq
<1>3. ASSUME NEW i \in 1 .. Len(p)
      PROVE  /\ q[i] \in Seq(1 .. n) /\ q[i] # <<>> /\ Distinct(q[i])
             /\ \A x : In(x, q[i]) <=> In(x, p[i])
  <2>1. p[i] \in Seq(1 .. n)
    BY <1>1, ElementOfSeq
  <2>2. QED
    BY <1>1, <2>1, RearrangedIn, Zenon
<1>4. q \in [1 .. Len(p) -> Seq(1 .. n)]
  BY <1>3
<1>5. q \in Seq(Seq(1 .. n)) /\ Len(q) = Len(p)
  BY <1>2, <1>4
<1>6. q # <<>>
  BY <1>2, <1>5, EmptySeq
<1>7. PartsOK(q, n)
  BY <1>1, <1>3, <1>5, <1>6, Zenon DEF PartsOK
<1>8. QED
  BY <1>5, <1>7

\* The parts in another order
LEMMA PartsPermuted ==
  ASSUME NEW n \in Nat, NEW p, PartsOK(p, n), NEW q, Rearranged(q, p)
  PROVE  PartsOK(q, n) /\ Len(q) = Len(p)
<1>1. /\ p \in Seq(Seq(1 .. n)) /\ p # <<>>
      /\ \A i \in 1 .. Len(p) : p[i] # <<>> /\ Distinct(p[i])
      /\ \A i, j \in 1 .. Len(p) : \A x : In(x, p[i]) /\ In(x, p[j]) => i = j
      /\ \A x \in 1 .. n : \E i \in 1 .. Len(p) : In(x, p[i])
  BY DEF PartsOK
<1>2. PICK m : m = Len(p)
  OBVIOUS
<1>3. PICK h \in [1 .. Len(p) -> 1 .. Len(p)] :
           /\ \A i, j \in 1 .. Len(p) : h[i] = h[j] => i = j
           /\ \A j \in 1 .. Len(p) : \E i \in 1 .. Len(p) : h[i] = j
           /\ q = [i \in 1 .. Len(p) |-> p[h[i]]]
  BY DEF Rearranged
<1>4. q \in Seq(Seq(1 .. n)) /\ Len(q) = Len(p) /\ q # <<>>
  BY <1>1, RearrangedIn
<1>5. \A i \in 1 .. Len(p) : h[i] \in 1 .. Len(p) /\ q[i] = p[h[i]]
  BY <1>3
<1>6. \A i \in 1 .. Len(p) : q[i] # <<>> /\ Distinct(q[i])
  BY <1>1, <1>5
<1>7. ASSUME NEW i \in 1 .. Len(p), NEW j \in 1 .. Len(p), NEW x,
             In(x, q[i]), In(x, q[j])
      PROVE  i = j
  <2>1. /\ h[i] \in 1 .. Len(p) /\ h[j] \in 1 .. Len(p)
        /\ q[i] = p[h[i]] /\ q[j] = p[h[j]]
    BY <1>5
  <2>2. h[i] = h[j]
    BY <1>1, <1>7, <2>1, Zenon
  <2>3. QED
    BY <1>3, <2>2
<1>8. ASSUME NEW x \in 1 .. n PROVE \E i \in 1 .. Len(p) : In(x, q[i])
  <2>1. PICK j \in 1 .. Len(p) : In(x, p[j])
    BY <1>1
  <2>2. PICK i \in 1 .. Len(p) : h[i] = j
    BY <1>3
  <2>3. QED
    BY <1>5, <2>1, <2>2, Zenon
<1>9. PartsOK(q, n)
  BY <1>4, <1>6, <1>7, <1>8, Zenon DEF PartsOK
<1>10. QED
  BY <1>4, <1>9

LEMMA ItemsFacts ==
  ASSUME NEW R \in Seq(ItemSet)
  PROVE  /\ Items[R] \in Seq(Seq(Nat)) /\ Len(Items[R]) = Len(R)
         /\ \A i \in 1 .. Len(R) : Items[R][i] = R[i].items
         /\ Items[R] = [i \in 1 .. Len(R) |-> R[i].items]
<1>1. Len(R) \in Nat /\ DOMAIN R = 1 .. Len(R)
  BY LenProperties
<1>2. Items[R] = [i \in 1 .. Len(R) |-> R[i].items]
  BY <1>1 DEF Items
<1>3. ASSUME NEW i \in 1 .. Len(R) PROVE R[i].items \in Seq(Nat)
  <2>1. R[i] \in ItemSet
    BY ElementOfSeq
  <2>2. QED
    BY <2>1, Zenon DEF ItemSet
<1>4. QED
  BY <1>1, <1>2, <1>3

LEMMA ItemsRearranged ==
  ASSUME NEW R \in Seq(ItemSet), NEW b, Rearranged(b, R)
  PROVE  Rearranged(Items[b], Items[R])
<1>1. PICK h \in [1 .. Len(R) -> 1 .. Len(R)] :
           /\ \A i, j \in 1 .. Len(R) : h[i] = h[j] => i = j
           /\ \A j \in 1 .. Len(R) : \E i \in 1 .. Len(R) : h[i] = j
           /\ b = [i \in 1 .. Len(R) |-> R[h[i]]]
  BY DEF Rearranged
<1>2. b \in Seq(ItemSet) /\ Len(b) = Len(R)
  BY RearrangedIn
<1>3. PICK u, v : u = Items[b] /\ v = Items[R]
  OBVIOUS
<1>4. /\ Len(v) = Len(R) /\ \A i \in 1 .. Len(R) : v[i] = R[i].items
  BY <1>3, ItemsFacts
<1>5. u = [i \in 1 .. Len(R) |-> b[i].items]
  <2>1. u = [i \in 1 .. Len(b) |-> b[i].items]
    BY <1>2, <1>3, ItemsFacts
  <2>2. QED
    BY <1>2, <2>1
<1>6. u = [i \in 1 .. Len(R) |-> v[h[i]]]
  <2>1. \A i \in 1 .. Len(R) : b[i].items = v[h[i]]
    BY <1>1, <1>4
  <2>2. QED
    BY <1>5, <2>1
<1>7. Rearranged(u, v)
  <2>1. /\ h \in [1 .. Len(v) -> 1 .. Len(v)]
        /\ \A i, j \in 1 .. Len(v) : h[i] = h[j] => i = j
        /\ \A j \in 1 .. Len(v) : \E i \in 1 .. Len(v) : h[i] = j
        /\ u = [i \in 1 .. Len(v) |-> v[h[i]]]
    BY <1>1, <1>4, <1>6
  <2>2. QED
    BY <2>1, Zenon DEF Rearranged
<1>8. QED
  BY <1>3, <1>7

\* get_seqlen_balanced_partitions
LEMMA PartitionsFacts ==
  ASSUME NEW n \in Nat, NEW k \in Nat \ {0}, k <= n, NEW W, NEW w,
         HeapOK(heap[w], n, k, W), ~Merging(w)
  PROVE  PartsOK(Partitions(w), n) /\ Len(Partitions(w)) = k /\ ~SomeEmpty(w)
<1>1. PICK s : /\ heap[w] = {s} /\ StateOK(s, n, k, W) /\ Full(s)
               /\ \A x \in 1 .. n : Holds(x, s)
  BY LastState DEF Merging
<1>2. SetsOK(s, n, k)
  BY <1>1 DEF StateOK
<1>3. /\ s \in Seq(ItemSet) /\ Len(s) = k
      /\ \A i \in 1 .. k : s[i].items \in Seq(1 .. n) /\ Distinct(s[i].items)
      /\ \A i, j \in 1 .. k : \A x : In(x, s[i].items) /\ In(x, s[j].items) => i = j
  BY <1>2 DEF SetsOK
<1>4. DOMAIN s = 1 .. k
  BY <1>3, LenProperties
<1>5. PICK p : p = Items[s]
  OBVIOUS
<1>6. /\ p \in Seq(Seq(Nat)) /\ Len(p) = k
      /\ \A i \in 1 .. k : p[i] = s[i].items
  BY <1>3, <1>5, ItemsFacts
<1>7. PartsOK(p, n)
  <2>1. p \in [1 .. k -> Seq(1 .. n)]
    <3>1. p \in [1 .. k -> Seq(Nat)]
      BY <1>6, LenProperties
    <3>2. \A i \in 1 .. k : p[i] \in Seq(1 .. n)
      BY <1>3, <1>6
    <3>3. QED
      BY <3>1, <3>2
  <2>2. p \in Seq(Seq(1 .. n))
    BY <2>1
  <2>3. p # <<>>
    BY <1>6, EmptySeq
  <2>4. \A i \in 1 .. k : p[i] # <<>> /\ Distinct(p[i])
    BY <1>1, <1>3, <1>6 DEF Full
  <2>5. \A i, j \in 1 .. k : \A x : In(x, p[i]) /\ In(x, p[j]) => i = j
    BY <1>3, <1>6
  <2>6. ASSUME NEW x \in 1 .. n PROVE \E i \in 1 .. k : In(x, p[i])
    BY <1>1, <1>3, <1>6 DEF Holds
  <2>7. QED
    BY <1>6, <2>2, <2>3, <2>4, <2>5, <2>6, Zenon DEF PartsOK
<1>8. PICK q : q = [i \in 1 .. k |-> Increasing[s[i].items]]
  OBVIOUS
<1>9. \A i \in 1 .. k : Rearranged(q[i], p[i])
  <2>1. SUFFICES ASSUME NEW i \in 1 .. k PROVE Rearranged(q[i], p[i])
    OBVIOUS
  <2>2. p[i] \in Seq(Nat)
    BY <1>6, ElementOfSeq
  <2>3. Distinct(p[i])
    BY <1>3, <1>6
  <2>4. Rearranged(Increasing[p[i]], p[i])
    BY <2>2, <2>3, IncreasingFacts DEF Distinct
  <2>5. q[i] = Increasing[s[i].items]
    BY <1>8
  <2>6. QED
    BY <1>6, <2>4, <2>5
<1>10. q = [i \in 1 .. Len(p) |-> q[i]]
  BY <1>6, <1>8
<1>11. PartsOK(q, n) /\ Len(q) = k
  BY <1>6, <1>7, <1>9, <1>10, PartsRearranged
<1>12. Partitions(w) = q
  <2> DEFINE state == CHOOSE r \in heap[w] : TRUE
  <2>1. state = s
    BY <1>1
  <2>2. Partitions(w) = Tuple([i \in DOMAIN s |-> Increasing[s[i].items]])
    <3>1. ASSUME NEW c, c = s
          PROVE  Tuple([i \in DOMAIN c |-> Increasing[c[i].items]])
                   = Tuple([i \in DOMAIN s |-> Increasing[s[i].items]])
      BY <3>1
    <3>2. Partitions(w) = Tuple([i \in DOMAIN state |-> Increasing[state[i].items]])
      BY DEF Partitions
    <3> HIDE DEF state
    <3>3. QED
      BY <2>1, <3>1, <3>2
  <2>3. Partitions(w) = Tuple(q)
    BY <1>4, <1>8, <2>2, Zenon
  <2>4. QED
    BY <1>11, <2>3, TupleFacts DEF PartsOK
<1>13. ~SomeEmpty(w)
  <2>1. DOMAIN q = 1 .. k
    BY <1>8
  <2>2. \A i \in 1 .. k : q[i] # <<>>
    BY <1>11 DEF PartsOK
  <2>3. <<>> \notin ToSet(q)
    BY <2>1, <2>2 DEF ToSet
  <2>4. QED
    BY <1>12, <2>3 DEF SomeEmpty
<1>14. QED
  BY <1>11, <1>12, <1>13

\* The order _balance_batch gives to the rows
LEMMA GlobalIdxFacts ==
  ASSUME NEW n \in Nat, job.dp \in Nat, PartsOK(Partitions(0), n),
         Len(Partitions(0)) = job.dp,
         \A i \in 1 .. n : Work(0, i) \in Nat
  PROVE  PermSeq(GlobalIdx, n)
<1>1. PICK p : p = Partitions(0)
  OBVIOUS
<1>2. PartsOK(p, n) /\ Len(p) = job.dp
  BY <1>1
<1>3. PICK q : q = [i \in Ranks |-> Ascending(0)[p[i]]]
  OBVIOUS
<1>4. PICK r : r = [i \in Ranks |-> Ends[Ascending(0)[p[i]]]]
  OBVIOUS
<1>5. Ranks = 1 .. Len(p)
  BY <1>2 DEF Ranks
<1>6. PartsOK(q, n) /\ Len(q) = Len(p)
  <2>1. ASSUME NEW i \in 1 .. Len(p) PROVE Rearranged(q[i], p[i])
    <3>1. p[i] \in Seq(1 .. n)
      BY <1>2, ElementOfSeq DEF PartsOK
    <3>1a. p[i] \in Seq(Nat)
      BY <3>1, SeqMonotonic
    <3>2. \A a \in 1 .. Len(p[i]) : p[i][a] \in 1 .. n
      BY <3>1, ElementOfSeq
    <3>3. Distinct(p[i])
      BY <1>2 DEF PartsOK
    <3>4. Rearranged(Ascending(0)[p[i]], p[i])
      <4>1. \A a \in 1 .. Len(p[i]) : Work(0, p[i][a]) \in Nat
        BY <3>2
      <4>2. QED
        BY <3>1a, <3>3, <4>1, AscendingFacts DEF Distinct
    <3>5. q[i] = Ascending(0)[p[i]]
      BY <1>3, <1>5
    <3>6. QED
      BY <3>4, <3>5
  <2>2. q = [i \in 1 .. Len(p) |-> q[i]]
    BY <1>3, <1>5
  <2>3. QED
    BY <1>2, <2>1, <2>2, PartsRearranged
<1>7. PartsOK(r, n)
  <2>1. ASSUME NEW i \in 1 .. Len(q) PROVE Rearranged(r[i], q[i])
    <3>1. q[i] \in Seq(1 .. n)
      BY <1>6, ElementOfSeq DEF PartsOK
    <3>2. q[i] \in Seq(Nat)
      BY <3>1, SeqMonotonic
    <3>3. Rearranged(Ends[q[i]], q[i])
      BY <3>2, EndsFacts
    <3>4. r[i] = Ends[q[i]]
      BY <1>3, <1>4, <1>5, <1>6
    <3>5. QED
      BY <3>3, <3>4
  <2>2. r = [i \in 1 .. Len(q) |-> r[i]]
    BY <1>4, <1>5, <1>6
  <2>3. QED
    BY <1>6, <2>1, <2>2, PartsRearranged
<1>8. GlobalIdx = FlattenSeq(r)
  BY <1>1, <1>4, Zenon DEF GlobalIdx
<1>9. QED
  BY <1>7, <1>8, PartsFlatten

\* The micro batches as rearrange_micro_batches orders them
LEMMA ArrangedFacts ==
  ASSUME NEW r, NEW n \in Nat, NEW p, PartsOK(p, n),
         \A i \in 1 .. n : Work(r, i) \in Nat /\ Work(r, i) > 0
  PROVE  PartsOK(Arranged(r)[p], n)
<1> DEFINE sum(i) == SumFunction([j \in DOMAIN p[i] |-> Work(r, p[i][j])])
           R == [i \in DOMAIN p |-> [sum |-> sum(i), items |-> p[i]]]
<1>1. /\ p \in Seq(Seq(1 .. n)) /\ p # <<>>
      /\ \A i \in 1 .. Len(p) : p[i] # <<>> /\ Distinct(p[i])
      /\ \A i, j \in 1 .. Len(p) : \A x : In(x, p[i]) /\ In(x, p[j]) => i = j
  BY DEF PartsOK
<1>2. Len(p) \in Nat /\ DOMAIN p = 1 .. Len(p)
  BY <1>1, LenProperties
<1>3. ASSUME NEW i \in 1 .. Len(p) PROVE p[i] \in Seq(1 .. n) /\ p[i] \in Seq(Nat)
  <2>1. p[i] \in Seq(1 .. n)
    BY <1>1, ElementOfSeq
  <2>2. QED
    BY <2>1, SeqMonotonic
<1>4. p \in Seq(Seq(Nat))
  <2>1. p \in [1 .. Len(p) -> Seq(Nat)]
    <3>1. p \in [1 .. Len(p) -> Seq(1 .. n)]
      BY <1>1, LenProperties
    <3>2. QED
      BY <1>3, <3>1
  <2>2. QED
    BY <1>2, <2>1
<1>5. ASSUME NEW i \in 1 .. Len(p) PROVE sum(i) \in Nat
  <2>1. PICK q : q = p[i]
    OBVIOUS
  <2>2. q \in Seq(1 .. n) /\ q # <<>>
    BY <1>1, <1>3, <2>1, Zenon
  <2>3. /\ Len(q) \in Nat /\ Len(q) # 0 /\ DOMAIN q = 1 .. Len(q)
        /\ \A j \in 1 .. Len(q) : q[j] \in 1 .. n
    BY <2>2, LenProperties, EmptySeq, ElementOfSeq
  <2>4. PICK D : D = DOMAIN q
    OBVIOUS
  <2>5. IsFiniteSet(D) /\ D # {}
    <3>1. 1 \in 1 .. Len(q)
      BY <2>3
    <3>2. QED
      BY <2>3, <2>4, <3>1, IntervalFacts
  <2>6. PICK f : f = [j \in DOMAIN q |-> Work(r, q[j])]
    OBVIOUS
  <2>7. f \in [D -> Nat] /\ \A j \in D : f[j] > 0
    BY <2>3, <2>4, <2>6
  <2>8. SumFunction(f) \in Nat
    BY <2>5, <2>7, SumFacts
  <2>9. sum(i) = SumFunction([j \in DOMAIN q |-> Work(r, q[j])])
    BY <2>1, Zenon
  <2> HIDE DEF sum
  <2>10. QED
    BY <2>6, <2>8, <2>9, Zenon
<1>6. Arranged(r)[p] = Items[BothEnds[Heaviest[Tuple(R)]]]
  BY <1>4 DEF Arranged
<1>7. ASSUME NEW i \in 1 .. Len(p)
      PROVE  R[i] \in ItemSet /\ R[i].items = p[i]
  <2>1. R[i] = [sum |-> sum(i), items |-> p[i]]
    BY <1>2
  <2>2. p[i] \in Seq(Nat) /\ sum(i) \in Nat
    BY <1>3, <1>5
  <2> HIDE DEF sum, R
  <2>3. QED
    BY <2>1, <2>2 DEF ItemSet
<1>8. R \in Seq(ItemSet) /\ Len(R) = Len(p)
  <2>1. R = [i \in 1 .. Len(p) |-> R[i]]
    BY <1>2
  <2> HIDE DEF R
  <2>2. R \in [1 .. Len(p) -> ItemSet]
    BY <1>7, <2>1
  <2>3. QED
    BY <1>2, <2>2
<1> HIDE DEF R, sum
<1>9. Items[R] = p
  <2>1. p = [i \in 1 .. Len(p) |-> p[i]]
    BY <1>1, LenProperties
  <2>2. Items[R] = [i \in 1 .. Len(R) |-> R[i].items]
    BY <1>8, ItemsFacts
  <2>3. Items[R] = [i \in 1 .. Len(p) |-> R[i].items]
    BY <1>8, <2>2
  <2>4. QED
    BY <1>7, <2>1, <2>3
<1>10. Tuple(R) = R
  BY <1>8, TupleFacts
<1>11. PICK h : h = Heaviest[R]
  OBVIOUS
<1>12. Rearranged(h, R)
  <2>1. \A a \in 1 .. Len(R) : R[a].items # <<>>
    BY <1>1, <1>7, <1>8
  <2>2. ASSUME NEW a \in 1 .. Len(R), NEW b \in 1 .. Len(R),
               R[a].items[1] = R[b].items[1]
        PROVE  a = b
    <3>1. PICK u, v : u = p[a] /\ v = p[b]
      OBVIOUS
    <3>2. /\ u \in Seq(Nat) /\ v \in Seq(Nat) /\ u # <<>> /\ v # <<>>
      BY <1>1, <1>3, <1>8, <3>1, Zenon
    <3>3. u[1] = v[1]
      BY <1>7, <1>8, <2>2, <3>1, Zenon
    <3>4. In(u[1], u) /\ In(u[1], v)
      BY <3>2, <3>3, InFacts
    <3>5. QED
      BY <1>1, <1>8, <3>1, <3>4, Zenon
  <2>3. QED
    BY <1>8, <1>11, <2>1, <2>2, HeaviestFacts
<1>13. h \in Seq(ItemSet)
  BY <1>8, <1>12, RearrangedIn
<1>14. PICK b : b = BothEnds[h]
  OBVIOUS
<1>15. Rearranged(b, h)
  BY <1>13, <1>14, BothEndsFacts
<1>16. Rearranged(Items[h], p) /\ Rearranged(Items[b], Items[h])
  BY <1>8, <1>9, <1>12, <1>13, <1>15, ItemsRearranged
<1>17. PartsOK(Items[h], n)
  BY <1>16, PartsPermuted
<1>18. PartsOK(Items[b], n)
  BY <1>16, <1>17, PartsPermuted
<1>19. QED
  BY <1>6, <1>10, <1>11, <1>14, <1>18, Zenon

\* restore_dynamic_batch
LEMMA RestoreFacts ==
  ASSUME NEW r, NEW n \in Nat, PermSeq(FlattenSeq(micro[r]), n), NEW X,
         rows[r] \in Seq(X), Len(rows[r]) = n
  PROVE  Restore(r) = rows[r]
<1>1. PICK f : f = FlattenSeq(micro[r])
  OBVIOUS
<1>2. f \in Seq(1 .. n) /\ Len(f) = n /\ \A x \in 1 .. n : In(x, f)
  BY <1>1 DEF PermSeq
<1>3. DOMAIN f = 1 .. n
  BY <1>2, LenProperties
<1>4. Restore(r) = [j \in 1 .. n |-> rows[r][f[ReverseIdx(f)[j]]]]
  <2>1. ASSUME NEW g, g = f
        PROVE  [j \in DOMAIN g |-> rows[r][g[ReverseIdx(g)[j]]]]
                 = [j \in DOMAIN f |-> rows[r][f[ReverseIdx(f)[j]]]]
    BY <2>1
  <2>2. Restore(r) = [j \in DOMAIN f |-> rows[r][f[ReverseIdx(f)[j]]]]
    BY <1>1, <2>1 DEF Restore
  <2>3. QED
    BY <1>3, <2>2
<1>5. \A j \in 1 .. n : f[ReverseIdx(f)[j]] = j
  <2>1. SUFFICES ASSUME NEW j \in 1 .. n PROVE f[ReverseIdx(f)[j]] = j
    OBVIOUS
  <2>2. ReverseIdx(f)[j] = CHOOSE i \in 1 .. n : f[i] = j
    BY <1>3 DEF ReverseIdx
  <2>3. \E i \in 1 .. n : f[i] = j
    BY <1>2 DEF In
  <2>4. QED
    BY <2>2, <2>3
<1>6. rows[r] = [j \in 1 .. n |-> rows[r][j]]
  BY LenProperties
<1>7. QED
  BY <1>4, <1>5, <1>6

-----------------------------------------------------------------------------
(* Numbers of the jobs *)

Size == Len(job.seqlens)
Share == Len(job.seqlens) \div job.dp
RowWork(w, n) == [i \in 1 .. n |-> Work(w, i)]

LEMMA JobFacts ==
  ASSUME job \in TrainJobs
  PROVE  /\ job.kind = "train" /\ job.dp \in Nat \ {0}
         /\ job.seqlens \in Seq(Nat \ {0})
         /\ job.max_token_len \in Nat \ {0} /\ job.divided_by \in Nat \ {0}
         /\ Size \in Nat \ {0} /\ Size % job.dp = 0
         /\ \A i \in 1 .. Size : job.seqlens[i] \in Nat \ {0}
         /\ Share \in Nat \ {0} /\ Size = job.dp * Share /\ job.dp <= Size
<1>1. job \in TrainJob /\ job.seqlens # <<>> /\ Len(job.seqlens) % job.dp = 0
  BY BatchAssumption
<1>2. /\ job.kind = "train" /\ job.dp \in Nat \ {0}
      /\ job.seqlens \in Seq(Nat \ {0})
      /\ job.max_token_len \in Nat \ {0} /\ job.divided_by \in Nat \ {0}
  BY <1>1, Zenon DEF TrainJob
<1>3. /\ Size \in Nat \ {0} /\ Size % job.dp = 0
      /\ \A i \in 1 .. Size : job.seqlens[i] \in Nat \ {0}
  BY <1>1, <1>2, EmptySeq, ElementOfSeq DEF Size
<1>4. PICK n, k, m : n = Size /\ k = job.dp /\ m = Share
  OBVIOUS
<1>5. n \in Nat \ {0} /\ k \in Nat \ {0} /\ n % k = 0 /\ m = n \div k
  BY <1>2, <1>3, <1>4, Zenon DEF Size, Share
<1>6. m \in Nat /\ n = k * m
  <2>1. n \in Nat /\ n \div k \in Nat /\ n = k * (n \div k) + (n % k)
    BY <1>5, DivFacts
  <2>2. k * (n \div k) \in Nat
    BY <1>5, <2>1
  <2>3. n = k * (n \div k)
    BY <1>5, <2>1, <2>2
  <2>4. QED
    BY <1>5, <2>1, <2>3, Zenon
<1>7. m # 0
  <2>1. SUFFICES ASSUME m = 0 PROVE FALSE
    OBVIOUS
  <2>2. n = 0
    BY <1>5, <1>6, <2>1
  <2>3. QED
    BY <1>5, <2>2
<1>8. k <= n
  <2>1. 1 <= m /\ 1 \in Nat /\ k \in Nat
    BY <1>5, <1>6, <1>7
  <2>2. 1 * k <= m * k
    BY <1>6, <2>1, MulFacts
  <2>3. 1 * k = k /\ m * k = k * m
    BY <1>6, <2>1
  <2>4. QED
    BY <1>6, <2>2, <2>3, Zenon
<1>9. QED
  BY <1>2, <1>3, <1>4, <1>6, <1>7, <1>8, Zenon

LEMMA WorkloadFacts ==
  ASSUME NEW l \in Nat \ {0}
  PROVE  Workload(l) \in Nat /\ Workload(l) > 0
<1>1. l * l \in Nat
  BY MulFacts
<1>2. 24576 * l \in Nat /\ 24576 * l > 0
  OBVIOUS
<1>3. 24576 * l + l * l \in Nat /\ 24576 * l + l * l > 0
  BY <1>1, <1>2
<1>4. QED
  BY <1>3 DEF Workload

LEMMA BalanceWork ==
  ASSUME job \in TrainJobs
  PROVE  WorkOf(RowWork(0, Size), 0, Size)
<1>1. \A i \in 1 .. Size : Work(0, i) \in Nat /\ Work(0, i) > 0
  <2>1. SUFFICES ASSUME NEW i \in 1 .. Size
                 PROVE  Work(0, i) \in Nat /\ Work(0, i) > 0
    OBVIOUS
  <2>2. job.seqlens[i] \in Nat \ {0}
    BY JobFacts
  <2>3. Work(0, i) = Workload(job.seqlens[i])
    BY DEF Work
  <2>4. QED
    BY <2>2, <2>3, WorkloadFacts
<1>2. QED
  BY <1>1 DEF WorkOf, RowWork

LEMMA RankWork ==
  ASSUME job \in TrainJobs, NEW r \in Nat \ {0}, NEW n \in Nat,
         rows[r] \in Seq(1 .. Size), Len(rows[r]) = n
  PROVE  WorkOf(RowWork(r, n), r, n)
<1>1. \A i \in 1 .. n : Work(r, i) \in Nat /\ Work(r, i) > 0
  <2>1. SUFFICES ASSUME NEW i \in 1 .. n
                 PROVE  Work(r, i) \in Nat /\ Work(r, i) > 0
    OBVIOUS
  <2>2. rows[r][i] \in 1 .. Size
    BY ElementOfSeq
  <2>3. job.seqlens[rows[r][i]] \in Nat \ {0}
    BY <2>2, JobFacts
  <2>4. Work(r, i) = Workload(job.seqlens[rows[r][i]])
    BY DEF Work
  <2>5. QED
    BY <2>3, <2>4, WorkloadFacts
<1>2. QED
  BY <1>1 DEF WorkOf, RowWork

\* ceildiv of positive numbers
LEMMA CeilFacts ==
  ASSUME NEW a \in Nat \ {0}, NEW b \in Nat \ {0}
  PROVE  (a + b - 1) \div b \in Nat \ {0}
<1>1. PICK x \in Nat : x = a + b - 1 /\ x >= b
  <2>1. a + b - 1 \in Nat /\ a + b - 1 >= b
    OBVIOUS
  <2>2. QED
    BY <2>1
<1>2. x \div b \in Nat /\ x % b \in 0 .. b - 1 /\ x = b * (x \div b) + (x % b)
  BY DivFacts
<1>3. x \div b # 0
  <2>1. SUFFICES ASSUME x \div b = 0 PROVE FALSE
    OBVIOUS
  <2>2. x = b * 0 + (x % b)
    BY <1>2, <2>1, Zenon
  <2>3. b * 0 = 0
    OBVIOUS
  <2>4. x < b
    BY <1>2, <2>2, <2>3
  <2>5. QED
    BY <1>1, <2>4
<1>4. QED
  BY <1>1, <1>2, <1>3

LEMMA OwnCountFacts ==
  ASSUME job \in TrainJobs, NEW r, NEW n \in Nat \ {0},
         rows[r] \in Seq(1 .. Size), Len(rows[r]) = n
  PROVE  OwnCount(r) \in 1 .. n
<1>1. PICK q : q = rows[r]
  OBVIOUS
<1>2. q \in Seq(1 .. Size) /\ Len(q) = n
  BY <1>1
<1>3. DOMAIN q = 1 .. n /\ \A i \in 1 .. n : q[i] \in 1 .. Size
  BY <1>2, LenProperties, ElementOfSeq
<1>4. PICK f, D : f = [i \in DOMAIN q |-> job.seqlens[q[i]]] /\ D = DOMAIN q
  OBVIOUS
<1>5. IsFiniteSet(D) /\ D # {}
  <2>1. 1 \in 1 .. n /\ n \in Nat
    OBVIOUS
  <2>2. QED
    BY <1>3, <1>4, <2>1, IntervalFacts
<1>6. f \in [D -> Nat] /\ \A i \in D : f[i] > 0
  <2>1. ASSUME NEW i \in 1 .. n
        PROVE  job.seqlens[q[i]] \in Nat /\ job.seqlens[q[i]] > 0
    <3>1. job.seqlens[q[i]] \in Nat \ {0}
      BY <1>3, JobFacts
    <3>2. QED
      BY <3>1
  <2>2. QED
    BY <1>3, <1>4, <2>1
<1>7. SumFunction(f) \in Nat \ {0}
  BY <1>5, <1>6, SumFacts
<1>8. PICK c : c = CeilDiv(SumFunction(f), job.max_token_len)
  OBVIOUS
<1>9. c \in Nat \ {0}
  <2>1. job.max_token_len \in Nat \ {0}
    BY JobFacts
  <2>2. QED
    BY <1>7, <1>8, <2>1, CeilFacts DEF CeilDiv
<1>10. OwnCount(r) = Min({n, c})
  <2>1. f = [i \in DOMAIN rows[r] |-> job.seqlens[rows[r][i]]]
    BY <1>1, <1>4
  <2>2. OwnCount(r) =
          Min({Len(rows[r]),
               CeilDiv(SumFunction([i \in DOMAIN rows[r] |-> job.seqlens[rows[r][i]]]),
                       job.max_token_len)})
    BY DEF OwnCount
  <2>3. QED
    BY <1>8, <2>1, <2>2, Zenon
<1>11. n \in Nat /\ c \in Nat
  BY <1>9
<1>12. Min({n, c}) \in {n, c} /\ Min({n, c}) <= n
  BY <1>11, MinFacts
<1>13. QED
  BY <1>9, <1>10, <1>12

LEMMA NumMicroBatchesFacts ==
  ASSUME job \in TrainJobs, NEW r, NEW n \in Nat \ {0},
         \A q \in Ranks : rows[q] \in Seq(1 .. Size) /\ Len(rows[q]) = n
  PROVE  /\ NumMicroBatches(r) \in Nat \ {0}
         /\ job.divided_by = 1 => NumMicroBatches(r) <= n
<1> DEFINE S == {OwnCount(q) : q \in Ranks}
<1>1. \A q \in Ranks : OwnCount(q) \in 1 .. n
  BY OwnCountFacts
<1>2. 1 \in Ranks
  BY JobFacts DEF Ranks
<1>3. S \in SUBSET Nat /\ S # {} /\ \A x \in S : x <= n /\ x # 0
  BY <1>1, <1>2
<1>4. PICK x : x = Max(S)
  OBVIOUS
<1>5. NumMicroBatches(r) = ((x + job.divided_by - 1) \div job.divided_by)
                             * job.divided_by
  BY <1>4, Zenon DEF NumMicroBatches, RoundUp
<1> HIDE DEF S
<1>6. x \in S
  BY <1>3, <1>4, MaxFacts
<1>7. x \in Nat \ {0} /\ x <= n
  BY <1>3, <1>6
<1>8. PICK d : d = job.divided_by
  OBVIOUS
<1>9. d \in Nat \ {0}
  BY <1>8, JobFacts
<1>10. PICK c : c = (x + d - 1) \div d
  OBVIOUS
<1>11. c \in Nat \ {0}
  BY <1>7, <1>9, <1>10, CeilFacts
<1>12. NumMicroBatches(r) = c * d
  BY <1>5, <1>8, <1>10, Zenon
<1>13. c * d \in Nat \ {0}
  <2>1. 1 <= c /\ 1 \in Nat /\ c \in Nat /\ d \in Nat
    BY <1>9, <1>11
  <2>2. 1 * d <= c * d /\ c * d \in Nat
    BY <2>1, MulFacts
  <2>3. 1 * d = d
    BY <2>1
  <2>4. QED
    BY <1>9, <2>2, <2>3
<1>14. ASSUME d = 1 PROVE c * d <= n
  <2>1. c = x \div 1
    <3>1. x + d - 1 = x
      BY <1>7, <1>14
    <3>2. QED
      BY <1>10, <1>14, <3>1
  <2>2. x = 1 * (x \div 1) + (x % 1) /\ x % 1 \in 0 .. 1 - 1 /\ x \div 1 \in Nat
    BY <1>7, DivFacts
  <2>3. x \div 1 = x
    BY <1>7, <2>2
  <2>4. c * d = x
    BY <1>7, <1>14, <2>1, <2>3
  <2>5. QED
    BY <1>7, <2>4
<1>15. QED
  BY <1>8, <1>12, <1>13, <1>14, Zenon

\* pad_dataproto_to_divisor and unpad_dataproto
LEMMA ModZero ==
  ASSUME NEW d \in Nat \ {0}, NEW c \in Nat
  PROVE  (d * c) % d = 0
<1>1. PICK a, q, r : a = d * c /\ q = a \div d /\ r = a % d
  OBVIOUS
<1>2. a \in Nat
  BY <1>1
<1>3. q \in Nat /\ r \in 0 .. d - 1 /\ a = d * q + r
  <2>1. a \div d \in Nat /\ a % d \in 0 .. d - 1 /\ a = d * (a \div d) + (a % d)
    BY <1>2, DivFacts
  <2>2. QED
    BY <1>1, <2>1, Zenon
<1>4. d * q \in Nat /\ d * c \in Nat
  BY <1>3
<1>5. CASE q < c
  <2>1. q + 1 <= c /\ q + 1 \in Nat
    BY <1>3, <1>5
  <2>2. (q + 1) * d = q * d + d /\ (q + 1) * d <= c * d
    BY <1>3, <2>1, MulFacts
  <2>3. q * d = d * q /\ c * d = d * c
    BY <1>3
  <2>4. QED
    BY <1>1, <1>3, <1>4, <2>2, <2>3
<1>6. CASE c < q
  <2>1. c + 1 <= q /\ c + 1 \in Nat
    BY <1>3, <1>6
  <2>2. (c + 1) * d = c * d + d /\ (c + 1) * d <= q * d
    BY <1>3, <2>1, MulFacts
  <2>3. q * d = d * q /\ c * d = d * c
    BY <1>3
  <2>4. QED
    BY <1>1, <1>3, <1>4, <2>2, <2>3
<1>7. CASE q = c
  BY <1>1, <1>3, <1>4, <1>7
<1>8. q < c \/ c < q \/ q = c
  BY <1>3
<1>9. QED
  BY <1>5, <1>6, <1>7, <1>8

LEMMA PadFacts ==
  ASSUME NEW X, NEW s \in Seq(X), s # <<>>, NEW d \in Nat \ {0}
  PROVE  /\ Pad(s, d) \in Seq(X) /\ Len(Pad(s, d)) % d = 0
         /\ Unpad(Pad(s, d), PadSize(Len(s), d)) = s
<1>1. PICK n, e : n = Len(s) /\ e = PadSize(n, d)
  OBVIOUS
<1>2. n \in Nat \ {0}
  BY <1>1, EmptySeq
<1>3. n \div d \in Nat /\ n % d \in 0 .. d - 1 /\ n = d * (n \div d) + (n % d)
  BY <1>2, DivFacts
<1>4. e \in Nat
  BY <1>1, <1>3 DEF PadSize
<1>5. (n + e) % d = 0
  <2>1. CASE n % d = 0
    <3>1. e = 0
      BY <1>1, <2>1 DEF PadSize
    <3>2. n + e = n
      BY <1>2, <3>1
    <3>3. QED
      BY <2>1, <3>2
  <2>2. CASE n % d # 0
    <3>1. e = d - (n % d)
      BY <1>1, <2>2 DEF PadSize
    <3>2. PICK b, r : b = n \div d /\ r = n % d
      OBVIOUS
    <3>3. b \in Nat /\ r \in 0 .. d - 1 /\ n = d * b + r
      BY <1>3, <3>2, Zenon
    <3>4. e = d - r
      BY <3>1, <3>2, Zenon
    <3>5. d * b \in Nat
      BY <3>3
    <3>6. n + e = d * (b + 1) /\ b + 1 \in Nat
      <4>1. n + e = d * b + d
        BY <1>2, <3>3, <3>4, <3>5
      <4>2. d * b + d = d * (b + 1) /\ b + 1 \in Nat
        BY <3>3
      <4>3. QED
        BY <4>1, <4>2, Zenon
    <3>7. QED
      BY <3>6, ModZero
  <2>3. QED
    BY <2>1, <2>2
<1>6. PICK t : t = [i \in 1 .. e |-> s[((i - 1) % n) + 1]]
  OBVIOUS
<1>7. t \in Seq(X) /\ Len(t) = e
  <2>1. ASSUME NEW i \in 1 .. e PROVE s[((i - 1) % n) + 1] \in X
    <3>1. i - 1 \in Nat
      BY <1>4
    <3>2. (i - 1) % n \in 0 .. n - 1
      BY <1>2, <3>1, DivFacts
    <3>3. ((i - 1) % n) + 1 \in 1 .. Len(s)
      BY <1>1, <1>2, <3>2
    <3>4. QED
      BY <3>3, ElementOfSeq
  <2>2. QED
    BY <1>4, <1>6, <2>1
<1>8. Pad(s, d) = s \o t
  BY <1>1, <1>6 DEF Pad
<1>9. /\ s \o t \in Seq(X) /\ Len(s \o t) = n + e
      /\ \A i \in 1 .. n + e : (s \o t)[i] = IF i <= n THEN s[i] ELSE t[i - n]
  BY <1>1, <1>7, ConcatProperties
<1>10. SubSeq(s \o t, 1, n) = s
  <2>1. PICK p : p = s \o t
    OBVIOUS
  <2>2. \A i \in 1 .. n : p[i] = s[i] /\ p[i] \in X
    <3>1. \A i \in 1 .. n : s[i] \in X
      BY <1>1, ElementOfSeq
    <3>2. QED
      BY <1>2, <1>4, <1>9, <2>1, <3>1
  <2>3. /\ SubSeq(p, 1, n) \in Seq(X) /\ Len(SubSeq(p, 1, n)) = n
        /\ \A i \in 1 .. n : SubSeq(p, 1, n)[i] = p[i]
    <3>1. 1 \in Int /\ n \in Int
      BY <1>2
    <3>2. /\ SubSeq(p, 1, n) \in Seq(X)
          /\ Len(SubSeq(p, 1, n)) = IF 1 <= n THEN n - 1 + 1 ELSE 0
          /\ \A i \in 1 .. n - 1 + 1 : SubSeq(p, 1, n)[i] = p[1 + i - 1]
      BY <2>2, <3>1, SubSeqProperties
    <3>3. n - 1 + 1 = n /\ \A i \in 1 .. n : 1 + i - 1 = i
      BY <1>2
    <3>4. QED
      BY <1>2, <3>2, <3>3
  <2>4. QED
    BY <1>1, <2>1, <2>2, <2>3, SeqEqual
<1>11. Unpad(s \o t, e) = s
  <2>1. n + e - e = n
    BY <1>2, <1>4
  <2>2. Len(s \o t) - e = n
    BY <1>2, <1>4, <1>9
  <2>3. Unpad(s \o t, e) = SubSeq(s \o t, 1, Len(s \o t) - e)
    BY Zenon DEF Unpad
  <2>4. QED
    BY <1>10, <2>2, <2>3, Zenon
<1>12. QED
  BY <1>1, <1>5, <1>8, <1>9, <1>11, Zenon

-----------------------------------------------------------------------------
(* The inductive invariant of a training step *)

Shapes ==
  /\ job \in TrainJobs
  /\ status \in {"begin", "balance", "infer", "done", "error"}
  /\ DOMAIN heap = 0 .. job.dp /\ DOMAIN micro = Ranks
  /\ phase \in [Ranks -> {"idle", "count", "split", "too_many", "forward",
                          "done"}]
  /\ status \in {"begin", "balance"} => \A r \in Ranks : phase[r] = "idle"

\* Once dispatched, every row is on one rank, and the ranks have as many rows.
RowsOK ==
  status \in {"infer", "done", "error"} =>
    /\ rows \in Seq(Seq(1 .. Size)) /\ Len(rows) = job.dp
    /\ \A r \in Ranks : Len(rows[r]) = Share
    /\ PermSeq(FlattenSeq(rows), Size)

BalanceHeap ==
  IF status = "begin"
    THEN heap[0] = {}
    ELSE HeapOK(heap[0], Size, job.dp, RowWork(0, Size))

RankHeap(r) ==
  IF phase[r] \in {"split", "forward", "done"}
    THEN \E k \in 1 .. Share : HeapOK(heap[r], Share, k, RowWork(r, Share))
    ELSE heap[r] = {}

\* The micro batches of a rank have every row of the rank once.
MicroOK(r) == phase[r] = "forward" => PermSeq(FlattenSeq(micro[r]), Share)

TooManyOK(r) == phase[r] = "too_many" => job.divided_by > 1

OutputOK ==
  /\ status \in {"begin", "balance", "infer"} =>
       /\ DOMAIN output = Ranks
       /\ output = [r \in Ranks |-> output[r]]
       /\ \A r \in Ranks : phase[r] = "done" => output[r] = rows[r]
  /\ status = "done" => /\ output = FlattenSeq(rows)
                         /\ \A r \in Ranks : phase[r] = "done"

TrainInv ==
  /\ Shapes /\ RowsOK /\ BalanceHeap /\ OutputOK
  /\ \A r \in Ranks : RankHeap(r) /\ MicroOK(r) /\ TooManyOK(r)

LEMMA SameJob ==
  ASSUME job' = job
  PROVE  /\ Size' = Size /\ Share' = Share /\ Ranks' = Ranks
         /\ \A n : RowWork(0, n)' = RowWork(0, n)
         /\ rows' = rows => \A w, n : RowWork(w, n)' = RowWork(w, n)
<1>1. Size' = Size /\ Share' = Share /\ Ranks' = Ranks
  BY DEF Size, Share, Ranks
<1>2. \A n : RowWork(0, n)' = RowWork(0, n)
  BY DEF RowWork, Work
<1>3. ASSUME rows' = rows, NEW w, NEW n PROVE RowWork(w, n)' = RowWork(w, n)
  BY <1>3 DEF RowWork, Work
<1>4. QED
  BY <1>1, <1>2, <1>3

LEMMA RankFacts ==
  ASSUME job \in TrainJobs
  PROVE  /\ \A r \in Ranks : r \in Nat \ {0} /\ r \in 0 .. job.dp /\ r # 0
         /\ 0 \in 0 .. job.dp
BY JobFacts DEF Ranks

LEMMA MergeStepFacts ==
  ASSUME NEW w, w \in DOMAIN heap, NEW n \in Nat, NEW k \in Nat \ {0},
         NEW W \in [1 .. n -> Nat], HeapOK(heap[w], n, k, W), MergeStep(w)
  PROVE  /\ HeapOK(heap'[w], n, k, W) /\ DOMAIN heap' = DOMAIN heap
         /\ \A v \in DOMAIN heap : v # w => heap'[v] = heap[v]
<1>1. PICK s, t : s = First(heap[w]) /\ t = First(heap[w] \ {s})
  OBVIOUS
<1>2. /\ Cardinality(heap[w]) > 1
      /\ heap' = [heap EXCEPT ![w] = Popped(heap[w], s, t) \union {Merged(s, t)}]
  BY <1>1, Zenon DEF MergeStep
<1>3. HeapOK(Popped(heap[w], s, t) \union {Merged(s, t)}, n, k, W)
  BY <1>1, <1>2, MergeHeap
<1>4. PICK H : H = Popped(heap[w], s, t) \union {Merged(s, t)}
  OBVIOUS
<1>5. heap' = [heap EXCEPT ![w] = H]
  BY <1>2, <1>4, Zenon
<1>6. /\ heap'[w] = H /\ DOMAIN heap' = DOMAIN heap
      /\ \A v \in DOMAIN heap : v # w => heap'[v] = heap[v]
  BY <1>5, Zenon
<1>7. QED
  BY <1>3, <1>4, <1>6, Zenon

LEMMA BalanceInv ==
  ASSUME TrainInv, Balance
  PROVE  TrainInv'
<1>1. /\ job' = job /\ rows' = rows /\ phase' = phase /\ micro' = micro
      /\ output' = output /\ status = "begin" /\ status' = "balance"
      /\ heap' = [heap EXCEPT ![0] = EqualStates(0, Len(job.seqlens), job.dp)]
  BY DEF Balance
<1>2. Shapes
  BY DEF TrainInv
<1>3. /\ job \in TrainJobs /\ Size \in Nat \ {0} /\ job.dp \in Nat \ {0}
      /\ Size % job.dp = 0 /\ WorkOf(RowWork(0, Size), 0, Size)
  BY <1>2, JobFacts, BalanceWork DEF Shapes
<1>4. HeapOK(EqualStates(0, Size, job.dp), Size, job.dp, RowWork(0, Size))
  BY <1>3, EqualHeap
<1>5. Size' = Size /\ Share' = Share /\ Ranks' = Ranks
      /\ RowWork(0, Size)' = RowWork(0, Size)
  BY <1>1, SameJob
<1>6. /\ DOMAIN heap' = DOMAIN heap /\ heap'[0] = EqualStates(0, Size, job.dp)
      /\ \A r \in Ranks : heap'[r] = heap[r]
  <2>1. PICK H : H = EqualStates(0, Size, job.dp)
    OBVIOUS
  <2>2. heap' = [heap EXCEPT ![0] = H]
    BY <1>1, <2>1, Zenon DEF Size
  <2>3. 0 \in DOMAIN heap /\ \A r \in Ranks : r # 0 /\ r \in DOMAIN heap
    BY <1>2, <1>3, RankFacts DEF Shapes
  <2>4. QED
    BY <2>1, <2>2, <2>3, Zenon
<1>7. Shapes'
  BY <1>1, <1>2, <1>5, <1>6 DEF Shapes
<1>8. RowsOK'
  BY <1>1 DEF RowsOK
<1>9. BalanceHeap'
  <2>1. HeapOK(heap'[0], Size', job'.dp, RowWork(0, Size)')
    BY <1>1, <1>4, <1>5, <1>6, Zenon
  <2>2. QED
    BY <1>1, <2>1 DEF BalanceHeap
<1>10. OutputOK'
  BY <1>1, <1>2, <1>5 DEF TrainInv, OutputOK, Shapes
<1>11. \A r \in Ranks' : RankHeap(r)' /\ MicroOK(r)' /\ TooManyOK(r)'
  <2>1. \A r \in Ranks : phase[r] = "idle" /\ heap[r] = {}
    <3>1. \A r \in Ranks : phase[r] = "idle"
      BY <1>1, <1>2 DEF Shapes
    <3>2. QED
      BY <3>1 DEF TrainInv, RankHeap
  <2>2. QED
    BY <1>1, <1>5, <1>6, <2>1 DEF RankHeap, MicroOK, TooManyOK
<1>12. QED
  BY <1>7, <1>8, <1>9, <1>10, <1>11 DEF TrainInv

\* What a step leaves alone
LEMMA SameRankHeap ==
  ASSUME job' = job, rows' = rows, NEW q, heap'[q] = heap[q],
         phase'[q] = phase[q], RankHeap(q)
  PROVE  RankHeap(q)'
<1>1. Share' = Share /\ RowWork(q, Share)' = RowWork(q, Share)
  BY SameJob
<1>2. CASE phase[q] \in {"split", "forward", "done"}
  <2>1. PICK k \in 1 .. Share : HeapOK(heap[q], Share, k, RowWork(q, Share))
    BY <1>2 DEF RankHeap
  <2>2. HeapOK(heap'[q], Share', k, RowWork(q, Share)') /\ k \in 1 .. Share'
    BY <1>1, <2>1, Zenon
  <2>3. QED
    BY <1>2, <2>2 DEF RankHeap
<1>3. CASE ~(phase[q] \in {"split", "forward", "done"})
  BY <1>3 DEF RankHeap
<1>4. QED
  BY <1>2, <1>3

LEMMA SameRank ==
  ASSUME job' = job, micro' = micro, NEW q, phase'[q] = phase[q],
         MicroOK(q), TooManyOK(q)
  PROVE  MicroOK(q)' /\ TooManyOK(q)'
BY SameJob DEF MicroOK, TooManyOK

LEMMA SameRows ==
  ASSUME job' = job, rows' = rows, RowsOK,
         status' \in {"infer", "done", "error"} =>
           status \in {"infer", "done", "error"}
  PROVE  RowsOK'
BY SameJob DEF RowsOK

LEMMA SameBalance ==
  ASSUME job' = job, heap'[0] = heap[0], BalanceHeap, status # "begin",
         status' # "begin"
  PROVE  BalanceHeap'
<1>1. Size' = Size /\ RowWork(0, Size)' = RowWork(0, Size)
  BY SameJob
<1>2. HeapOK(heap[0], Size, job.dp, RowWork(0, Size))
  BY DEF BalanceHeap
<1>3. HeapOK(heap'[0], Size', job'.dp, RowWork(0, Size)')
  BY <1>1, <1>2, Zenon
<1>4. QED
  BY <1>3 DEF BalanceHeap

LEMMA BalanceStepInv ==
  ASSUME TrainInv, BalanceStep
  PROVE  TrainInv'
<1>1. /\ job' = job /\ rows' = rows /\ phase' = phase /\ micro' = micro
      /\ output' = output /\ status = "balance" /\ status' = status
      /\ MergeStep(0)
  BY DEF BalanceStep
<1>2. Shapes /\ RowsOK /\ BalanceHeap /\ OutputOK
  BY DEF TrainInv
<1>3. /\ job \in TrainJobs /\ Size \in Nat /\ job.dp \in Nat \ {0}
      /\ RowWork(0, Size) \in [1 .. Size -> Nat]
  BY <1>2, JobFacts, BalanceWork DEF Shapes, WorkOf
<1>4. 0 \in DOMAIN heap /\ \A r \in Ranks : r # 0 /\ r \in DOMAIN heap
  BY <1>2, <1>3, RankFacts DEF Shapes
<1>5. HeapOK(heap[0], Size, job.dp, RowWork(0, Size))
  BY <1>1, <1>2 DEF BalanceHeap
<1>6. /\ HeapOK(heap'[0], Size, job.dp, RowWork(0, Size))
      /\ DOMAIN heap' = DOMAIN heap
      /\ \A v \in DOMAIN heap : v # 0 => heap'[v] = heap[v]
  BY <1>1, <1>3, <1>4, <1>5, MergeStepFacts
<1>7. Size' = Size /\ Share' = Share /\ Ranks' = Ranks
      /\ RowWork(0, Size)' = RowWork(0, Size)
  BY <1>1, SameJob
<1>8. Shapes'
  BY <1>1, <1>2, <1>6, <1>7 DEF Shapes
<1>9. RowsOK'
  BY <1>1, <1>2, SameRows
<1>10. BalanceHeap'
  <2>1. HeapOK(heap'[0], Size', job'.dp, RowWork(0, Size)')
    BY <1>1, <1>6, <1>7, Zenon
  <2>2. QED
    BY <1>1, <2>1 DEF BalanceHeap
<1>11. OutputOK'
  BY <1>1, <1>2, <1>7 DEF OutputOK
<1>12. ASSUME NEW r \in Ranks
       PROVE  RankHeap(r)' /\ MicroOK(r)' /\ TooManyOK(r)'
  <2>1. RankHeap(r) /\ MicroOK(r) /\ TooManyOK(r)
    BY DEF TrainInv
  <2>2. heap'[r] = heap[r] /\ phase'[r] = phase[r]
    BY <1>1, <1>4, <1>6
  <2>3. QED
    BY <1>1, <2>1, <2>2, SameRankHeap, SameRank
<1>13. QED
  BY <1>7, <1>8, <1>9, <1>10, <1>11, <1>12 DEF TrainInv

\* The rows of all ranks are a permutation of the rows of the batch.
LEMMA DispatchInv ==
  ASSUME TrainInv, Dispatch
  PROVE  TrainInv'
<1>1. /\ job' = job /\ heap' = heap /\ micro' = micro
      /\ output' = output /\ status = "balance" /\ ~Merging(0)
  BY DEF Dispatch
<1>2. Shapes /\ RowsOK /\ BalanceHeap /\ OutputOK
  BY DEF TrainInv
<1>3. /\ job \in TrainJobs /\ Size \in Nat \ {0} /\ job.dp \in Nat \ {0}
      /\ Size % job.dp = 0 /\ job.dp <= Size
      /\ WorkOf(RowWork(0, Size), 0, Size)
  BY <1>2, JobFacts, BalanceWork DEF Shapes
<1>4. Size \in Nat /\ job.dp \in Nat
  BY <1>3
<1>5. HeapOK(heap[0], Size, job.dp, RowWork(0, Size))
  BY <1>1, <1>2 DEF BalanceHeap
<1>6. /\ PartsOK(Partitions(0), Size) /\ Len(Partitions(0)) = job.dp
      /\ ~SomeEmpty(0)
  BY <1>1, <1>3, <1>4, <1>5, PartitionsFacts
<1>7. PermSeq(GlobalIdx, Size)
  <2>1. \A i \in 1 .. Size : Work(0, i) \in Nat
    BY <1>3 DEF WorkOf
  <2>2. QED
    BY <1>4, <1>6, <2>1, GlobalIdxFacts
<1>8. /\ status' = "infer" /\ rows' = Chunk(GlobalIdx, job.dp)
      /\ phase' = [r \in Ranks |-> "count"]
  BY <1>6, Zenon DEF Dispatch
<1>9. Size' = Size /\ Share' = Share /\ Ranks' = Ranks
  BY <1>1, SameJob
<1>10. /\ rows' \in Seq(Seq(1 .. Size)) /\ Len(rows') = job.dp
       /\ \A r \in Ranks : Len(rows'[r]) = Share
       /\ FlattenSeq(rows') = GlobalIdx
  <2>1. PICK g : g = GlobalIdx
    OBVIOUS
  <2>2. g \in Seq(1 .. Size) /\ Len(g) = Size
    BY <1>7, <2>1 DEF PermSeq
  <2>3. Len(g) % job.dp = 0 /\ Share = Len(g) \div job.dp
    BY <1>3, <2>2 DEF Share, Size
  <2>4. PICK d, X : d = job.dp /\ X = 1 .. Size
    OBVIOUS
  <2>5. d \in Nat \ {0} /\ g \in Seq(X) /\ Len(g) % d = 0
    BY <1>3, <2>2, <2>3, <2>4, Zenon
  <2>6. /\ FlattenSeq(Chunk(g, d)) = g
        /\ Chunk(g, d) \in Seq(Seq(X)) /\ Len(Chunk(g, d)) = d
        /\ \A i \in 1 .. d : Len(Chunk(g, d)[i]) = Len(g) \div d
    BY <2>5, FlattenChunk, Zenon
  <2>7. QED
    BY <1>8, <2>1, <2>3, <2>4, <2>6, Zenon DEF Ranks
<1>11. Shapes'
  BY <1>1, <1>2, <1>8, <1>9 DEF Shapes
<1>12. RowsOK'
  <2>1. PermSeq(FlattenSeq(rows'), Size)
    BY <1>7, <1>10, Zenon
  <2>2. QED
    BY <1>1, <1>9, <1>10, <2>1 DEF RowsOK
<1>13. BalanceHeap'
  BY <1>1, <1>2, <1>8, SameBalance
<1>14. OutputOK'
  BY <1>1, <1>2, <1>8, <1>9 DEF OutputOK
<1>15. ASSUME NEW r \in Ranks
       PROVE  RankHeap(r)' /\ MicroOK(r)' /\ TooManyOK(r)'
  <2>1. RankHeap(r) /\ phase[r] = "idle" /\ phase'[r] = "count"
    BY <1>1, <1>2, <1>8 DEF TrainInv, Shapes
  <2>2. heap[r] = {}
    BY <2>1 DEF RankHeap
  <2>3. QED
    BY <1>1, <2>1, <2>2 DEF RankHeap, MicroOK, TooManyOK
<1>16. QED
  BY <1>9, <1>11, <1>12, <1>13, <1>14, <1>15 DEF TrainInv

LEMMA RankRows ==
  ASSUME TrainInv, status \in {"infer", "done", "error"}, NEW r \in Ranks
  PROVE  /\ rows[r] \in Seq(1 .. Size) /\ Len(rows[r]) = Share
         /\ Share \in Nat \ {0} /\ Share \in Nat
         /\ WorkOf(RowWork(r, Share), r, Share)
<1>1. Shapes /\ RowsOK
  BY DEF TrainInv
<1>2. job \in TrainJobs /\ job.dp \in Nat \ {0} /\ Share \in Nat \ {0}
  BY <1>1, JobFacts DEF Shapes
<1>3. /\ rows \in Seq(Seq(1 .. Size)) /\ Len(rows) = job.dp
      /\ Len(rows[r]) = Share
  BY <1>1 DEF RowsOK
<1>4. rows[r] \in Seq(1 .. Size)
  BY <1>3, ElementOfSeq DEF Ranks
<1>5. r \in Nat \ {0}
  BY <1>2, RankFacts
<1>6. Share \in Nat
  BY <1>2
<1>7. WorkOf(RowWork(r, Share), r, Share)
  BY <1>2, <1>3, <1>4, <1>5, <1>6, RankWork
<1>8. QED
  BY <1>2, <1>3, <1>4, <1>6, <1>7

\* Beyond "begin" and "balance", where every rank is idle
LEMMA BusyRank ==
  ASSUME TrainInv, NEW r \in Ranks, phase[r] # "idle"
  PROVE  status \in {"infer", "done", "error"} /\ status # "begin"
BY DEF TrainInv, Shapes

\* What a step of rank r leaves alone: everything of the other ranks and of the
\* controller
LEMMA RankFrame ==
  ASSUME TrainInv, NEW r \in Ranks, phase[r] # "idle",
         job' = job, rows' = rows, status' = status,
         DOMAIN heap' = DOMAIN heap, DOMAIN micro' = DOMAIN micro,
         NEW p, p \in {"count", "split", "too_many", "forward", "done"},
         phase' = [phase EXCEPT ![r] = p],
         \A v \in DOMAIN heap : v # r => heap'[v] = heap[v],
         \A v \in DOMAIN micro : v # r => micro'[v] = micro[v],
         OutputOK', RankHeap(r)', MicroOK(r)', TooManyOK(r)'
  PROVE  TrainInv'
<1>1. Shapes /\ RowsOK /\ BalanceHeap
  BY DEF TrainInv
<1>2. status \in {"infer", "done", "error"} /\ status # "begin"
  BY BusyRank
<1>3. Size' = Size /\ Share' = Share /\ Ranks' = Ranks
  BY SameJob
<1>4. 0 \in DOMAIN heap /\ \A q \in Ranks : q # 0 /\ q \in DOMAIN heap
  BY <1>1, RankFacts DEF Shapes
<1>5. Shapes'
  <2>1. phase' \in [Ranks -> {"idle", "count", "split", "too_many", "forward",
                              "done"}]
    BY <1>1 DEF Shapes
  <2>2. QED
    BY <1>1, <1>2, <1>3, <2>1 DEF Shapes
<1>6. RowsOK'
  BY <1>1, SameRows
<1>7. BalanceHeap'
  BY <1>1, <1>2, <1>4, SameBalance
<1>8. ASSUME NEW q \in Ranks
      PROVE  RankHeap(q)' /\ MicroOK(q)' /\ TooManyOK(q)'
  <2>1. CASE q = r
    BY <2>1
  <2>2. CASE q # r
    <3>1. RankHeap(q) /\ MicroOK(q) /\ TooManyOK(q)
      BY DEF TrainInv
    <3>2. /\ heap'[q] = heap[q] /\ micro'[q] = micro[q]
          /\ phase'[q] = phase[q]
      BY <1>1, <1>4, <2>2 DEF Shapes
    <3>3. RankHeap(q)'
      BY <3>1, <3>2, SameRankHeap
    <3>4. MicroOK(q)' /\ TooManyOK(q)'
      BY <1>3, <3>1, <3>2 DEF MicroOK, TooManyOK
    <3>5. QED
      BY <3>3, <3>4
  <2>3. QED
    BY <2>1, <2>2
<1>9. QED
  BY <1>3, <1>5, <1>6, <1>7, <1>8 DEF TrainInv

LEMMA SameOutput ==
  ASSUME job' = job, rows' = rows, status' = status, output' = output, OutputOK,
         NEW r \in Ranks, phase[r] # "done",
         NEW p, p # "done", phase' = [phase EXCEPT ![r] = p],
         phase \in [Ranks -> {"idle", "count", "split", "too_many", "forward",
                              "done"}]
  PROVE  OutputOK'
<1>1. Ranks' = Ranks
  BY SameJob
<1>2. \A q \in Ranks : phase'[q] = "done" => phase[q] = "done"
  OBVIOUS
<1>3. QED
  BY <1>1, <1>2 DEF OutputOK

LEMMA ReduceInv ==
  ASSUME TrainInv, NEW r \in Ranks, Reduce(r)
  PROVE  TrainInv'
<1>1. /\ job' = job /\ rows' = rows /\ micro' = micro
      /\ output' = output /\ status' = status /\ status = "infer"
      /\ phase[r] = "count"
  BY DEF Reduce
<1>2. PICK k : k = NumMicroBatches(r)
  OBVIOUS
<1>3. IF k <= Len(rows[r])
        THEN /\ phase' = [phase EXCEPT ![r] = "split"]
             /\ heap' = [heap EXCEPT ![r] = SingleStates(r, Len(rows[r]), k)]
        ELSE phase' = [phase EXCEPT ![r] = "too_many"] /\ heap' = heap
  BY <1>2, Zenon DEF Reduce
<1>4. Shapes /\ OutputOK /\ RankHeap(r)
  BY DEF TrainInv
<1>5. /\ rows[r] \in Seq(1 .. Size) /\ Len(rows[r]) = Share
      /\ Share \in Nat \ {0} /\ Share \in Nat
      /\ WorkOf(RowWork(r, Share), r, Share)
  BY <1>1, RankRows
<1>6. k \in Nat \ {0} /\ (job.divided_by = 1 => k <= Share)
  <2>1. \A q \in Ranks : rows[q] \in Seq(1 .. Size) /\ Len(rows[q]) = Share
    BY <1>1, RankRows
  <2>2. job \in TrainJobs
    BY <1>4 DEF Shapes
  <2>3. QED
    BY <1>2, <1>5, <2>1, <2>2, NumMicroBatchesFacts
<1>7. /\ r \in DOMAIN heap /\ r \in DOMAIN phase /\ job.divided_by \in Nat \ {0}
      /\ phase \in [Ranks -> {"idle", "count", "split", "too_many", "forward",
                              "done"}]
  BY <1>4, RankFacts, JobFacts DEF Shapes
<1>8. heap[r] = {}
  BY <1>1, <1>4 DEF RankHeap
<1>9. Share' = Share /\ RowWork(r, Share)' = RowWork(r, Share)
  BY <1>1, SameJob
<1>10. CASE k <= Len(rows[r])
  <2>1. /\ phase' = [phase EXCEPT ![r] = "split"]
        /\ heap' = [heap EXCEPT ![r] = SingleStates(r, Share, k)]
    BY <1>3, <1>5, <1>10, Zenon
  <2>2. HeapOK(SingleStates(r, Share, k), Share, k, RowWork(r, Share))
    BY <1>5, <1>6, SingleHeap
  <2>3. PICK H : H = SingleStates(r, Share, k)
    OBVIOUS
  <2>4. heap' = [heap EXCEPT ![r] = H]
    BY <2>1, <2>3, Zenon
  <2>5. /\ heap'[r] = H /\ DOMAIN heap' = DOMAIN heap
        /\ \A v \in DOMAIN heap : v # r => heap'[v] = heap[v]
    BY <1>7, <2>4, Zenon
  <2>6. phase'[r] = "split"
    BY <1>7, <2>1
  <2>7. RankHeap(r)'
    <3>1. k \in 1 .. Share
      BY <1>5, <1>6, <1>10
    <3>2. HeapOK(heap'[r], Share', k, RowWork(r, Share)') /\ k \in 1 .. Share'
      BY <1>9, <2>2, <2>3, <2>5, <3>1, Zenon
    <3>3. QED
      BY <2>6, <3>2 DEF RankHeap
  <2>8. MicroOK(r)' /\ TooManyOK(r)'
    BY <2>6 DEF MicroOK, TooManyOK
  <2>9. OutputOK'
    BY <1>1, <1>4, <1>7, <2>1, SameOutput
  <2>10. QED
    BY <1>1, <2>1, <2>5, <2>7, <2>8, <2>9, RankFrame
<1>11. CASE ~(k <= Len(rows[r]))
  <2>1. phase' = [phase EXCEPT ![r] = "too_many"] /\ heap' = heap
    BY <1>3, <1>11, Zenon
  <2>2. phase'[r] = "too_many"
    BY <1>7, <2>1
  <2>3. RankHeap(r)'
    BY <1>8, <2>1, <2>2 DEF RankHeap
  <2>4. MicroOK(r)'
    BY <2>2 DEF MicroOK
  <2>5. TooManyOK(r)'
    <3>1. job.divided_by # 1
      BY <1>5, <1>6, <1>11
    <3>2. job.divided_by > 1
      BY <1>7, <3>1
    <3>3. QED
      BY <1>1, <3>2 DEF TooManyOK
  <2>6. OutputOK'
    BY <1>1, <1>4, <1>7, <2>1, SameOutput
  <2>7. QED
    BY <1>1, <2>1, <2>3, <2>4, <2>5, <2>6, RankFrame
<1>12. QED
  BY <1>10, <1>11

LEMMA SplitStepInv ==
  ASSUME TrainInv, NEW r \in Ranks, SplitStep(r)
  PROVE  TrainInv'
<1>1. /\ job' = job /\ rows' = rows /\ micro' = micro /\ phase' = phase
      /\ output' = output /\ status' = status
      /\ phase[r] = "split" /\ MergeStep(r)
  BY DEF SplitStep
<1>2. Shapes /\ OutputOK /\ RankHeap(r)
  BY DEF TrainInv
<1>3. status \in {"infer", "done", "error"}
  BY <1>1, BusyRank
<1>4. /\ Share \in Nat \ {0} /\ Share \in Nat
      /\ RowWork(r, Share) \in [1 .. Share -> Nat]
  BY <1>3, RankRows DEF WorkOf
<1>5. PICK k \in 1 .. Share : HeapOK(heap[r], Share, k, RowWork(r, Share))
  BY <1>1, <1>2 DEF RankHeap
<1>6. k \in Nat \ {0}
  BY <1>4
<1>7. /\ r \in DOMAIN heap /\ r \in DOMAIN phase
      /\ phase \in [Ranks -> {"idle", "count", "split", "too_many", "forward",
                              "done"}]
  BY <1>2, RankFacts, JobFacts DEF Shapes
<1>8. /\ HeapOK(heap'[r], Share, k, RowWork(r, Share))
      /\ DOMAIN heap' = DOMAIN heap
      /\ \A v \in DOMAIN heap : v # r => heap'[v] = heap[v]
  BY <1>1, <1>4, <1>5, <1>6, <1>7, MergeStepFacts
<1>9. Share' = Share /\ RowWork(r, Share)' = RowWork(r, Share)
  BY <1>1, SameJob
<1>10. RankHeap(r)'
  <2>1. HeapOK(heap'[r], Share', k, RowWork(r, Share)') /\ k \in 1 .. Share'
    BY <1>5, <1>8, <1>9, Zenon
  <2>2. QED
    BY <1>1, <2>1 DEF RankHeap
<1>11. MicroOK(r)' /\ TooManyOK(r)'
  BY <1>1 DEF MicroOK, TooManyOK
<1>12. phase' = [phase EXCEPT ![r] = "split"]
  BY <1>1, <1>7
<1>13. OutputOK'
  BY <1>1, <1>2, <1>7, <1>12, SameOutput
<1>14. QED
  BY <1>1, <1>8, <1>10, <1>11, <1>12, <1>13, RankFrame

LEMMA ArrangeInv ==
  ASSUME TrainInv, NEW r \in Ranks, Arrange(r)
  PROVE  TrainInv'
<1>1. /\ job' = job /\ rows' = rows /\ heap' = heap /\ output' = output
      /\ status' = status /\ phase[r] = "split" /\ ~Merging(r)
  BY DEF Arrange
<1>2. Shapes /\ OutputOK /\ RankHeap(r)
  BY DEF TrainInv
<1>3. status \in {"infer", "done", "error"}
  BY <1>1, BusyRank
<1>4. Share \in Nat \ {0} /\ Share \in Nat /\ WorkOf(RowWork(r, Share), r, Share)
  BY <1>3, RankRows
<1>5. PICK k \in 1 .. Share : HeapOK(heap[r], Share, k, RowWork(r, Share))
  BY <1>1, <1>2 DEF RankHeap
<1>6. k \in Nat \ {0} /\ k <= Share
  BY <1>4
<1>7. PartsOK(Partitions(r), Share) /\ ~SomeEmpty(r)
  BY <1>1, <1>4, <1>5, <1>6, PartitionsFacts
<1>8. PICK m : m = Arranged(r)[Partitions(r)]
  OBVIOUS
<1>9. phase' = [phase EXCEPT ![r] = "forward"] /\ micro' = [micro EXCEPT ![r] = m]
  BY <1>7, <1>8, Zenon DEF Arrange
<1>10. PermSeq(FlattenSeq(m), Share)
  <2>1. \A i \in 1 .. Share : Work(r, i) \in Nat /\ Work(r, i) > 0
    BY <1>4 DEF WorkOf
  <2>2. PartsOK(m, Share)
    BY <1>4, <1>7, <1>8, <2>1, ArrangedFacts
  <2>3. QED
    BY <1>4, <2>2, PartsFlatten
<1>11. /\ r \in DOMAIN micro
       /\ phase \in [Ranks -> {"idle", "count", "split", "too_many", "forward",
                              "done"}]
  BY <1>2 DEF Shapes
<1>12. /\ micro'[r] = m /\ DOMAIN micro' = DOMAIN micro
       /\ \A v \in DOMAIN micro : v # r => micro'[v] = micro[v]
  BY <1>9, <1>11, Zenon
<1>13. phase'[r] = "forward"
  BY <1>9, <1>11
<1>14. Share' = Share /\ RowWork(r, Share)' = RowWork(r, Share)
  BY <1>1, SameJob
<1>15. RankHeap(r)'
  <2>1. HeapOK(heap'[r], Share', k, RowWork(r, Share)') /\ k \in 1 .. Share'
    BY <1>1, <1>5, <1>14, Zenon
  <2>2. QED
    BY <1>13, <2>1 DEF RankHeap
<1>16. MicroOK(r)' /\ TooManyOK(r)'
  BY <1>10, <1>12, <1>13, <1>14 DEF MicroOK, TooManyOK
<1>17. OutputOK'
  BY <1>1, <1>2, <1>9, <1>11, SameOutput
<1>18. QED
  BY <1>1, <1>9, <1>12, <1>15, <1>16, <1>17, RankFrame

LEMMA ForwardInv ==
  ASSUME TrainInv, NEW r \in Ranks, Forward(r)
  PROVE  TrainInv'
<1>1. /\ job' = job /\ rows' = rows /\ micro' = micro /\ phase' = phase
      /\ heap' = heap /\ output' = output /\ status' = status
      /\ phase[r] = "forward"
  BY DEF Forward, trainVars
<1>2. Shapes /\ OutputOK /\ RankHeap(r) /\ MicroOK(r) /\ TooManyOK(r)
  BY DEF TrainInv
<1>3. RankHeap(r)' /\ MicroOK(r)' /\ TooManyOK(r)'
  BY <1>1, <1>2, SameRankHeap, SameRank
<1>4. phase \in [Ranks -> {"idle", "count", "split", "too_many", "forward",
                           "done"}]
  BY <1>2 DEF Shapes
<1>5. phase' = [phase EXCEPT ![r] = "forward"]
  BY <1>1, <1>4
<1>6. OutputOK'
  BY <1>1, <1>2, <1>4, <1>5, SameOutput
<1>7. QED
  BY <1>1, <1>3, <1>5, <1>6, RankFrame

LEMMA ReturnInv ==
  ASSUME TrainInv, NEW r \in Ranks, Return(r)
  PROVE  TrainInv'
<1>1. /\ job' = job /\ rows' = rows /\ micro' = micro /\ heap' = heap
      /\ status' = status /\ phase[r] = "forward"
      /\ phase' = [phase EXCEPT ![r] = "done"]
      /\ output' = [output EXCEPT ![r] = Restore(r)]
  BY DEF Return
<1>2. Shapes /\ OutputOK /\ RankHeap(r) /\ MicroOK(r) /\ TooManyOK(r)
  BY DEF TrainInv
<1>3. status \in {"infer", "done", "error"}
  BY <1>1, BusyRank
<1>4. /\ rows[r] \in Seq(1 .. Size) /\ Len(rows[r]) = Share /\ Share \in Nat
  BY <1>3, RankRows
<1>5. PermSeq(FlattenSeq(micro[r]), Share)
  BY <1>1, <1>2 DEF MicroOK
<1>6. Restore(r) = rows[r]
  BY <1>4, <1>5, RestoreFacts
<1>7. phase \in [Ranks -> {"idle", "count", "split", "too_many", "forward",
                           "done"}]
  BY <1>2 DEF Shapes
<1>8. /\ phase'[r] = "done"
      /\ \A q \in Ranks : q # r => phase'[q] = phase[q]
  BY <1>1, <1>7
<1>9. Ranks' = Ranks /\ Share' = Share /\ RowWork(r, Share)' = RowWork(r, Share)
  BY <1>1, SameJob
<1>10. RankHeap(r)'
  <2>1. PICK k \in 1 .. Share : HeapOK(heap[r], Share, k, RowWork(r, Share))
    BY <1>1, <1>2 DEF RankHeap
  <2>2. HeapOK(heap'[r], Share', k, RowWork(r, Share)') /\ k \in 1 .. Share'
    BY <1>1, <1>9, <2>1, Zenon
  <2>3. QED
    BY <1>8, <2>2 DEF RankHeap
<1>11. MicroOK(r)' /\ TooManyOK(r)'
  BY <1>8 DEF MicroOK, TooManyOK
<1>12. OutputOK'
  <2>1. status # "done"
    BY <1>1, <1>2 DEF OutputOK
  <2>2. CASE status = "infer"
    <3>1. /\ DOMAIN output = Ranks /\ output = [q \in Ranks |-> output[q]]
          /\ \A q \in Ranks : phase[q] = "done" => output[q] = rows[q]
      BY <1>2, <2>2 DEF OutputOK
    <3>2. output' = [output EXCEPT ![r] = rows[r]]
      BY <1>1, <1>6, Zenon
    <3>3. /\ DOMAIN output' = Ranks /\ output' = [q \in Ranks |-> output'[q]]
          /\ output'[r] = rows[r]
          /\ \A q \in Ranks : q # r => output'[q] = output[q]
      BY <3>1, <3>2
    <3>4. \A q \in Ranks : phase'[q] = "done" => output'[q] = rows'[q]
      BY <1>1, <1>8, <3>1, <3>3
    <3>5. QED
      BY <1>1, <1>9, <2>2, <3>3, <3>4 DEF OutputOK
  <2>3. CASE status # "infer"
    BY <1>1, <1>3, <2>1, <2>3 DEF OutputOK
  <2>4. QED
    BY <2>2, <2>3
<1>13. QED
  BY <1>1, <1>10, <1>11, <1>12, RankFrame

LEMMA CollectInv ==
  ASSUME TrainInv, Collect
  PROVE  TrainInv'
<1>1. /\ job' = job /\ rows' = rows /\ micro' = micro /\ heap' = heap
      /\ phase' = phase /\ status = "infer" /\ status' \in {"done", "error"}
      /\ \/ /\ \A r \in Ranks : phase[r] = "done"
            /\ status' = "done" /\ output' = FlattenSeq(output)
         \/ status' = "error"
  BY DEF Collect, trainVars
<1>2. Shapes /\ RowsOK /\ BalanceHeap /\ OutputOK
  BY DEF TrainInv
<1>3. Size' = Size /\ Share' = Share /\ Ranks' = Ranks
  BY <1>1, SameJob
<1>4. Shapes'
  BY <1>1, <1>2, <1>3 DEF Shapes
<1>5. RowsOK'
  BY <1>1, <1>2, SameRows
<1>6. BalanceHeap'
  BY <1>1, <1>2, SameBalance
<1>7. OutputOK'
  <2>1. CASE status' = "error"
    BY <2>1 DEF OutputOK
  <2>2. CASE status' = "done"
    <3>1. /\ \A r \in Ranks : phase[r] = "done"
          /\ output' = FlattenSeq(output)
      BY <1>1, <2>2
    <3>2. \A r \in Ranks : output[r] = rows[r]
      BY <1>1, <1>2, <3>1 DEF OutputOK
    <3>3. output = [r \in Ranks |-> output[r]]
      BY <1>1, <1>2, Zenon DEF OutputOK
    <3>4. output = [r \in Ranks |-> rows[r]]
      BY <3>2, <3>3
    <3>5. rows \in Seq(Seq(1 .. Size)) /\ Len(rows) = job.dp
      BY <1>1, <1>2 DEF RowsOK
    <3>6. rows = [r \in Ranks |-> rows[r]]
      BY <3>5, LenProperties DEF Ranks
    <3>7. output' = FlattenSeq(rows)
      BY <3>1, <3>4, <3>6, Zenon
    <3>8. QED
      BY <1>1, <1>3, <2>2, <3>1, <3>7 DEF OutputOK
  <2>3. QED
    BY <1>1, <2>1, <2>2
<1>8. ASSUME NEW r \in Ranks
      PROVE  RankHeap(r)' /\ MicroOK(r)' /\ TooManyOK(r)'
  <2>1. RankHeap(r) /\ MicroOK(r) /\ TooManyOK(r)
    BY DEF TrainInv
  <2>2. QED
    BY <1>1, <2>1, SameRankHeap, SameRank
<1>9. QED
  BY <1>3, <1>4, <1>5, <1>6, <1>7, <1>8 DEF TrainInv

-----------------------------------------------------------------------------
(* The invariant of a validation *)

ValInv ==
  /\ job \in ValJobs /\ status \in {"begin", "done", "assertion"}
  /\ at \in Nat /\ at <= Len(job.batches)
  /\ at > 0 => output = Upto(Len(job.batches[at]))

Inv == (TrainInv \/ ValInv) /\ KeysNameColumns

LEMMA ValJobFacts ==
  ASSUME job \in ValJobs
  PROVE  /\ job.kind = "validate" /\ job.workers \in Nat \ {0}
         /\ Len(job.batches) \in Nat
         /\ \A i \in 1 .. Len(job.batches) :
              /\ job.batches[i] \in Seq(DOMAIN RewardKeys)
              /\ Len(job.batches[i]) \in Nat \ {0}
<1>1. job \in ValJob /\ \A b \in ToSet(job.batches) : b # <<>>
  BY BatchAssumption
<1>2. /\ job.kind = "validate" /\ job.workers \in Nat \ {0}
      /\ job.batches \in Seq(Seq(DOMAIN RewardKeys))
  BY <1>1, Zenon DEF ValJob
<1>3. PICK B, D : B = job.batches /\ D = DOMAIN RewardKeys
  OBVIOUS
<1>4. B \in Seq(Seq(D)) /\ \A b \in ToSet(B) : b # <<>>
  BY <1>1, <1>2, <1>3, Zenon
<1>5. Len(B) \in Nat /\ DOMAIN B = 1 .. Len(B)
  BY <1>4, LenProperties
<1>6. ASSUME NEW i \in 1 .. Len(B) PROVE B[i] \in Seq(D) /\ Len(B[i]) \in Nat \ {0}
  <2>1. B[i] \in Seq(D)
    BY <1>4, ElementOfSeq
  <2>2. B[i] # <<>>
    BY <1>4, <1>5 DEF ToSet
  <2>3. QED
    BY <2>1, <2>2, EmptySeq
<1>7. QED
  BY <1>2, <1>3, <1>5, <1>6, Zenon

LEMMA ValidateBatchInv ==
  ASSUME ValInv, ValidateBatch
  PROVE  ValInv'
<1>1. PICK n, d, batch, padded, chunks :
        /\ batch = job.batches[at + 1] /\ n = Len(batch) /\ d = job.workers
        /\ padded = Pad(Upto(n), d) /\ chunks = Chunk(padded, d)
  OBVIOUS
<1>2. /\ job' = job /\ status' = status /\ at' = at + 1
      /\ at < Len(job.batches)
      /\ output' = Unpad(FlattenSeq(chunks), PadSize(n, d))
  <2>1. /\ job' = job /\ status' = status /\ at' = at + 1
        /\ at < Len(job.batches)
    BY DEF ValidateBatch
  <2>2. output' = Unpad(FlattenSeq(Chunk(Pad(Upto(Len(job.batches[at + 1])), job.workers),
                                         job.workers)),
                        PadSize(Len(job.batches[at + 1]), job.workers))
    BY Zenon DEF ValidateBatch
  <2>3. QED
    BY <1>1, <2>1, <2>2, Zenon
<1>3. /\ job \in ValJobs /\ status \in {"begin", "done", "assertion"}
      /\ at \in Nat /\ at <= Len(job.batches)
  BY DEF ValInv
<1>4. Len(job.batches) \in Nat /\ d \in Nat \ {0}
  BY <1>1, <1>3, ValJobFacts
<1>5. at + 1 \in 1 .. Len(job.batches) /\ at + 1 \in Nat
      /\ at + 1 <= Len(job.batches)
  BY <1>2, <1>3, <1>4
<1>6. n \in Nat \ {0} /\ n \in Nat
  BY <1>1, <1>3, <1>5, ValJobFacts
<1>7. PICK u, X : u = Upto(n) /\ X = 1 .. n
  OBVIOUS
<1>8. u \in Seq(X) /\ Len(u) = n
  BY <1>6, <1>7, UptoFacts
<1>9. u # <<>>
  BY <1>6, <1>8, EmptySeq
<1>10. /\ padded \in Seq(X) /\ Len(padded) % d = 0
       /\ Unpad(padded, PadSize(n, d)) = u
  <2>1. /\ Pad(u, d) \in Seq(X) /\ Len(Pad(u, d)) % d = 0
        /\ Unpad(Pad(u, d), PadSize(Len(u), d)) = u
    BY <1>4, <1>8, <1>9, PadFacts, Zenon
  <2>2. QED
    BY <1>1, <1>7, <1>8, <2>1, Zenon
<1>11. FlattenSeq(chunks) = padded
  BY <1>1, <1>4, <1>10, FlattenChunk, Zenon
<1>12. output' = Upto(Len(job'.batches[at']))
  BY <1>1, <1>2, <1>7, <1>10, <1>11, Zenon
<1>13. QED
  BY <1>2, <1>3, <1>5, <1>12 DEF ValInv

LEMMA EndValidateInv ==
  ASSUME ValInv, EndValidate
  PROVE  ValInv'
BY DEF ValInv, EndValidate

\* _rebuild_manager_meta_info names only columns that concat has kept.
LEMMA KeysInv ==
  ASSUME KeysNameColumns, [Next]_vars
  PROVE  KeysNameColumns'
<1>1. CASE UNCHANGED valVars
  BY <1>1 DEF KeysNameColumns, valVars
<1>2. CASE ValidateBatch
  <2>1. \E parts : keys' = Rebuild(parts, columns')
    BY <1>2, Zenon DEF ValidateBatch
  <2>2. QED
    BY <2>1 DEF Rebuild, KeysNameColumns
<1>3. CASE UNCHANGED vars
  BY <1>3 DEF KeysNameColumns, vars, valVars
<1>4. Next => ValidateBatch \/ UNCHANGED valVars
  BY Zenon DEF Next, Controller, RankStep, Rank, Balance, BalanceStep, Dispatch, Collect,
     EndValidate, Reduce, SplitStep, Arrange, Forward, Return
<1>5. QED
  BY <1>1, <1>2, <1>3, <1>4

LEMMA InitInv == Init => Inv
<1>1. SUFFICES ASSUME Init PROVE Inv
  OBVIOUS
<1>2. job \in TrainJobs \union ValJobs /\ status = "begin" /\ keys = {}
  BY <1>1, Zenon DEF Init
<1>3. KeysNameColumns
  BY <1>2 DEF KeysNameColumns
<1>4. CASE job \in TrainJobs
  <2>1. job.kind = "train"
    BY <1>4, JobFacts
  <2>2. /\ heap = [w \in 0 .. job.dp |-> {}]
        /\ phase = [r \in Ranks |-> "idle"] /\ micro = [r \in Ranks |-> <<>>]
        /\ output = [r \in Ranks |-> <<>>]
    BY <1>1, <2>1, Zenon DEF Init
  <2>3. 0 \in 0 .. job.dp /\ \A r \in Ranks : r \in 0 .. job.dp
    BY <1>4, RankFacts
  <2>4. Shapes
    BY <1>2, <1>4, <2>2 DEF Shapes
  <2>5. RowsOK
    BY <1>2 DEF RowsOK
  <2>6. BalanceHeap
    BY <1>2, <2>2, <2>3 DEF BalanceHeap
  <2>7. OutputOK
    BY <1>2, <2>2 DEF OutputOK
  <2>8. \A r \in Ranks : RankHeap(r) /\ MicroOK(r) /\ TooManyOK(r)
    BY <2>2, <2>3 DEF RankHeap, MicroOK, TooManyOK
  <2>9. QED
    BY <1>3, <2>4, <2>5, <2>6, <2>7, <2>8 DEF Inv, TrainInv
<1>5. CASE job \in ValJobs
  <2>1. job.kind = "validate" /\ Len(job.batches) \in Nat
    BY <1>5, ValJobFacts
  <2>2. at = 0
    <3>1. job.kind # "train"
      BY <2>1
    <3>2. QED
      BY <1>1, <3>1, Zenon DEF Init
  <2>3. ValInv
    BY <1>2, <1>5, <2>1, <2>2 DEF ValInv
  <2>4. QED
    BY <1>3, <2>3 DEF Inv
<1>6. QED
  BY <1>2, <1>4, <1>5

LEMMA TrainStep ==
  ASSUME TrainInv, [Next]_vars
  PROVE  TrainInv'
<1>1. job.kind = "train"
  BY JobFacts DEF TrainInv, Shapes
<1>2. CASE UNCHANGED vars
  <2>1. /\ job' = job /\ rows' = rows /\ micro' = micro /\ heap' = heap
        /\ phase' = phase /\ status' = status /\ output' = output
    BY <1>2 DEF vars, trainVars
  <2>2. QED
    BY <2>1, SameJob, SameRows, SameRankHeap, SameRank
       DEF TrainInv, Shapes, BalanceHeap, OutputOK
<1>3. CASE Balance
  BY <1>3, BalanceInv
<1>4. CASE BalanceStep
  BY <1>4, BalanceStepInv
<1>5. CASE Dispatch
  BY <1>5, DispatchInv
<1>6. CASE Collect
  BY <1>6, CollectInv
<1>7. CASE ValidateBatch \/ EndValidate
  BY <1>1, <1>7 DEF ValidateBatch, EndValidate
<1>8. ASSUME NEW r \in Ranks, Rank(r) PROVE TrainInv'
  BY <1>8, ReduceInv, SplitStepInv, ArrangeInv, ForwardInv, ReturnInv DEF Rank
<1>9. QED
  BY <1>2, <1>3, <1>4, <1>5, <1>6, <1>7, <1>8, Zenon DEF Next, Controller, RankStep

LEMMA ValStep ==
  ASSUME ValInv, [Next]_vars
  PROVE  ValInv'
<1>1. job.kind = "validate" /\ status \notin {"balance", "infer"}
  BY ValJobFacts DEF ValInv
<1>2. CASE UNCHANGED vars
  BY <1>2 DEF vars, ValInv
<1>3. CASE ValidateBatch
  BY <1>3, ValidateBatchInv
<1>4. CASE EndValidate
  BY <1>4, EndValidateInv
<1>5. ~(Balance \/ BalanceStep \/ Dispatch \/ Collect \/ RankStep)
  BY <1>1 DEF Balance, BalanceStep, Dispatch, Collect, RankStep
<1>6. QED
  BY <1>2, <1>3, <1>4, <1>5 DEF Next, Controller

LEMMA InvStep == Inv /\ [Next]_vars => Inv'
BY TrainStep, ValStep, KeysInv DEF Inv

-----------------------------------------------------------------------------
(* What the invariant says *)

\* A function on 1 .. n has a greatest value.
LEMMA Greatest ==
  ASSUME NEW n \in Nat \ {0}, NEW W \in [1 .. n -> Nat]
  PROVE  \E i \in 1 .. n : \A j \in 1 .. n : W[j] <= W[i]
<1> DEFINE before == [i \in 1 .. n |->
                        {j \in 1 .. n : W[j] > W[i] \/ (W[j] = W[i] /\ j < i)}]
<1>1. before \in [1 .. n -> SUBSET (1 .. n)]
  OBVIOUS
<1>2. \A i, j \in 1 .. n : j \in before[i] <=> W[j] > W[i] \/ (W[j] = W[i] /\ j < i)
  OBVIOUS
<1>3. IsFiniteSet(1 .. n) /\ 1 .. n # {}
  <2>1. n \in Nat /\ 1 \in 1 .. n
    OBVIOUS
  <2>2. QED
    BY <2>1, IntervalFacts
<1> HIDE DEF before
<1>4. \A x \in 1 .. n : W[x] \in Nat /\ x \in Nat
  OBVIOUS
<1>5. \A x \in 1 .. n : x \notin before[x]
  BY <1>2, <1>4
<1>6. ASSUME NEW x \in 1 .. n, NEW y \in 1 .. n, NEW z \in 1 .. n,
             x \in before[y], y \in before[z]
      PROVE  x \in before[z]
  BY <1>2, <1>4, <1>6
<1>7. \A x, y \in 1 .. n : x = y \/ x \in before[y] \/ y \in before[x]
  BY <1>2, <1>4
<1>8. PICK i \in 1 .. n : \A j \in (1 .. n) \ {i} : i \in before[j]
  BY <1>1, <1>3, <1>5, <1>6, <1>7, FirstExists
<1>9. \A j \in 1 .. n : W[j] <= W[i]
  BY <1>2, <1>4, <1>8
<1>10. QED
  BY <1>9

\* The heaviest row of those in the last state
LEMMA SpreadBound ==
  ASSUME NEW w, NEW n \in Nat \ {0}, NEW k \in Nat \ {0}, k <= n, NEW W,
         WorkOf(W, w, n), HeapOK(heap[w], n, k, W), ~Merging(w),
         NEW s \in heap[w]
  PROVE  Spread(s) <= Max({Work(w, i) : i \in UNION {ToSet(x.items) :
                                                       x \in ToSet(s)}})
<1>1. n \in Nat /\ W \in [1 .. n -> Nat] /\ \A i \in 1 .. n : W[i] = Work(w, i)
  BY DEF WorkOf
<1>2. ~(Cardinality(heap[w]) > 1)
  BY DEF Merging
<1>3. StateOK(s, n, k, W) /\ \A x \in 1 .. n : Holds(x, s)
  BY <1>1, <1>2, LastState
<1>4. /\ SetsOK(s, n, k) /\ Decreasing(s)
      /\ s \in Seq(ItemSet) /\ Len(s) = k
      /\ \A i \in 1 .. k : s[i].items \in Seq(1 .. n)
  BY <1>3 DEF StateOK, SetsOK
<1>5. DOMAIN s = 1 .. k
  BY <1>4, LenProperties
<1>6. UNION {ToSet(x.items) : x \in ToSet(s)} = 1 .. n
  <2>1. \A i \in 1 .. k : DOMAIN s[i].items = 1 .. Len(s[i].items)
    BY <1>4, LenProperties
  <2>2. \A i \in 1 .. k : \A a \in 1 .. Len(s[i].items) : s[i].items[a] \in 1 .. n
    BY <1>4, ElementOfSeq
  <2>3. ASSUME NEW y \in UNION {ToSet(x.items) : x \in ToSet(s)} PROVE y \in 1 .. n
    <3>1. PICK x \in ToSet(s) : y \in ToSet(x.items)
      BY <2>3
    <3>2. PICK i \in 1 .. k : x = s[i]
      BY <1>5, <3>1 DEF ToSet
    <3>3. PICK a \in 1 .. Len(s[i].items) : y = s[i].items[a]
      BY <2>1, <3>1, <3>2 DEF ToSet
    <3>4. QED
      BY <2>2, <3>3
  <2>4. ASSUME NEW y \in 1 .. n PROVE y \in UNION {ToSet(x.items) : x \in ToSet(s)}
    <3>1. Holds(y, s)
      BY <1>3
    <3>2. PICK i \in 1 .. k : In(y, s[i].items)
      BY <1>4, <3>1 DEF Holds
    <3>3. PICK a \in 1 .. Len(s[i].items) : s[i].items[a] = y
      BY <3>2 DEF In
    <3>4. y \in ToSet(s[i].items)
      BY <2>1, <3>3 DEF ToSet
    <3>5. s[i] \in ToSet(s)
      BY <1>5 DEF ToSet
    <3>6. QED
      BY <3>4, <3>5
  <2>5. QED
    BY <2>3, <2>4
<1>7. PICK S : S = {Work(w, i) : i \in UNION {ToSet(x.items) : x \in ToSet(s)}}
  OBVIOUS
<1>8. S = {W[i] : i \in 1 .. n}
  BY <1>1, <1>6, <1>7
<1>9. PICK b \in 1 .. n : \A j \in 1 .. n : W[j] <= W[b]
  BY <1>1, Greatest
<1>10. PICK c \in Nat : c = W[b]
  BY <1>1
<1>11. S \in SUBSET Nat /\ S # {} /\ \A x \in S : x <= c
  BY <1>1, <1>8, <1>9, <1>10
<1>12. Max(S) \in S /\ \A x \in S : x <= Max(S)
  BY <1>11, MaxFacts
<1>13. PICK x \in 1 .. n : Spread(s) <= W[x]
  BY <1>3 DEF StateOK
<1>14. Spread(s) \in Nat
  BY <1>1, <1>4, SpreadFacts
<1>15. PICK sp, wx, mx : sp = Spread(s) /\ wx = W[x] /\ mx = Max(S)
  OBVIOUS
<1>16. W[x] \in S
  BY <1>8
<1>17. sp \in Nat /\ wx \in Nat /\ mx \in Nat /\ sp <= wx /\ wx <= mx
  <2>1. wx \in Nat
    BY <1>1, <1>15
  <2>2. mx \in Nat /\ wx <= mx
    BY <1>11, <1>12, <1>15, <1>16
  <2>3. QED
    BY <1>13, <1>14, <1>15, <2>1, <2>2, Zenon
<1>18. sp <= mx
  BY <1>17
<1>19. QED
  BY <1>7, <1>15, <1>18, Zenon

LEMMA InvBalanced == Inv => Balanced
<1>1. SUFFICES ASSUME Inv, job.kind = "train" PROVE Balanced
  BY Zenon DEF Balanced
<1>2. TrainInv
  <2>1. ~ValInv
    <3>1. SUFFICES ASSUME ValInv PROVE FALSE
      OBVIOUS
    <3>2. job.kind = "validate"
      BY <3>1, ValJobFacts DEF ValInv
    <3>3. QED
      BY <1>1, <3>2
  <2>2. QED
    BY <1>1, <2>1 DEF Inv
<1>3. Shapes /\ BalanceHeap /\ \A r \in Ranks : RankHeap(r) /\ TooManyOK(r)
  BY <1>2 DEF TrainInv
<1>4. /\ job \in TrainJobs /\ DOMAIN heap = 0 .. job.dp /\ status # "assertion"
      /\ \A r \in Ranks : phase[r] # "assertion"
  BY <1>3 DEF Shapes
<1>5. \A r \in Ranks : phase[r] = "too_many" => job.divided_by > 1
  BY <1>3 DEF TooManyOK
<1>6. ASSUME NEW w \in DOMAIN heap, heap[w] # {}, ~Merging(w), NEW s \in heap[w]
      PROVE  Spread(s) <= Max({Work(w, i) : i \in UNION {ToSet(x.items) :
                                                          x \in ToSet(s)}})
  <2>1. CASE w = 0
    <3>1. HeapOK(heap[0], Size, job.dp, RowWork(0, Size))
      BY <1>3, <1>6, <2>1 DEF BalanceHeap
    <3>2. /\ Size \in Nat \ {0} /\ job.dp \in Nat \ {0} /\ job.dp <= Size
          /\ WorkOf(RowWork(0, Size), 0, Size)
      BY <1>4, JobFacts, BalanceWork
    <3>3. QED
      BY <1>6, <2>1, <3>1, <3>2, SpreadBound
  <2>2. CASE w # 0
    <3>1. w \in Ranks
      BY <1>4, <2>2, JobFacts DEF Ranks
    <3>2. phase[w] \in {"split", "forward", "done"} /\ RankHeap(w)
      BY <1>3, <1>6, <3>1 DEF RankHeap
    <3>3. PICK k \in 1 .. Share : HeapOK(heap[w], Share, k, RowWork(w, Share))
      BY <3>2 DEF RankHeap
    <3>4. status \in {"infer", "done", "error"}
      BY <1>2, <3>1, <3>2, BusyRank
    <3>5. Share \in Nat \ {0} /\ WorkOf(RowWork(w, Share), w, Share)
      BY <1>2, <3>1, <3>4, RankRows
    <3>6. k \in Nat \ {0} /\ k <= Share
      BY <3>5
    <3>7. QED
      BY <1>6, <3>3, <3>5, <3>6, SpreadBound
  <2>3. QED
    BY <2>1, <2>2
<1>7. QED
  BY <1>4, <1>5, <1>6 DEF Balanced

LEMMA InvAligned == Inv => Aligned
<1>1. SUFFICES ASSUME Inv PROVE Aligned
  OBVIOUS
<1>2. CASE TrainInv
  <2>1. job.kind = "train" /\ Size \in Nat \ {0} /\ job.seqlens \in Seq(Nat \ {0})
    BY <1>2, JobFacts DEF TrainInv, Shapes
  <2>2. ASSUME status = "done"
        PROVE  output = FlattenSeq(rows) /\ ToSet(output) = DOMAIN job.seqlens
    <3>1. output = FlattenSeq(rows) /\ PermSeq(FlattenSeq(rows), Size)
      BY <1>2, <2>2 DEF TrainInv, OutputOK, RowsOK
    <3>2. PICK f : f = FlattenSeq(rows)
      OBVIOUS
    <3>3. PermSeq(f, Size)
      BY <3>1, <3>2, Zenon
    <3>4. DOMAIN f = 1 .. Size /\ \A i \in 1 .. Size : f[i] \in 1 .. Size
      BY <2>1, <3>3, LenProperties, ElementOfSeq DEF PermSeq
    <3>5. \A x \in 1 .. Size : \E i \in 1 .. Size : f[i] = x
      BY <3>3 DEF PermSeq, In
    <3>6. ToSet(f) = 1 .. Size
      BY <3>4, <3>5 DEF ToSet
    <3>7. DOMAIN job.seqlens = 1 .. Size
      BY <2>1, LenProperties DEF Size
    <3>8. QED
      BY <3>1, <3>2, <3>6, <3>7, Zenon
  <2>3. QED
    BY <2>1, <2>2 DEF Aligned
<1>3. CASE ValInv
  <2>1. job.kind # "train"
    BY <1>3, ValJobFacts DEF ValInv
  <2>2. QED
    BY <1>3, <2>1, Zenon DEF Aligned, ValInv
<1>4. QED
  BY <1>1, <1>2, <1>3 DEF Inv

LEMMA Invariance == Spec => []Inv
<1>1. Init => Inv
  BY InitInv
<1>2. Inv /\ [Next]_vars => Inv'
  BY InvStep
<1>3. QED
  BY <1>1, <1>2, PTL DEF Spec

\* Whatever the lengths of the rows and the numbers of ranks and workers: the
\* answers that are collected in a training step are those to the rows in the
\* order in which _balance_batch left them, every row of the batch among them,
\* although rearrange_micro_batches and restore_dynamic_batch have permuted the
\* rows of every rank; and unpad_dataproto gives a batch of _validate back in
\* its own order.
THEOREM AlignedHolds == Spec => []Aligned
<1>1. Inv => Aligned
  BY InvAligned
<1>2. QED
  BY <1>1, Invariance, PTL

\* karmarkar_karp, for every number of rows and of partitions: no partition is
\* empty, the heaviest and the lightest partition differ by no more than the
\* heaviest row, and rearrange_micro_batches asks for more micro batches than
\* rows only because of num_batches_divided_by.
THEOREM BalancedHolds == Spec => []Balanced
<1>1. Inv => Balanced
  BY InvBalanced
<1>2. QED
  BY <1>1, Invariance, PTL

\* For every set of domains and their reward columns: the keys that
\* _rebuild_manager_meta_info leaves in reward_extra_keys are columns of the
\* batch.
THEOREM KeysNameColumnsHolds == Spec => []KeysNameColumns
<1>1. Inv => KeysNameColumns
  BY DEF Inv
<1>2. QED
  BY <1>1, Invariance, PTL
=============================================================================
