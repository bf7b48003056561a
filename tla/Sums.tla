-------------------------------- MODULE Sums --------------------------------
(***************************************************************************)
(* Sums over sequences, and lists of lists strung together, as the folds   *)
(* of the community modules compute them.                                  *)
(*                                                                         *)
(* A fold takes the elements of its sequence in whatever order its choice  *)
(* function says; the models use folds to add up lengths.  Here is what    *)
(* the proofs need of them: the sum does not depend on the order, and one  *)
(* more element adds its weight; one more list comes behind the others, so *)
(* that lists which are alike place by place are alike when strung         *)
(* together.                                                               *)
(***************************************************************************)
EXTENDS Integers, SequencesExt, SequenceTheorems, FiniteSetTheorems, WellFoundedInduction, TLAPS

\* g gives the sum of the weights w over every subset of 1 .. n.
Adds(g, w, n) ==
  /\ g \in [SUBSET (1 .. n) -> Int]
  /\ g[{}] = 0
  /\ \A s \in SUBSET (1 .. n) : \A x \in s : g[s] = w[x] + g[s \ {x}]

\* Their sum over all of it.
SumTo(w, n) == (CHOOSE g : Adds(g, w, n))[1 .. n]

\* Weights that can be added.
Weights(w, n) == \A k \in 1 .. n : w[k] \in Int

\* c picks an element of every set that has one; h takes the elements out of
\* each set by that choice, and adds their weights to base.
Picks(c, n) == \A s \in SUBSET (1 .. n) : s # {} => c[s] \in s
Folds(h, base, c, w, n) ==
  \A s \in SUBSET (1 .. n) : h[s] = IF s = {} THEN base ELSE w[c[s]] + h[s \ {c[s]}]

\* A set of natural numbers that is not empty has a least element.
LEMMA Least ==
  ASSUME NEW T, T \subseteq Nat, T # {}
  PROVE  \E n \in T : \A m \in T : n <= m
<1> DEFINE R == OpToRel(<, Nat)
<1>1. IsWellFoundedOn(R, Nat)
  BY NatLessThanWellFounded
<1>2. \A m, k \in Nat : m < k => <<m, k>> \in R
  BY DEF OpToRel
<1> HIDE DEF R
<1>3. PICK n \in T : \A m \in T : ~ (<<m, n>> \in R)
  BY <1>1, WFMin
<1>4. ASSUME NEW m \in T PROVE n <= m
  <2>1. m \in Nat /\ n \in Nat
    OBVIOUS
  <2>2. ~ (m < n)
    BY <1>2, <1>3, <2>1
  <2> QED BY <2>1, <2>2
<1> QED BY <1>4

\* Induction: a set that holds 0 and with each number the next one holds all.
LEMMA Induct ==
  ASSUME NEW S, S \subseteq Nat, 0 \in S, \A n \in S : n + 1 \in S
  PROVE  S = Nat
<1> DEFINE T == Nat \ S
<1>1. ASSUME T # {} PROVE FALSE
  <2>1. PICK n \in T : \A m \in T : n <= m
    BY <1>1, Least
  <2>2. n \in Nat /\ n # 0
    OBVIOUS
  <2>3. n - 1 \in Nat /\ n - 1 \notin T /\ (n - 1) + 1 = n
    BY <2>1, <2>2
  <2>4. n - 1 \in S
    BY <2>3
  <2> QED BY <2>3, <2>4
<1> QED BY <1>1

\* What adds up the weights of n + 1 places, given what does of n.
LEMMA AddsOneMore ==
  ASSUME NEW n \in Nat, NEW w, Weights(w, n + 1), NEW g, Adds(g, w, n)
  PROVE  \E h : Adds(h, w, n + 1)
<1> DEFINE h == [s \in SUBSET (1 .. n + 1) |->
                   IF n + 1 \in s THEN w[n + 1] + g[s \ {n + 1}] ELSE g[s]]
<1>1. \A s \in SUBSET (1 .. n + 1) : s \ {n + 1} \in SUBSET (1 .. n)
  OBVIOUS
<1>2. \A s \in SUBSET (1 .. n + 1) : n + 1 \notin s => s \in SUBSET (1 .. n)
  OBVIOUS
<1>3. w[n + 1] \in Int
  BY DEF Weights
<1>4. h \in [SUBSET (1 .. n + 1) -> Int]
  BY <1>1, <1>2, <1>3 DEF Adds
<1>5. h[{}] = 0
  BY DEF Adds
<1>6. ASSUME NEW s \in SUBSET (1 .. n + 1), NEW x \in s
      PROVE  h[s] = w[x] + h[s \ {x}]
  <2>1. s \ {x} \in SUBSET (1 .. n + 1) /\ w[x] \in Int
    BY DEF Weights
  <2>2. CASE x = n + 1
    <3>1. h[s] = w[n + 1] + g[s \ {n + 1}]
      BY <2>2
    <3>2. h[s \ {x}] = g[s \ {n + 1}]
      BY <2>1, <2>2
    <3> QED BY <2>2, <3>1, <3>2
  <2>3. CASE x # n + 1 /\ n + 1 \in s
    <3> DEFINE t == s \ {n + 1}
    <3>1. t \in SUBSET (1 .. n) /\ x \in t /\ t \ {x} \in SUBSET (1 .. n)
      BY <1>1, <2>3
    <3>2. g[t] = w[x] + g[t \ {x}] /\ g[t] \in Int /\ g[t \ {x}] \in Int
      BY <3>1 DEF Adds
    <3>3. h[s] = w[n + 1] + g[t]
      BY <2>3
    <3>4. (s \ {x}) \ {n + 1} = t \ {x} /\ n + 1 \in s \ {x}
      BY <2>3
    <3>5. h[s \ {x}] = w[n + 1] + g[t \ {x}]
      BY <2>1, <3>4
    <3> HIDE DEF h, t
    <3> QED BY <1>3, <2>1, <3>2, <3>3, <3>5
  <2>4. CASE n + 1 \notin s
    <3>1. s \in SUBSET (1 .. n) /\ n + 1 \notin s \ {x}
      BY <1>2, <2>4
    <3>2. h[s] = g[s] /\ h[s \ {x}] = g[s \ {x}]
      BY <2>1, <2>4, <3>1
    <3> HIDE DEF h
    <3> QED BY <3>1, <3>2 DEF Adds
  <2> QED BY <2>2, <2>3, <2>4
<1> HIDE DEF h
<1>7. Adds(h, w, n + 1)
  BY ONLY <1>4, <1>5, <1>6 DEF Adds
<1> QED BY <1>7

\* There is a sum for every number of places.
LEMMA SumExists ==
  ASSUME NEW n \in Nat, NEW w, Weights(w, n)
  PROVE  \E g : Adds(g, w, n)
<1> DEFINE S == {m \in Nat : m <= n => \E g : Adds(g, w, m)}
<1>1. 0 \in S
  <2> DEFINE g == [s \in SUBSET (1 .. 0) |-> 0]
  <2>1. 1 .. 0 = {}
    OBVIOUS
  <2>2. Adds(g, w, 0)
    BY <2>1 DEF Adds
  <2> QED BY <2>2
<1>2. ASSUME NEW m \in S PROVE m + 1 \in S
  <2>1. CASE m + 1 <= n
    <3>1. PICK g : Adds(g, w, m)
      BY <2>1
    <3>2. Weights(w, m + 1)
      BY <2>1 DEF Weights
    <3>3. \E h : Adds(h, w, m + 1)
      BY <3>1, <3>2, AddsOneMore
    <3> QED BY <3>3
  <2>2. CASE ~ (m + 1 <= n)
    BY <2>2
  <2> QED BY <2>1, <2>2
<1> HIDE DEF S
<1>3. S = Nat
  <2>1. S \subseteq Nat
    BY DEF S
  <2> QED BY <1>1, <1>2, <2>1, Induct
<1>4. n \in S
  BY <1>3
<1> QED BY <1>4 DEF S

(***************************************************************************)
(* Whatever takes the elements out of the set one by one, by any choice c, *)
(* and adds their weights to base comes to the same sum.                   *)
(***************************************************************************)
LEMMA AnyOrder ==
  ASSUME NEW n \in Nat, NEW w, Weights(w, n), NEW g, Adds(g, w, n), NEW base \in Int,
         NEW c, Picks(c, n), NEW h, Folds(h, base, c, w, n)
  PROVE  \A s \in SUBSET (1 .. n) : h[s] = base + g[s]
<1> DEFINE S == {k \in Nat : \A s \in SUBSET (1 .. n) :
                               Cardinality(s) = k => h[s] = base + g[s]}
<1>1. \A s \in SUBSET (1 .. n) : IsFiniteSet(s) /\ Cardinality(s) \in Nat
  <2>1. IsFiniteSet(1 .. n)
    BY FS_Interval
  <2> QED BY <2>1, FS_Subset, FS_CardinalityType
<1>2. 0 \in S
  <2> SUFFICES ASSUME NEW s \in SUBSET (1 .. n), Cardinality(s) = 0
               PROVE  h[s] = base + g[s]
    OBVIOUS
  <2>1. s = {}
    BY <1>1, FS_EmptySet
  <2>2. h[s] = base
    BY <2>1 DEF Folds
  <2> QED BY <2>1, <2>2 DEF Adds
<1>3. ASSUME NEW k \in S PROVE k + 1 \in S
  <2> SUFFICES ASSUME NEW s \in SUBSET (1 .. n), Cardinality(s) = k + 1
               PROVE  h[s] = base + g[s]
    OBVIOUS
  <2> DEFINE x == c[s]
             t == s \ {x}
  <2>1. k \in Nat /\ s # {}
    BY <1>1, FS_EmptySet
  <2>2. x \in s /\ t \in SUBSET (1 .. n)
    BY <2>1 DEF Picks
  <2>3. Cardinality(t) = k
    BY <1>1, <2>1, <2>2, FS_RemoveElement
  <2>4. h[t] = base + g[t]
    BY <2>2, <2>3
  <2>5. h[s] = w[x] + h[t]
    BY <2>1 DEF Folds
  <2>6. g[s] = w[x] + g[t] /\ g[t] \in Int /\ w[x] \in Int
    BY <2>2 DEF Adds, Weights
  <2> HIDE DEF x, t
  <2> QED BY <2>4, <2>5, <2>6
<1> HIDE DEF S
<1>4. S = Nat
  <2>1. S \subseteq Nat
    BY DEF S
  <2> QED BY <1>2, <1>3, <2>1, Induct
<1>5. ASSUME NEW s \in SUBSET (1 .. n) PROVE h[s] = base + g[s]
  <2>1. Cardinality(s) \in S
    BY <1>1, <1>4
  <2> QED BY <2>1 DEF S
<1> QED BY <1>5

-----------------------------------------------------------------------------
\* SumTo is the sum over all places.
LEMMA SumIsAdded ==
  ASSUME NEW n \in Nat, NEW w, Weights(w, n)
  PROVE  \E g : Adds(g, w, n) /\ SumTo(w, n) = g[1 .. n]
  BY SumExists DEF SumTo

\* All that add up the same weights agree.
LEMMA AddsAgree ==
  ASSUME NEW n \in Nat, NEW w, Weights(w, n), NEW g, Adds(g, w, n), NEW h, Adds(h, w, n)
  PROVE  \A s \in SUBSET (1 .. n) : h[s] = g[s]
<1> DEFINE c == [s \in SUBSET (1 .. n) |-> CHOOSE x \in s : TRUE]
<1>1. Picks(c, n)
  BY DEF Picks
<1> HIDE DEF c
<1>2. Folds(h, 0, c, w, n)
  BY <1>1 DEF Adds, Folds, Picks
<1>3. \A s \in SUBSET (1 .. n) : h[s] = 0 + g[s]
  BY <1>1, <1>2, AnyOrder
<1> QED BY <1>3 DEF Adds

\* The sum of no weights, and of one more.
LEMMA SumNext ==
  ASSUME NEW w
  PROVE  /\ SumTo(w, 0) = 0
         /\ \A n \in Nat : Weights(w, n) => SumTo(w, n) \in Int
         /\ \A n \in Nat : Weights(w, n + 1) => SumTo(w, n + 1) = SumTo(w, n) + w[n + 1]
<1>1. SumTo(w, 0) = 0
  <2>1. Weights(w, 0) /\ 1 .. 0 = {}
    BY DEF Weights
  <2> QED BY <2>1, SumIsAdded DEF Adds
<1>2. ASSUME NEW n \in Nat, Weights(w, n) PROVE SumTo(w, n) \in Int
  <2>1. PICK g : Adds(g, w, n) /\ SumTo(w, n) = g[1 .. n]
    BY <1>2, SumIsAdded
  <2> QED BY <2>1 DEF Adds
<1>3. ASSUME NEW n \in Nat, Weights(w, n + 1)
      PROVE  SumTo(w, n + 1) = SumTo(w, n) + w[n + 1]
  <2>1. PICK h : Adds(h, w, n + 1) /\ SumTo(w, n + 1) = h[1 .. n + 1]
    BY <1>3, SumIsAdded
  <2>2. Weights(w, n)
    BY <1>3 DEF Weights
  <2>3. PICK g : Adds(g, w, n) /\ SumTo(w, n) = g[1 .. n]
    BY <2>2, SumIsAdded
  <2> DEFINE k == [s \in SUBSET (1 .. n) |-> h[s]]
  <2>4. Adds(k, w, n)
    <3>1. SUBSET (1 .. n) \subseteq SUBSET (1 .. n + 1)
      OBVIOUS
    <3> QED BY <2>1, <3>1 DEF Adds
  <2>5. k[1 .. n] = g[1 .. n] /\ k[1 .. n] = h[1 .. n]
    BY <2>2, <2>3, <2>4, AddsAgree
  <2>6. h[1 .. n + 1] = w[n + 1] + h[1 .. n] /\ h[1 .. n] \in Int
    <3>1. n + 1 \in 1 .. n + 1 /\ (1 .. n + 1) \ {n + 1} = 1 .. n
      OBVIOUS
    <3>2. 1 .. n \in SUBSET (1 .. n + 1)
      OBVIOUS
    <3>3. \A s \in SUBSET (1 .. n + 1) : \A x \in s : h[s] = w[x] + h[s \ {x}]
      BY <2>1 DEF Adds
    <3>4. h[1 .. n + 1] = w[n + 1] + h[1 .. n]
      BY ONLY <3>1, <3>3
    <3>5. h[1 .. n] \in Int
      BY <2>1, <3>2 DEF Adds
    <3> QED BY <3>4, <3>5
  <2>7. w[n + 1] \in Int
    BY <1>3 DEF Weights
  <2> QED BY <2>1, <2>3, <2>5, <2>6, <2>7
<1> QED BY <1>1, <1>2, <1>3

\* Sums of the same weights are the same.
LEMMA SumOfSame ==
  ASSUME NEW n \in Nat, NEW w, Weights(w, n), NEW v, \A k \in 1 .. n : v[k] = w[k]
  PROVE  SumTo(v, n) = SumTo(w, n)
<1>1. Weights(v, n)
  BY DEF Weights
<1>2. PICK g : Adds(g, w, n) /\ SumTo(w, n) = g[1 .. n]
  BY SumIsAdded
<1>3. PICK h : Adds(h, v, n) /\ SumTo(v, n) = h[1 .. n]
  BY <1>1, SumIsAdded
<1>4. Adds(h, w, n)
  BY <1>3 DEF Adds
<1> QED BY <1>2, <1>3, <1>4, AddsAgree

\* One weight that changes changes the sum by as much.
LEMMA SumOfChanged ==
  ASSUME NEW n \in Nat, NEW w, Weights(w, n), NEW v, Weights(v, n),
         NEW x \in 1 .. n, \A k \in 1 .. n : k # x => v[k] = w[k]
  PROVE  SumTo(v, n) = SumTo(w, n) + v[x] - w[x]
<1>1. PICK g : Adds(g, w, n) /\ SumTo(w, n) = g[1 .. n]
  BY SumIsAdded
<1>2. PICK h : Adds(h, v, n) /\ SumTo(v, n) = h[1 .. n]
  BY SumIsAdded
<1> DEFINE k == [s \in SUBSET (1 .. n) |-> IF x \in s THEN h[s] - v[x] + w[x] ELSE h[s]]
<1>3. w[x] \in Int /\ v[x] \in Int
  BY DEF Weights
<1>4. Adds(k, w, n)
  <2>1. k \in [SUBSET (1 .. n) -> Int] /\ k[{}] = 0
    BY <1>2, <1>3 DEF Adds
  <2>2. ASSUME NEW s \in SUBSET (1 .. n), NEW y \in s
        PROVE  k[s] = w[y] + k[s \ {y}]
    <3>1. s \ {y} \in SUBSET (1 .. n) /\ h[s] = v[y] + h[s \ {y}]
          /\ h[s] \in Int /\ h[s \ {y}] \in Int /\ w[y] \in Int
      BY <1>2 DEF Adds, Weights
    <3>2. CASE y = x
      <4>1. k[s] = h[s] - v[x] + w[x] /\ k[s \ {y}] = h[s \ {y}]
        BY <3>1, <3>2
      <4> HIDE DEF k
      <4> QED BY <1>3, <3>1, <3>2, <4>1
    <3>3. CASE y # x /\ x \in s
      <4>1. k[s] = h[s] - v[x] + w[x] /\ k[s \ {y}] = h[s \ {y}] - v[x] + w[x] /\ v[y] = w[y]
        BY <3>1, <3>3
      <4> HIDE DEF k
      <4> QED BY <1>3, <3>1, <4>1
    <3>4. CASE x \notin s
      <4>1. k[s] = h[s] /\ k[s \ {y}] = h[s \ {y}] /\ v[y] = w[y]
        BY <3>1, <3>4
      <4> HIDE DEF k
      <4> QED BY <3>1, <4>1
    <3> QED BY <3>2, <3>3, <3>4
  <2> HIDE DEF k
  <2> QED BY <2>1, <2>2 DEF Adds
<1>5. k[1 .. n] = h[1 .. n] - v[x] + w[x]
  OBVIOUS
<1>6. k[1 .. n] = g[1 .. n]
  BY <1>1, <1>4, AddsAgree
<1>7. h[1 .. n] \in Int
  BY <1>2 DEF Adds
<1> HIDE DEF k
<1> QED BY <1>1, <1>2, <1>3, <1>5, <1>6, <1>7

\* A sum of natural numbers is one, and is at least each prefix of it.
LEMMA SumOfNats ==
  ASSUME NEW n \in Nat, NEW w, \A k \in 1 .. n : w[k] \in Nat
  PROVE  SumTo(w, n) \in Nat
<1> DEFINE S == {m \in Nat : m <= n => SumTo(w, m) \in Nat}
<1>1. 0 \in S
  BY SumNext
<1>2. ASSUME NEW m \in S PROVE m + 1 \in S
  <2>1. CASE m + 1 <= n
    <3>1. Weights(w, m + 1) /\ w[m + 1] \in Nat
      BY <2>1 DEF Weights
    <3> QED BY <2>1, <3>1, SumNext
  <2> QED BY <2>1
<1> HIDE DEF S
<1>3. S = Nat
  <2>1. S \subseteq Nat
    BY DEF S
  <2> QED BY <1>1, <1>2, <2>1, Induct
<1> QED BY <1>3 DEF S

-----------------------------------------------------------------------------
(***************************************************************************)
(* SumFunction, which the models add up with, gives this sum.              *)
(***************************************************************************)
LEMMA SumFunctionIsSum ==
  ASSUME NEW n \in Nat, NEW w, DOMAIN w = 1 .. n, Weights(w, n)
  PROVE  SumFunction(w) = SumTo(w, n)
<1> DEFINE P(h) == h = [s \in SUBSET (1 .. n) |->
                          IF s = {} THEN 0
                          ELSE w[CHOOSE x \in s : TRUE] + h[s \ {CHOOSE x \in s : TRUE}]]
           c == [s \in SUBSET (1 .. n) |-> CHOOSE x \in s : TRUE]
<1>1. SumFunction(w) = (CHOOSE h : P(h))[1 .. n]
  BY DEF SumFunction, SumFunctionOnSet, FoldFunctionOnSet, MapThenFoldSet
<1>2. PICK g : Adds(g, w, n) /\ SumTo(w, n) = g[1 .. n]
  BY SumIsAdded
<1>3. P(g)
  <2>1. \A s \in SUBSET (1 .. n) : s # {} => (CHOOSE x \in s : TRUE) \in s
    OBVIOUS
  <2>2. g \in [SUBSET (1 .. n) -> Int] /\ g[{}] = 0
        /\ \A s \in SUBSET (1 .. n) : \A x \in s : g[s] = w[x] + g[s \ {x}]
    BY <1>2 DEF Adds
  <2>3. \A s \in SUBSET (1 .. n) :
          g[s] = IF s = {} THEN 0
                 ELSE w[CHOOSE x \in s : TRUE] + g[s \ {CHOOSE x \in s : TRUE}]
    <3> TAKE s \in SUBSET (1 .. n)
    <3>1. CASE s = {}
      BY ONLY <2>2, <3>1
    <3>2. CASE s # {}
      <4> DEFINE x == CHOOSE y \in s : TRUE
      <4>1. x \in s
        BY ONLY <2>1, <3>2, s \in SUBSET (1 .. n)
      <4> HIDE DEF x
      <4>2. g[s] = w[x] + g[s \ {x}]
        BY ONLY <2>2, <4>1, s \in SUBSET (1 .. n)
      <4> QED BY <3>2, <4>2 DEF x
    <3> QED BY <3>1, <3>2
  <2> QED BY ONLY <2>2, <2>3
<1>4. ASSUME NEW h, P(h) PROVE h[1 .. n] = g[1 .. n]
  <2>1. Picks(c, n)
    BY DEF Picks
  <2>2. Folds(h, 0, c, w, n)
    BY <1>4 DEF Folds
  <2>3. \A s \in SUBSET (1 .. n) : h[s] = 0 + g[s]
    BY <1>2, <2>1, <2>2, AnyOrder
  <2>4. 1 .. n \in SUBSET (1 .. n)
    OBVIOUS
  <2>5. g[1 .. n] \in Int
    BY <1>2, <2>4 DEF Adds
  <2> QED BY <2>3, <2>4, <2>5
<1> HIDE DEF P
<1> QED BY <1>1, <1>2, <1>3, <1>4

\* The sum of a sequence of integers is one; of natural numbers, too.
LEMMA SumType ==
  ASSUME NEW n \in Nat, NEW w, DOMAIN w = 1 .. n
  PROVE  /\ Weights(w, n) => SumFunction(w) \in Int
         /\ (\A k \in 1 .. n : w[k] \in Nat) => SumFunction(w) \in Nat
         /\ n = 0 => SumFunction(w) = 0
<1>1. ASSUME Weights(w, n) PROVE SumFunction(w) \in Int
  BY <1>1, SumFunctionIsSum, SumNext
<1>2. ASSUME \A k \in 1 .. n : w[k] \in Nat PROVE SumFunction(w) \in Nat
  <2>1. Weights(w, n)
    BY <1>2 DEF Weights
  <2> QED BY <1>2, <2>1, SumFunctionIsSum, SumOfNats
<1>3. ASSUME n = 0 PROVE SumFunction(w) = 0
  <2>1. Weights(w, n)
    BY <1>3 DEF Weights
  <2> QED BY <1>3, <2>1, SumFunctionIsSum, SumNext
<1> QED BY <1>1, <1>2, <1>3

\* One more element at the end adds its weight.
LEMMA SumGrows ==
  ASSUME NEW n \in Nat, NEW w, DOMAIN w = 1 .. n,
         NEW v, DOMAIN v = 1 .. n + 1, Weights(v, n + 1),
         \A k \in 1 .. n : v[k] = w[k]
  PROVE  SumFunction(v) = SumFunction(w) + v[n + 1]
<1>1. Weights(v, n) /\ Weights(w, n)
  BY DEF Weights
<1>2. SumFunction(v) = SumTo(v, n + 1) /\ SumFunction(w) = SumTo(w, n)
  BY <1>1, SumFunctionIsSum
<1>3. SumTo(v, n + 1) = SumTo(v, n) + v[n + 1]
  BY SumNext
<1>4. SumTo(v, n) = SumTo(w, n)
  BY <1>1, SumOfSame
<1> QED BY <1>2, <1>3, <1>4

\* An element that changes changes the sum by as much.
LEMMA SumChanges ==
  ASSUME NEW n \in Nat, NEW w, DOMAIN w = 1 .. n, Weights(w, n),
         NEW v, DOMAIN v = 1 .. n, Weights(v, n),
         NEW x \in 1 .. n, \A k \in 1 .. n : k # x => v[k] = w[k]
  PROVE  SumFunction(v) = SumFunction(w) + v[x] - w[x]
<1>1. SumFunction(v) = SumTo(v, n) /\ SumFunction(w) = SumTo(w, n)
  BY SumFunctionIsSum
<1> QED BY <1>1, SumOfChanged

\* Sums of the same elements are the same.
LEMMA SumAgrees ==
  ASSUME NEW n \in Nat, NEW w, DOMAIN w = 1 .. n, Weights(w, n),
         NEW v, DOMAIN v = 1 .. n, \A k \in 1 .. n : v[k] = w[k]
  PROVE  SumFunction(v) = SumFunction(w)
<1>1. Weights(v, n)
  BY DEF Weights
<1>2. SumFunction(v) = SumTo(v, n) /\ SumFunction(w) = SumTo(w, n)
  BY <1>1, SumFunctionIsSum
<1> QED BY <1>2, SumOfSame

-----------------------------------------------------------------------------
(***************************************************************************)
(* Sums that are compared with each other.                                 *)
(***************************************************************************)

\* The sum of sums is the sum of both.
LEMMA SumSplits ==
  ASSUME NEW n \in Nat, NEW u, DOMAIN u = 1 .. n, NEW v, DOMAIN v = 1 .. n, Weights(v, n),
         NEW w, DOMAIN w = 1 .. n, Weights(w, n), \A k \in 1 .. n : u[k] = v[k] + w[k]
  PROVE  SumFunction(u) = SumFunction(v) + SumFunction(w)
<1> DEFINE T == {m \in Nat : m <= n => SumTo(u, m) = SumTo(v, m) + SumTo(w, m)}
<1>1. ASSUME NEW m \in Nat, m <= n PROVE Weights(u, m) /\ Weights(v, m) /\ Weights(w, m)
  BY <1>1 DEF Weights
<1>2. 0 \in T
  BY SumNext
<1>3. ASSUME NEW m \in T PROVE m + 1 \in T
  <2>1. CASE m + 1 <= n
    <3>1. m \in Nat /\ m <= n /\ m + 1 \in 1 .. n
      BY <2>1
    <3>2. SumTo(u, m) = SumTo(v, m) + SumTo(w, m)
      BY <3>1
    <3>3. Weights(u, m + 1) /\ Weights(v, m + 1) /\ Weights(w, m + 1)
          /\ Weights(v, m) /\ Weights(w, m)
      BY <1>1, <2>1, <3>1
    <3>4. /\ SumTo(u, m + 1) = SumTo(u, m) + u[m + 1] /\ SumTo(v, m + 1) = SumTo(v, m) + v[m + 1]
          /\ SumTo(w, m + 1) = SumTo(w, m) + w[m + 1]
          /\ SumTo(v, m) \in Int /\ SumTo(w, m) \in Int
      BY <3>1, <3>3, SumNext
    <3>5. u[m + 1] = v[m + 1] + w[m + 1] /\ v[m + 1] \in Int /\ w[m + 1] \in Int
      BY <3>1 DEF Weights
    <3> QED BY <3>1, <3>2, <3>4, <3>5
  <2> QED BY <2>1
<1> HIDE DEF T
<1>4. n \in T
  <2>1. T \subseteq Nat
    BY DEF T
  <2> QED BY <1>2, <1>3, <2>1, Induct
<1>5. SumTo(u, n) = SumTo(v, n) + SumTo(w, n)
  BY <1>4 DEF T
<1>6. Weights(u, n)
  BY <1>1
<1> QED BY <1>5, <1>6, SumFunctionIsSum

\* Smaller elements have a smaller sum.
LEMMA SumAtMost ==
  ASSUME NEW n \in Nat, NEW v, DOMAIN v = 1 .. n, Weights(v, n),
         NEW w, DOMAIN w = 1 .. n, Weights(w, n), \A k \in 1 .. n : v[k] <= w[k]
  PROVE  SumFunction(v) <= SumFunction(w)
<1> DEFINE d == [k \in 1 .. n |-> w[k] - v[k]]
<1>1. DOMAIN d = 1 .. n /\ Weights(d, n)
  BY DEF Weights
<1>2. \A k \in 1 .. n : w[k] = v[k] + d[k]
  BY DEF Weights
<1>3. \A k \in 1 .. n : d[k] \in Nat
  BY DEF Weights
<1> HIDE DEF d
<1>4. SumFunction(w) = SumFunction(v) + SumFunction(d)
  BY <1>1, <1>2, SumSplits
<1>5. SumFunction(d) \in Nat
  BY <1>1, <1>3, SumType
<1>6. SumFunction(v) \in Int
  BY SumType
<1> QED BY <1>4, <1>5, <1>6

\* A sum of natural numbers is at least what its first elements add up to.
LEMMA SumOfPart ==
  ASSUME NEW n \in Nat, NEW w, DOMAIN w = 1 .. n, \A k \in 1 .. n : w[k] \in Nat,
         NEW m \in 0 .. n, NEW v, DOMAIN v = 1 .. m, \A k \in 1 .. m : v[k] = w[k]
  PROVE  SumFunction(v) <= SumFunction(w)
<1> DEFINE T == {l \in Nat : l \in m .. n => SumTo(w, m) <= SumTo(w, l)}
<1>1. \A l \in 0 .. n : Weights(w, l)
  BY DEF Weights
<1>2. \A l \in 0 .. n : SumTo(w, l) \in Int
  BY <1>1, SumNext
<1>3. 0 \in T
  BY <1>2
<1>4. ASSUME NEW l \in T PROVE l + 1 \in T
  <2>1. CASE l + 1 \in m .. n /\ l >= m
    <3>1. l \in 0 .. n /\ l + 1 \in 0 .. n /\ l + 1 \in 1 .. n /\ SumTo(w, m) <= SumTo(w, l)
      BY <2>1
    <3>2. SumTo(w, l + 1) = SumTo(w, l) + w[l + 1] /\ w[l + 1] \in Nat
      BY <1>1, <3>1, SumNext
    <3> QED BY <1>2, <3>1, <3>2
  <2>2. CASE l + 1 \in m .. n /\ ~ (l >= m)
    <3>1. l + 1 = m
      BY <2>2
    <3> QED BY <1>2, <3>1
  <2> QED BY <2>1, <2>2
<1> HIDE DEF T
<1>5. n \in T
  <2>1. T \subseteq Nat
    BY DEF T
  <2> QED BY <1>3, <1>4, <2>1, Induct
<1>6. SumTo(w, m) <= SumTo(w, n)
  BY <1>5 DEF T
<1>7. SumFunction(w) = SumTo(w, n)
  BY <1>1, SumFunctionIsSum
<1>8. SumFunction(v) = SumTo(v, m)
  <2>1. Weights(v, m)
    BY DEF Weights
  <2> QED BY <2>1, SumFunctionIsSum
<1>9. SumTo(v, m) = SumTo(w, m)
  BY <1>1, SumOfSame
<1> QED BY <1>6, <1>7, <1>8, <1>9

-----------------------------------------------------------------------------
(***************************************************************************)
(* FlattenSeq, which the models string lists together with.                *)
(***************************************************************************)

\* f strings the first n lists of ss together, for every n.
Strings(f, ss) ==
  \A i \in 1 .. Len(ss) : f[i] = IF i = 1 THEN ss[1] ELSE f[i - 1] \o ss[i]

\* There is such a function.
LEMMA StringsExist ==
  ASSUME NEW S, NEW ss \in Seq(Seq(S))
  PROVE  \E f \in [1 .. Len(ss) -> Seq(S)] : Strings(f, ss)
<1> DEFINE Some(n) == \E f \in [1 .. n -> Seq(S)] : \A i \in 1 .. n :
                        f[i] = IF i = 1 THEN ss[1] ELSE f[i - 1] \o ss[i]
           T == {n \in Nat : n <= Len(ss) => Some(n)}
<1>1. 0 \in T
  <2> DEFINE f == [i \in 1 .. 0 |-> ss[i]]
  <2>1. f \in [1 .. 0 -> Seq(S)]
    OBVIOUS
  <2>2. \A i \in 1 .. 0 : f[i] = IF i = 1 THEN ss[1] ELSE f[i - 1] \o ss[i]
    OBVIOUS
  <2> HIDE DEF f
  <2>3. Some(0)
    BY <2>1, <2>2
  <2> HIDE DEF Some
  <2> QED BY <2>3
<1>2. ASSUME NEW n \in T PROVE n + 1 \in T
  <2> SUFFICES ASSUME n + 1 <= Len(ss) PROVE Some(n + 1)
    <3> HIDE DEF Some
    <3> QED OBVIOUS
  <2>1. PICK f \in [1 .. n -> Seq(S)] : \A i \in 1 .. n :
               f[i] = IF i = 1 THEN ss[1] ELSE f[i - 1] \o ss[i]
    <3> HIDE DEF Some
    <3>1. n \in Nat /\ Len(ss) \in Nat /\ (n <= Len(ss) => Some(n))
      OBVIOUS
    <3>2. Some(n)
      BY <3>1
    <3> QED BY <3>2 DEF Some
  <2> DEFINE last == IF n = 0 THEN ss[1] ELSE f[n] \o ss[n + 1]
             g == [i \in 1 .. n + 1 |-> IF i = n + 1 THEN last ELSE f[i]]
  <2>2. ss[n + 1] \in Seq(S)
    OBVIOUS
  <2>3. last \in Seq(S)
    <3>1. CASE n = 0
      BY <2>2, <3>1
    <3>2. CASE n # 0
      <4>1. f[n] \in Seq(S)
        BY <3>2
      <4> QED BY <2>2, <3>2, <4>1, ConcatProperties
    <3> QED BY <3>1, <3>2
  <2>4. g \in [1 .. n + 1 -> Seq(S)]
    <3> HIDE DEF last
    <3> QED BY <2>3
  <2>5. ASSUME NEW i \in 1 .. n + 1
        PROVE  g[i] = IF i = 1 THEN ss[1] ELSE g[i - 1] \o ss[i]
    <3>1. CASE i = n + 1
      <4>1. n # 0 => g[n] = f[n]
        OBVIOUS
      <4> QED BY <3>1, <4>1
    <3>2. CASE i # n + 1
      <4>1. i \in 1 .. n /\ g[i] = f[i] /\ (i # 1 => g[i - 1] = f[i - 1])
        BY <3>2
      <4> HIDE DEF g
      <4> QED BY <2>1, <4>1
    <3> QED BY <3>1, <3>2
  <2> HIDE DEF g
  <2> QED BY <2>4, <2>5
<1> HIDE DEF T
<1>3. T = Nat
  <2>1. T \subseteq Nat
    BY DEF T
  <2> QED BY <1>1, <1>2, <2>1, Induct
<1>4. Some(Len(ss))
  <2> HIDE DEF Some
  <2>1. Len(ss) \in Nat /\ Len(ss) <= Len(ss)
    OBVIOUS
  <2> QED BY <1>3, <2>1 DEF T
<1> QED BY <1>4 DEF Strings

\* ss and tt have n elements and begin with the same.
Alike(ss, tt, n) ==
  /\ Len(ss) \in Nat /\ Len(tt) \in Nat /\ n <= Len(ss) /\ n <= Len(tt)
  /\ \A i \in 1 .. n : ss[i] = tt[i]

\* Such functions agree where both are defined.
LEMMA StringsAgree ==
  ASSUME NEW ss, NEW tt, NEW n \in Nat, Alike(ss, tt, n),
         NEW f, Strings(f, ss), NEW g, Strings(g, tt)
  PROVE  \A i \in 1 .. n : f[i] = g[i]
<1> DEFINE T == {i \in Nat : i \in 1 .. n => f[i] = g[i]}
<1>1. 0 \in T
  OBVIOUS
<1>2. ASSUME NEW i \in T PROVE i + 1 \in T
  <2> SUFFICES ASSUME i + 1 \in 1 .. n PROVE f[i + 1] = g[i + 1]
    OBVIOUS
  <2>1. i + 1 \in 1 .. Len(ss) /\ i + 1 \in 1 .. Len(tt) /\ ss[i + 1] = tt[i + 1]
        /\ (i + 1) - 1 = i
    BY DEF Alike
  <2>2. i + 1 # 1 => f[i] = g[i]
    OBVIOUS
  <2> HIDE DEF T
  <2>3. f[i + 1] = IF i + 1 = 1 THEN ss[1] ELSE f[i] \o ss[i + 1]
    BY <2>1 DEF Strings
  <2>4. g[i + 1] = IF i + 1 = 1 THEN tt[1] ELSE g[i] \o tt[i + 1]
    BY <2>1 DEF Strings
  <2> QED BY <2>1, <2>2, <2>3, <2>4
<1> HIDE DEF T
<1>3. T = Nat
  <2>1. T \subseteq Nat
    BY DEF T
  <2> QED BY <1>1, <1>2, <2>1, Induct
<1> QED BY <1>3 DEF T

\* FlattenSeq is what any of them comes to.
LEMMA FlattenIsStrung ==
  ASSUME NEW S, NEW ss \in Seq(Seq(S)), ss # <<>>,
         NEW f \in [1 .. Len(ss) -> Seq(S)], Strings(f, ss)
  PROVE  FlattenSeq(ss) = f[Len(ss)]
<1> DEFINE P(h) == h = [i \in 1 .. Len(ss) |-> IF i = 1 THEN ss[i] ELSE h[i - 1] \o ss[i]]
<1>1. Len(ss) \in Nat /\ Len(ss) # 0
  BY EmptySeq
<1>2. FlattenSeq(ss) = (CHOOSE h : P(h))[Len(ss)]
  BY <1>1 DEF FlattenSeq
<1>3. P(f)
  <2> DEFINE e == [i \in 1 .. Len(ss) |-> IF i = 1 THEN ss[i] ELSE f[i - 1] \o ss[i]]
  <2>1. \A i \in 1 .. Len(ss) : f[i] = e[i]
    BY DEF Strings
  <2>2. f = [i \in 1 .. Len(ss) |-> f[i]]
    OBVIOUS
  <2> QED BY <2>1, <2>2
<1>4. ASSUME NEW h, P(h) PROVE h[Len(ss)] = f[Len(ss)]
  <2>1. Strings(h, ss)
    BY <1>4 DEF Strings
  <2>2. \A i \in 1 .. Len(ss) : h[i] = f[i]
    <3> HIDE DEF P
    <3>1. Alike(ss, ss, Len(ss))
      BY <1>1 DEF Alike
    <3> QED BY <1>1, <2>1, <3>1, StringsAgree
  <2> QED BY <1>1, <2>2
<1> HIDE DEF P
<1> QED BY <1>2, <1>3, <1>4

\* No lists make an empty one; lists over S make a list over S; one list more is
\* strung to the end.
LEMMA FlattenSeqGrows ==
  ASSUME NEW S, NEW ss \in Seq(Seq(S)), NEW s \in Seq(S)
  PROVE  /\ FlattenSeq(<<>>) = <<>>
         /\ FlattenSeq(ss) \in Seq(S)
         /\ FlattenSeq(Append(ss, s)) = FlattenSeq(ss) \o s
<1>1. FlattenSeq(<<>>) = <<>>
  BY EmptySeq DEF FlattenSeq
<1>2. ss # <<>> => Len(ss) \in 1 .. Len(ss)
  BY EmptySeq
<1>3. PICK f \in [1 .. Len(ss) -> Seq(S)] : Strings(f, ss)
  BY StringsExist
<1>4. FlattenSeq(ss) \in Seq(S)
  <2>1. CASE ss = <<>>
    <3>1. FlattenSeq(ss) = <<>>
      BY <1>1, <2>1
    <3> QED BY <3>1, EmptySeq
  <2>2. CASE ss # <<>>
    <3>1. FlattenSeq(ss) = f[Len(ss)]
      BY <1>3, <2>2, FlattenIsStrung
    <3>2. Len(ss) \in 1 .. Len(ss)
      BY <1>2, <2>2
    <3> QED BY <1>3, <3>1, <3>2
  <2> QED BY <2>1, <2>2
<1> DEFINE tt == Append(ss, s)
<1>5. tt \in Seq(Seq(S)) /\ tt # <<>> /\ Len(tt) = Len(ss) + 1 /\ tt[Len(ss) + 1] = s
      /\ \A i \in 1 .. Len(ss) : tt[i] = ss[i]
  <2>1. Len(ss) \in Nat
    OBVIOUS
  <2>2. /\ tt \in Seq(Seq(S)) /\ Len(tt) = Len(ss) + 1 /\ tt[Len(ss) + 1] = s
        /\ \A i \in 1 .. Len(ss) : tt[i] = ss[i]
    BY AppendProperties
  <2>3. tt # <<>>
    <3> HIDE DEF tt
    <3>1. Len(tt) # 0
      BY <2>1, <2>2
    <3> QED BY <3>1
  <2> QED BY <2>2, <2>3
<1> HIDE DEF tt
<1>6. PICK g \in [1 .. Len(tt) -> Seq(S)] : Strings(g, tt)
  BY <1>5, StringsExist
<1>7. FlattenSeq(tt) = g[Len(ss) + 1]
  BY <1>5, <1>6, FlattenIsStrung
<1>8. g[Len(ss) + 1] = FlattenSeq(ss) \o s
  <2>1. CASE ss = <<>>
    <3>1. Len(ss) = 0
      BY <2>1
    <3>2. g[1] = s
      BY <1>5, <1>6, <3>1 DEF Strings
    <3> QED BY <1>1, <2>1, <3>1, <3>2
  <2>2. CASE ss # <<>>
    <3>1. Len(ss) \in Nat /\ Len(ss) >= 1
      BY <1>2, <2>2
    <3>2. Len(tt) \in Nat /\ Len(ss) <= Len(tt)
      BY <1>5, <3>1
    <3>3. \A i \in 1 .. Len(ss) : f[i] = g[i]
      <4>1. Alike(ss, tt, Len(ss))
        BY <1>5, <3>1, <3>2 DEF Alike
      <4>2. Strings(f, ss) /\ Strings(g, tt)
        BY <1>3, <1>6
      <4> QED BY ONLY <3>1, <4>1, <4>2, StringsAgree
    <3>4. g[Len(ss) + 1] = g[Len(ss)] \o s
      <4>1. Len(ss) + 1 \in 1 .. Len(tt) /\ Len(ss) + 1 # 1 /\ (Len(ss) + 1) - 1 = Len(ss)
        BY <1>5, <3>1
      <4>2. Strings(g, tt) /\ tt[Len(ss) + 1] = s
        BY <1>5, <1>6
      <4> QED BY ONLY <4>1, <4>2 DEF Strings
    <3>5. FlattenSeq(ss) = f[Len(ss)]
      BY <1>3, <2>2, FlattenIsStrung
    <3>6. g[Len(ss)] = f[Len(ss)]
      BY <3>1, <3>3
    <3> QED BY <3>4, <3>5, <3>6
  <2> QED BY <2>1, <2>2
<1> QED BY <1>1, <1>4, <1>5, <1>7, <1>8 DEF tt

\* s and t have as many elements, which are related by R, place by place.
Paired(s, t, R) == Len(s) = Len(t) /\ \A i \in 1 .. Len(s) : <<s[i], t[i]>> \in R

\* Paired lists can be strung together.
LEMMA PairedConcat ==
  ASSUME NEW S, NEW T, NEW R, NEW s1 \in Seq(S), NEW s2 \in Seq(S),
         NEW t1 \in Seq(T), NEW t2 \in Seq(T), Paired(s1, t1, R), Paired(s2, t2, R)
  PROVE  Paired(s1 \o s2, t1 \o t2, R)
<1> DEFINE n == Len(s1)
           m == Len(s2)
           s == s1 \o s2
           t == t1 \o t2
<1>1. /\ n \in Nat /\ m \in Nat /\ Len(t1) = n /\ Len(t2) = m
      /\ Len(s) = n + m /\ Len(t) = n + m
      /\ \A i \in 1 .. n + m : s[i] = IF i <= n THEN s1[i] ELSE s2[i - n]
      /\ \A i \in 1 .. n + m : t[i] = IF i <= n THEN t1[i] ELSE t2[i - n]
  <2>1. /\ Len(s) = n + m /\ n \in Nat /\ m \in Nat
        /\ \A i \in 1 .. n + m : s[i] = IF i <= n THEN s1[i] ELSE s2[i - n]
    BY ConcatProperties
  <2>2. /\ Len(t) = Len(t1) + Len(t2)
        /\ \A i \in 1 .. Len(t1) + Len(t2) :
             t[i] = IF i <= Len(t1) THEN t1[i] ELSE t2[i - Len(t1)]
    BY ConcatProperties
  <2>3. Len(t1) = n /\ Len(t2) = m
    BY DEF Paired
  <2> HIDE DEF s, t, n, m
  <2> QED BY <2>1, <2>2, <2>3
<1>2. /\ \A i \in 1 .. n : <<s1[i], t1[i]>> \in R
      /\ \A i \in 1 .. m : <<s2[i], t2[i]>> \in R
  BY <1>1 DEF Paired
<1> HIDE DEF n, m, s, t
<1>3. ASSUME NEW i \in 1 .. n + m PROVE <<s[i], t[i]>> \in R
  <2>1. CASE i <= n
    BY <1>1, <1>2, <2>1
  <2>2. CASE ~ (i <= n)
    <3>1. i - n \in 1 .. m
      BY <1>1, <2>2
    <3> QED BY <1>1, <1>2, <2>2, <3>1
  <2> QED BY <2>1, <2>2
<1>4. Paired(s, t, R)
  BY <1>1, <1>3 DEF Paired
<1> QED BY <1>4 DEF s, t

\* Lists that are paired one by one are paired when they are strung together.
LEMMA FlattenSeqPairs ==
  ASSUME NEW S, NEW T, NEW R, NEW ss \in Seq(Seq(S)), NEW tt \in Seq(Seq(T)),
         Len(ss) = Len(tt), \A k \in 1 .. Len(ss) : Paired(ss[k], tt[k], R)
  PROVE  Paired(FlattenSeq(ss), FlattenSeq(tt), R)
<1> DEFINE n == Len(ss)
<1>1. n \in Nat
  OBVIOUS
<1>2. CASE n = 0
  <2>1. ss = <<>> /\ tt = <<>>
    BY <1>2, EmptySeq
  <2>2. FlattenSeq(<<>>) = <<>>
    BY FlattenSeqGrows, EmptySeq
  <2> QED BY <2>1, <2>2 DEF Paired
<1>3. CASE n # 0
  <2>1. ss # <<>> /\ tt # <<>>
    BY <1>3
  <2>2. PICK f \in [1 .. Len(ss) -> Seq(S)] : Strings(f, ss)
    BY StringsExist
  <2>3. PICK g \in [1 .. Len(tt) -> Seq(T)] : Strings(g, tt)
    BY StringsExist
  <2>4. FlattenSeq(ss) = f[n]
    BY <2>1, <2>2, FlattenIsStrung
  <2>5. FlattenSeq(tt) = g[n]
    BY <2>1, <2>3, FlattenIsStrung
  <2> DEFINE U == {m \in Nat : m \in 1 .. n => Paired(f[m], g[m], R)}
  <2>6. 0 \in U
    OBVIOUS
  <2>7. ASSUME NEW m \in U PROVE m + 1 \in U
    <3> SUFFICES ASSUME m + 1 \in 1 .. n PROVE Paired(f[m + 1], g[m + 1], R)
      OBVIOUS
    <3>1. /\ m \in Nat /\ m + 1 \in 1 .. Len(ss) /\ m + 1 \in 1 .. Len(tt) /\ (m + 1) - 1 = m
          /\ m # 0 => m \in 1 .. Len(ss) /\ m \in 1 .. Len(tt) /\ Paired(f[m], g[m], R)
      OBVIOUS
    <3> HIDE DEF U, n
    <3>2. /\ f[m + 1] = IF m + 1 = 1 THEN ss[1] ELSE f[m] \o ss[m + 1]
          /\ g[m + 1] = IF m + 1 = 1 THEN tt[1] ELSE g[m] \o tt[m + 1]
      BY <2>2, <2>3, <3>1 DEF Strings
    <3>3. Paired(ss[m + 1], tt[m + 1], R) /\ ss[m + 1] \in Seq(S) /\ tt[m + 1] \in Seq(T)
      BY <3>1
    <3>4. CASE m = 0
      BY <3>2, <3>3, <3>4
    <3>5. CASE m # 0
      <4>1. f[m] \in Seq(S) /\ g[m] \in Seq(T) /\ Paired(f[m], g[m], R)
        BY <2>2, <2>3, <3>1, <3>5
      <4>2. Paired(f[m] \o ss[m + 1], g[m] \o tt[m + 1], R)
        BY <3>3, <4>1, PairedConcat
      <4> QED BY <3>1, <3>2, <3>5, <4>2
    <3> QED BY <3>4, <3>5
  <2> HIDE DEF U
  <2>8. n \in U
    <3>1. U \subseteq Nat
      BY DEF U
    <3> QED BY <1>1, <2>6, <2>7, <3>1, Induct
  <2>9. Paired(f[n], g[n], R)
    <3>1. n \in 1 .. n
      BY <1>1, <1>3
    <3> QED BY <2>8, <3>1 DEF U
  <2> QED BY <2>4, <2>5, <2>9
<1> QED BY <1>2, <1>3

\* The elements of lists that are strung together are those of the lists.
LEMMA FlattenSeqElements ==
  ASSUME NEW S, NEW ss \in Seq(Seq(S)), NEW x
  PROVE  x \in Range(FlattenSeq(ss)) <=> \E k \in 1 .. Len(ss) : x \in Range(ss[k])
<1> DEFINE n == Len(ss)
<1>1. n \in Nat
  OBVIOUS
<1>2. CASE n = 0
  <2>1. ss = <<>>
    BY <1>2, EmptySeq
  <2>2. FlattenSeq(<<>>) = <<>>
    BY FlattenSeqGrows, EmptySeq
  <2>3. Range(<<>>) = {}
    BY DEF Range
  <2> QED BY <1>2, <2>1, <2>2, <2>3
<1>3. CASE n # 0
  <2>1. ss # <<>>
    BY <1>3
  <2>2. PICK f \in [1 .. Len(ss) -> Seq(S)] : Strings(f, ss)
    BY StringsExist
  <2>3. FlattenSeq(ss) = f[n]
    BY <2>1, <2>2, FlattenIsStrung
  <2> DEFINE Has(m) == x \in Range(f[m]) <=> \E k \in 1 .. m : x \in Range(ss[k])
             U == {m \in Nat : m \in 1 .. n => Has(m)}
  <2>4. 0 \in U
    OBVIOUS
  <2>5. ASSUME NEW m \in U PROVE m + 1 \in U
    <3> SUFFICES ASSUME m + 1 \in 1 .. n PROVE Has(m + 1)
      BY DEF U
    <3>1. /\ m \in Nat /\ m + 1 \in 1 .. Len(ss) /\ (m + 1) - 1 = m
          /\ m # 0 => m \in 1 .. Len(ss) /\ Has(m)
      OBVIOUS
    <3> HIDE DEF U, n
    <3>2. f[m + 1] = IF m + 1 = 1 THEN ss[1] ELSE f[m] \o ss[m + 1]
      BY <2>2, <3>1 DEF Strings
    <3>3. ss[m + 1] \in Seq(S)
      BY <3>1
    <3>4. CASE m = 0
      BY <3>2, <3>4
    <3>5. CASE m # 0
      <4>1. f[m] \in Seq(S) /\ Has(m)
        BY <2>2, <3>1, <3>5
      <4>2. Range(f[m] \o ss[m + 1]) = Range(f[m]) \cup Range(ss[m + 1])
        BY <3>3, <4>1, RangeConcatenation
      <4>3. f[m + 1] = f[m] \o ss[m + 1]
        BY <3>1, <3>2, <3>5
      <4>4. \A k : k \in 1 .. m + 1 <=> k \in 1 .. m \/ k = m + 1
        BY <3>1
      <4> QED BY <4>1, <4>2, <4>3, <4>4
    <3> QED BY <3>4, <3>5
  <2> HIDE DEF U
  <2>6. n \in U
    <3>1. U \subseteq Nat
      BY DEF U
    <3> QED BY <1>1, <2>4, <2>5, <3>1, Induct
  <2>7. Has(n)
    <3>1. n \in 1 .. n
      BY <1>1, <1>3
    <3> QED BY <2>6, <3>1 DEF U
  <2> QED BY <2>3, <2>7
<1> QED BY <1>2, <1>3

-----------------------------------------------------------------------------
(* Induction over a list, and lists one behind the other.                  *)

\* Induction over a list, from its front to its end.
LEMMA SeqInduct ==
  ASSUME NEW S, NEW A, A \subseteq Seq(S), <<>> \in A,
         \A s \in A : \A e \in S : Append(s, e) \in A
  PROVE  A = Seq(S)
<1> DEFINE U == {n \in Nat : \A s \in Seq(S) : Len(s) = n => s \in A}
<1>1. U \subseteq Nat /\ 0 \in U
  BY EmptySeq
<1>2. ASSUME NEW n \in U PROVE n + 1 \in U
  <2>1. n \in Nat /\ \A s \in Seq(S) : Len(s) = n => s \in A
    OBVIOUS
  <2> SUFFICES ASSUME NEW s \in Seq(S), Len(s) = n + 1 PROVE s \in A
    BY <2>1
  <2> HIDE DEF U
  <2> DEFINE f == SubSeq(s, 1, n)
  <2>2. f \in Seq(S) /\ Len(f) = n /\ s[n + 1] \in S
    BY <2>1
  <2>3. \A k \in 1 .. n : f[k] = s[k]
    BY <2>1
  <2> HIDE DEF f
  <2>4. s = Append(f, s[n + 1])
    <3> DEFINE t == Append(f, s[n + 1])
    <3>1. /\ t \in Seq(S) /\ Len(t) = Len(f) + 1 /\ t[Len(f) + 1] = s[n + 1]
          /\ \A k \in 1 .. Len(f) : t[k] = f[k]
      BY <2>2, AppendProperties
    <3> HIDE DEF t
    <3>2. \A k \in 1 .. Len(t) : t[k] = s[k]
      <4>1. Len(t) = n + 1 /\ t[n + 1] = s[n + 1] /\ \A k \in 1 .. n : t[k] = s[k]
        BY <2>2, <2>3, <3>1
      <4>2. \A k \in 1 .. n + 1 : k \in 1 .. n \/ k = n + 1
        BY <2>1
      <4> QED BY <4>1, <4>2
    <3>3. t = s
      BY <2>2, <3>1, <3>2, SeqEqual
    <3> QED BY <3>3 DEF t
  <2> QED BY <2>1, <2>2, <2>4
<1> HIDE DEF U
<1>3. U = Nat
  BY <1>1, <1>2, Induct
<1>4. ASSUME NEW s \in Seq(S) PROVE s \in A
  <2>1. Len(s) \in U
    BY <1>3
  <2> QED BY <2>1 DEF U
<1> QED BY <1>4

\* The sum over two lists, one behind the other.
LEMMA SumConcat ==
  ASSUME NEW s \in Seq(Int), NEW t \in Seq(Int)
  PROVE  /\ SumFunction(s \o t) = SumFunction(s) + SumFunction(t)
         /\ SumFunction(s) \in Int /\ SumFunction(t) \in Int
<1> DEFINE A == {u \in Seq(Int) : SumFunction(s \o u) = SumFunction(s) + SumFunction(u)}
<1>1. \A u \in Seq(Int) : /\ Len(u) \in Nat /\ DOMAIN u = 1 .. Len(u) /\ Weights(u, Len(u))
                          /\ SumFunction(u) \in Int
  <2> TAKE u \in Seq(Int)
  <2>1. Len(u) \in Nat /\ DOMAIN u = 1 .. Len(u) /\ Weights(u, Len(u))
    BY DEF Weights
  <2> QED BY <2>1, SumType
<1>2. \A u \in Seq(Int), e \in Int : SumFunction(Append(u, e)) = SumFunction(u) + e
  <2> TAKE u \in Seq(Int), e \in Int
  <2> DEFINE v == Append(u, e)
             n == Len(u)
  <2>1. v \in Seq(Int) /\ Len(v) = n + 1 /\ v[n + 1] = e /\ \A k \in 1 .. n : v[k] = u[k]
    OBVIOUS
  <2> HIDE DEF v
  <2>2. n \in Nat /\ DOMAIN u = 1 .. n
    BY <1>1
  <2>3. DOMAIN v = 1 .. n + 1 /\ Weights(v, n + 1)
    BY <1>1, <2>1
  <2> HIDE DEF n
  <2>4. SumFunction(v) = SumFunction(u) + v[n + 1]
    BY <2>1, <2>2, <2>3, SumGrows
  <2> QED BY <2>1, <2>4 DEF v
<1>3. A \subseteq Seq(Int) /\ <<>> \in A
  <2>1. <<>> \in Seq(Int) /\ s \o <<>> = s
    OBVIOUS
  <2>2. SumFunction(<<>>) = 0
    <3>1. DOMAIN <<>> = 1 .. 0
      OBVIOUS
    <3> QED BY <3>1, SumType
  <2>3. SumFunction(s) \in Int
    BY <1>1
  <2> QED BY <2>1, <2>2, <2>3
<1>4. ASSUME NEW u \in A, NEW e \in Int PROVE Append(u, e) \in A
  <2>1. u \in Seq(Int) /\ SumFunction(s \o u) = SumFunction(s) + SumFunction(u)
    OBVIOUS
  <2>2. s \o u \in Seq(Int) /\ s \o Append(u, e) = Append(s \o u, e) /\ Append(u, e) \in Seq(Int)
    BY <2>1
  <2>3. SumFunction(s \o Append(u, e)) = SumFunction(s \o u) + e
    BY <1>2, <2>2
  <2>4. SumFunction(Append(u, e)) = SumFunction(u) + e
    BY <1>2, <2>1
  <2>5. SumFunction(s) \in Int /\ SumFunction(u) \in Int
    BY <1>1, <2>1
  <2>6. SumFunction(s \o Append(u, e)) = SumFunction(s) + SumFunction(Append(u, e))
    BY <2>1, <2>3, <2>4, <2>5
  <2> QED BY <2>2, <2>6
<1> HIDE DEF A
<1>5. A = Seq(Int)
  BY <1>3, <1>4, SeqInduct
<1>6. SumFunction(s \o t) = SumFunction(s) + SumFunction(t)
  BY <1>5 DEF A
<1> QED BY <1>1, <1>6

\* Two lists of lists, one behind the other.
LEMMA FlattenSeqConcat ==
  ASSUME NEW S, NEW ss \in Seq(Seq(S)), NEW tt \in Seq(Seq(S))
  PROVE  FlattenSeq(ss \o tt) = FlattenSeq(ss) \o FlattenSeq(tt)
<1> DEFINE A == {uu \in Seq(Seq(S)) : FlattenSeq(ss \o uu) = FlattenSeq(ss) \o FlattenSeq(uu)}
<1>1. A \subseteq Seq(Seq(S)) /\ <<>> \in A
  <2>1. FlattenSeq(ss) \in Seq(S) /\ FlattenSeq(<<>>) = <<>>
    BY FlattenSeqGrows, EmptySeq
  <2>2. ss \o <<>> = ss /\ FlattenSeq(ss) \o <<>> = FlattenSeq(ss) /\ <<>> \in Seq(Seq(S))
    BY <2>1
  <2> QED BY <2>1, <2>2
<1>2. ASSUME NEW uu \in A, NEW u \in Seq(S) PROVE Append(uu, u) \in A
  <2>1. uu \in Seq(Seq(S)) /\ FlattenSeq(ss \o uu) = FlattenSeq(ss) \o FlattenSeq(uu)
    OBVIOUS
  <2> HIDE DEF A
  <2>2. /\ ss \o uu \in Seq(Seq(S)) /\ Append(uu, u) \in Seq(Seq(S))
        /\ ss \o Append(uu, u) = Append(ss \o uu, u)
    BY <2>1
  <2>3. FlattenSeq(ss \o Append(uu, u)) = FlattenSeq(ss \o uu) \o u
    BY <2>2, FlattenSeqGrows
  <2>4. FlattenSeq(Append(uu, u)) = FlattenSeq(uu) \o u /\ FlattenSeq(uu) \in Seq(S)
        /\ FlattenSeq(ss) \in Seq(S)
    BY <2>1, FlattenSeqGrows
  <2>5. (FlattenSeq(ss) \o FlattenSeq(uu)) \o u = FlattenSeq(ss) \o (FlattenSeq(uu) \o u)
    <3> PICK a \in Seq(S) : a = FlattenSeq(ss)
      BY <2>4
    <3> PICK b \in Seq(S) : b = FlattenSeq(uu)
      BY <2>4
    <3> QED BY ConcatAssociative
  <2> QED BY <2>1, <2>2, <2>3, <2>4, <2>5 DEF A
<1> HIDE DEF A
<1>3. A = Seq(Seq(S))
  BY <1>1, <1>2, SeqInduct
<1> QED BY <1>3 DEF A

\* A list in a list.
LEMMA FlattenOne ==
  ASSUME NEW S, NEW s \in Seq(S)
  PROVE  FlattenSeq(<<s>>) = s
<1>1. <<>> \in Seq(Seq(S)) /\ Append(<<>>, s) = <<s>>
  OBVIOUS
<1>2. FlattenSeq(<<>>) = <<>> /\ FlattenSeq(Append(<<>>, s)) = FlattenSeq(<<>>) \o s
  BY <1>1, FlattenSeqGrows
<1>3. <<>> \o s = s
  OBVIOUS
<1> QED BY <1>1, <1>2, <1>3

\* Empty lists string together to an empty one.
LEMMA FlattenNothing ==
  ASSUME NEW S, NEW ss \in Seq(Seq(S)), \A k \in 1 .. Len(ss) : ss[k] = <<>>
  PROVE  FlattenSeq(ss) = <<>>
<1> DEFINE E == {<<>>}
           A == {uu \in Seq(E) : FlattenSeq(uu) = <<>>}
<1>1. E \subseteq Seq(S)
  OBVIOUS
<1>2. FlattenSeq(<<>>) = <<>>
  <2>1. <<>> \in Seq(Seq(S)) /\ <<>> \in Seq(S)
    OBVIOUS
  <2> QED BY <2>1, FlattenSeqGrows
<1>3. A \subseteq Seq(E) /\ <<>> \in A
  BY <1>2
<1>4. ASSUME NEW s \in A, NEW e \in E PROVE Append(s, e) \in A
  <2>1. s \in Seq(E) /\ FlattenSeq(s) = <<>> /\ e = <<>> /\ e \in Seq(S)
    BY <1>1
  <2>2. s \in Seq(Seq(S)) /\ Append(s, e) \in Seq(E)
    BY <1>1, <2>1
  <2>3. FlattenSeq(Append(s, e)) = FlattenSeq(s) \o e
    BY <2>1, <2>2, FlattenSeqGrows
  <2>4. <<>> \o <<>> = <<>>
    OBVIOUS
  <2> QED BY <2>1, <2>2, <2>3, <2>4
<1> HIDE DEF A
<1>5. A = Seq(E)
  BY <1>3, <1>4, SeqInduct
<1>6. ss \in Seq(E)
  OBVIOUS
<1> QED BY <1>5, <1>6 DEF A

\* Empty lists at the end make no difference.
LEMMA FlattenPadded ==
  ASSUME NEW S, NEW ss \in Seq(Seq(S)), NEW tt \in Seq(Seq(S)), Len(ss) <= Len(tt),
         \A k \in 1 .. Len(ss) : tt[k] = ss[k],
         \A k \in 1 .. Len(tt) : k > Len(ss) => tt[k] = <<>>
  PROVE  FlattenSeq(tt) = FlattenSeq(ss)
<1> DEFINE n == Len(ss)
           m == Len(tt)
           rest == SubSeq(tt, n + 1, m)
<1>1. n \in Nat /\ m \in Nat /\ n <= m
  OBVIOUS
<1>2. /\ rest \in Seq(Seq(S)) /\ Len(rest) = m - n
      /\ \A k \in 1 .. m - n : rest[k] = tt[n + k]
  BY <1>1
<1> HIDE DEF rest
<1>3. \A k \in 1 .. Len(rest) : rest[k] = <<>>
  <2> TAKE k \in 1 .. Len(rest)
  <2>1. k \in 1 .. m - n /\ n + k \in 1 .. m /\ n + k > n
    BY <1>1, <1>2
  <2>2. tt[n + k] = <<>>
    BY <2>1
  <2> QED BY <1>2, <2>1, <2>2
<1>4. tt = ss \o rest
  <2>1. Len(ss \o rest) = m /\ ss \o rest \in Seq(Seq(S))
    BY <1>1, <1>2
  <2>2. ASSUME NEW k \in 1 .. m PROVE (ss \o rest)[k] = tt[k]
    <3>1. CASE k <= n
      BY <1>1, <1>2, <3>1
    <3>2. CASE k > n
      <4>1. k - n \in 1 .. m - n /\ n + (k - n) = k
        BY <1>1, <3>2
      <4>2. (ss \o rest)[k] = rest[k - n]
        BY <1>1, <1>2, <3>2
      <4> QED BY <1>2, <4>1, <4>2
    <3>3. k <= n \/ k > n
      BY <1>1
    <3> QED BY <3>1, <3>2, <3>3
  <2> QED BY <2>1, <2>2, SeqEqual
<1>5. FlattenSeq(rest) = <<>>
  BY <1>2, <1>3, FlattenNothing
<1>6. FlattenSeq(ss) \in Seq(S)
  <2>1. <<>> \in Seq(S)
    OBVIOUS
  <2> QED BY <2>1, FlattenSeqGrows
<1>7. FlattenSeq(ss) \o <<>> = FlattenSeq(ss)
  BY <1>6
<1>8. FlattenSeq(ss \o rest) = FlattenSeq(ss) \o FlattenSeq(rest)
  BY <1>2, FlattenSeqConcat
<1> QED BY <1>4, <1>5, <1>7, <1>8

\* One list more among those that are strung together, behind all that are not empty.
LEMMA FlattenInsert ==
  ASSUME NEW S, NEW ss \in Seq(Seq(S)), NEW tt \in Seq(Seq(S)),
         NEW x \in 1 .. Len(tt), x <= Len(ss) + 1,
         \A k \in 1 .. Len(tt) : k < x => tt[k] = ss[k],
         \A k \in 1 .. Len(tt) : k > x => tt[k] = <<>>,
         \A k \in 1 .. Len(ss) : k >= x => ss[k] = <<>>
  PROVE  FlattenSeq(tt) = FlattenSeq(ss) \o tt[x]
<1> DEFINE front == SubSeq(tt, 1, x - 1)
           all == Append(front, tt[x])
<1>1. Len(ss) \in Nat /\ Len(tt) \in Nat /\ x \in Nat /\ x >= 1 /\ tt[x] \in Seq(S)
  OBVIOUS
<1>2. /\ front \in Seq(Seq(S)) /\ Len(front) = x - 1
      /\ \A k \in 1 .. x - 1 : front[k] = tt[k]
  BY <1>1
<1> HIDE DEF front
<1>3. /\ all \in Seq(Seq(S)) /\ Len(all) = x
      /\ \A k \in 1 .. x - 1 : all[k] = tt[k]
      /\ all[x] = tt[x]
  BY <1>1, <1>2
<1>4. FlattenSeq(all) = FlattenSeq(front) \o tt[x]
  BY <1>1, <1>2, FlattenSeqGrows
<1> HIDE DEF all
<1>5. FlattenSeq(ss) = FlattenSeq(front)
  <2>1. Len(front) <= Len(ss)
    BY <1>1, <1>2
  <2>2. \A k \in 1 .. Len(front) : ss[k] = front[k]
    BY <1>1, <1>2
  <2>3. \A k \in 1 .. Len(ss) : k > Len(front) => ss[k] = <<>>
    BY <1>1, <1>2
  <2> QED BY <1>2, <2>1, <2>2, <2>3, FlattenPadded
<1>6. FlattenSeq(tt) = FlattenSeq(all)
  <2>1. Len(all) <= Len(tt)
    BY <1>1, <1>3
  <2>2. \A k \in 1 .. Len(all) : tt[k] = all[k]
    <3> TAKE k \in 1 .. Len(all)
    <3>1. k \in 1 .. x - 1 \/ k = x
      BY ONLY <1>1, <1>3, k \in 1 .. Len(all)
    <3> QED BY ONLY <1>3, <3>1
  <2>3. \A k \in 1 .. Len(tt) : k > Len(all) => tt[k] = <<>>
    BY <1>1, <1>3
  <2> QED BY <1>3, <2>1, <2>2, <2>3, FlattenPadded
<1> QED BY <1>4, <1>5, <1>6

=============================================================================
