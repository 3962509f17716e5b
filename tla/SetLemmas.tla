------------------------------ MODULE SetLemmas -------------------------------
(***************************************************************************)
(* Facts about numbers, finite sets and sequences that the proofs of the   *)
(* components rest on.  An induction is done on the least counterexample.  *)
(***************************************************************************)
EXTENDS FiniteSetsExt, FiniteSetTheorems, FunctionTheorems, SequenceTheorems,
        TLAPS

-----------------------------------------------------------------------------
(* Every non-empty set of naturals has a least element.                    *)
LEMMA LeastNatural ==
    ASSUME NEW S \in SUBSET Nat, S # {}
    PROVE  \E m \in S : \A n \in S : m <= n
<1>1. PICK x \in S : \A y \in S : <<y, x>> \notin OpToRel(<, Nat)
  BY NatLessThanWellFounded, WFMin
<1>2. ASSUME NEW y \in S PROVE <<y, x>> \in OpToRel(<, Nat) <=> y < x
  BY x \in Nat, y \in Nat DEF OpToRel
<1>3. ASSUME NEW y \in S PROVE ~(y < x)
  BY <1>1, <1>2, Zenon
<1>4. \A y \in S : x <= y
  BY <1>3
<1> QED
  BY <1>4

(* Min is the least element.                                               *)
LEMMA MinProperty ==
    ASSUME NEW S \in SUBSET Nat, S # {}
    PROVE  Min(S) \in S /\ \A n \in S : Min(S) <= n
BY LeastNatural DEF Min

(* Max is the greatest element of a bounded set.                           *)
LEMMA MaxProperty ==
    ASSUME NEW n \in Nat, NEW S \in SUBSET (1..n), S # {}
    PROVE  Max(S) \in S /\ \A y \in S : Max(S) >= y
<1> DEFINE T == {k \in Nat : n - k \in S}
<1>1. PICK x \in S : TRUE
  OBVIOUS
<1>2. x \in 1..n /\ n - x \in Nat /\ n - (n - x) = x
  OBVIOUS
<1>3. n - x \in T
  BY <1>2
<1>4. PICK k \in T : \A i \in T : k <= i
  <2> HIDE DEF T
  <2>1. T \in SUBSET Nat /\ T # {}
    BY <1>3 DEF T
  <2> QED
    BY <2>1, LeastNatural
<1>5. n - k \in S /\ k \in Nat
  OBVIOUS
<1>6. ASSUME NEW y \in S PROVE n - k >= y
  <2>1. y \in 1..n /\ n - y \in Nat /\ n - (n - y) = y
    OBVIOUS
  <2>2. n - y \in T
    BY <2>1
  <2>3. k <= n - y
    BY <1>4, <2>2
  <2> QED
    BY <1>5, <2>1, <2>3
<1> QED
  BY <1>5, <1>6 DEF Max

(* Induction over the naturals, for a set instead of a predicate.          *)
LEMMA InductiveSet ==
    ASSUME NEW P \in SUBSET Nat, 0 \in P, \A n \in P : n + 1 \in P
    PROVE  P = Nat
<1>1. SUFFICES ASSUME Nat \ P # {} PROVE FALSE
  OBVIOUS
<1>2. PICK m \in Nat \ P : \A n \in Nat \ P : m <= n
  BY <1>1, LeastNatural
<1>3. m - 1 \in Nat \ P
  BY <1>2
<1> QED
  BY <1>2, <1>3

(* A set all of whose elements are equal has at most one.                  *)
LEMMA AtMostOne ==
    ASSUME NEW S, \A x, y \in S : x = y
    PROVE  IsFiniteSet(S) /\ Cardinality(S) <= 1
<1>1. CASE S = {}
  BY <1>1, FS_EmptySet
<1>2. CASE S # {}
  <2>1. PICK x \in S : S = {x}
    BY <1>2
  <2>2. IsFiniteSet({x}) /\ Cardinality({x}) = 1
    BY FS_Singleton
  <2> QED
    BY <2>1, <2>2
<1> QED
  BY <1>1, <1>2

(* The pigeonhole: a function on 1..n that has a value outside of 1..n     *)
(* misses a value of 1..n.                                                 *)
LEMMA MissesValue ==
    ASSUME NEW n \in Nat, NEW T, NEW f \in [1..n -> T],
           NEW c \in 1..n, f[c] \notin 1..n
    PROVE  \E d \in 1..n : \A i \in 1..n : f[i] # d
<1> DEFINE D == (1..n) \ {c}
           R == {f[i] : i \in D}
           g == [i \in D |-> f[i]]
<1>1. IsFiniteSet(1..n) /\ Cardinality(1..n) = n
  BY FS_Interval
<1>2. IsFiniteSet(D) /\ Cardinality(D) = n - 1
  BY <1>1, FS_RemoveElement
<1>3. g \in Surjection(D, R)
  BY DEF Surjection
<1> HIDE DEF g, R
<1>4. IsFiniteSet(R) /\ Cardinality(R) <= n - 1
  BY <1>2, <1>3, FS_Surjection DEF ExistsSurjection
<1>5. Cardinality(R) \in Nat
  BY <1>4, FS_CardinalityType
<1>6. ~(1..n \subseteq R)
  <2>1. 1..n \subseteq R => n <= Cardinality(R)
    BY <1>1, <1>4, FS_Subset
  <2> QED
    BY <1>4, <1>5, <2>1
<1>7. PICK d \in 1..n : d \notin R
  BY <1>6
<1> QED
  BY <1>7 DEF R

-----------------------------------------------------------------------------
(* The sum of w over the elements of S.                                    *)
SumOver(w, S) == FoldSet(LAMBDA x, sum : sum + w[x], 0, S)

(* g[s] is the sum over s, for all parts s of S.                           *)
First(s) == CHOOSE x \in s : TRUE
PartSums(w, S, g) ==
    /\ g \in [SUBSET S -> Nat]
    /\ g[{}] = 0
    /\ \A s \in SUBSET S : s # {} => g[s] = g[s \ {First(s)}] + w[First(s)]

(* The parts of S with at most n elements.                                 *)
Small(S, n) == {s \in SUBSET S : IsFiniteSet(s) /\ Cardinality(s) <= n}

(* The element that a fold takes first is one of the set.                  *)
LEMMA FirstIsElement ==
    ASSUME NEW s, s # {}
    PROVE  First(s) \in s
BY DEF First

(* With one element less, a part is smaller.                               *)
LEMMA SmallRest ==
    ASSUME NEW S, NEW n \in Nat, NEW s \in Small(S, n + 1), NEW x \in s
    PROVE  s \ {x} \in Small(S, n)
<1>1. IsFiniteSet(s) /\ Cardinality(s) <= n + 1 /\ s \in SUBSET S
  BY DEF Small
<1>2. IsFiniteSet(s \ {x}) /\ Cardinality(s \ {x}) = Cardinality(s) - 1
  BY <1>1, FS_RemoveElement
<1>3. Cardinality(s) \in Nat
  BY <1>1, FS_CardinalityType
<1> QED
  BY <1>1, <1>2, <1>3 DEF Small

(* The bound on the size of a part may grow.                               *)
LEMMA SmallMore ==
    ASSUME NEW S, NEW n \in Nat, NEW s \in Small(S, n)
    PROVE  s \in Small(S, n + 1)
<1>1. IsFiniteSet(s) /\ Cardinality(s) <= n /\ s \in SUBSET S
  BY DEF Small
<1>2. Cardinality(s) \in Nat
  BY <1>1, FS_CardinalityType
<1> QED
  BY <1>1, <1>2 DEF Small

(* The empty part is as small as can be.                                   *)
LEMMA SmallEmpty ==
    ASSUME NEW S, NEW n \in Nat
    PROVE  {} \in Small(S, n)
BY FS_EmptySet DEF Small

(* No other part has no elements.                                          *)
LEMMA SmallZero ==
    ASSUME NEW S
    PROVE  Small(S, 0) = {{}}
<1>1. {} \in Small(S, 0)
  BY FS_EmptySet DEF Small
<1>2. ASSUME NEW s \in Small(S, 0) PROVE s = {}
  <2>1. IsFiniteSet(s) /\ Cardinality(s) <= 0
    BY DEF Small
  <2>2. Cardinality(s) \in Nat
    BY <2>1, FS_CardinalityType
  <2>3. Cardinality(s) = 0
    BY <2>1, <2>2
  <2> QED
    BY <2>1, <2>3, FS_EmptySet
<1> QED
  BY <1>1, <1>2

(* Every part of a finite set has at most as many elements as the set.     *)
LEMMA SmallAll ==
    ASSUME NEW S, IsFiniteSet(S)
    PROVE  Cardinality(S) \in Nat /\ Small(S, Cardinality(S)) = SUBSET S
<1>1. Cardinality(S) \in Nat
  BY FS_CardinalityType
<1>2. ASSUME NEW s \in SUBSET S PROVE IsFiniteSet(s) /\ Cardinality(s) <= Cardinality(S)
  BY FS_Subset
<1> QED
  BY <1>1, <1>2 DEF Small

(* The sums of the parts exist.                                            *)
LEMMA PartSumsExist ==
    ASSUME NEW S, IsFiniteSet(S), NEW w, \A x \in S : w[x] \in Nat
    PROVE  \E g : PartSums(w, S, g)
<1> DEFINE Good(n, g) ==
             /\ g \in [Small(S, n) -> Nat] /\ g[{}] = 0
             /\ \A s \in Small(S, n) : s # {} => g[s] = g[s \ {First(s)}] + w[First(s)]
           P == {n \in Nat : \E g : Good(n, g)}
<1>1. 0 \in P
  <2> DEFINE g == [s \in Small(S, 0) |-> 0]
  <2>1. Good(0, g)
    BY SmallZero
  <2> QED
    BY <2>1
<1>2. ASSUME NEW n \in P PROVE n + 1 \in P
  <2>1. PICK g : Good(n, g)
    OBVIOUS
  <2>2. n \in Nat
    OBVIOUS
  <2> DEFINE h == [s \in Small(S, n + 1) |->
                     IF s = {} THEN 0 ELSE g[s \ {First(s)}] + w[First(s)]]
  <2>3. ASSUME NEW s \in Small(S, n + 1), s # {}
        PROVE  /\ First(s) \in S /\ w[First(s)] \in Nat
               /\ s \ {First(s)} \in Small(S, n) /\ s \ {First(s)} \in Small(S, n + 1)
               /\ g[s \ {First(s)}] \in Nat
    <3>1. First(s) \in s
      BY <2>3, FirstIsElement
    <3>2. First(s) \in S
      BY <3>1 DEF Small
    <3>3. s \ {First(s)} \in Small(S, n)
      BY <2>2, <3>1, SmallRest
    <3>4. s \ {First(s)} \in Small(S, n + 1)
      BY <2>2, <3>3, SmallMore
    <3> QED
      BY <2>1, <3>2, <3>3, <3>4
  <2>4. h \in [Small(S, n + 1) -> Nat]
    <3>1. ASSUME NEW s \in Small(S, n + 1)
          PROVE  (IF s = {} THEN 0 ELSE g[s \ {First(s)}] + w[First(s)]) \in Nat
      <4>1. CASE s = {}
        BY <4>1
      <4>2. CASE s # {}
        <5>1. w[First(s)] \in Nat /\ g[s \ {First(s)}] \in Nat
          BY <2>3, <4>2
        <5> QED
          BY <4>2, <5>1
      <4> QED
        BY <4>1, <4>2
    <3> HIDE DEF Good, P
    <3> QED
      BY <3>1
  <2>5. {} \in Small(S, n + 1)
    BY <2>2, SmallEmpty
  <2>6. h[{}] = 0
    BY <2>5
  <2>7. ASSUME NEW s \in Small(S, n) PROVE h[s] = g[s]
    <3>1. s \in Small(S, n + 1)
      BY <2>2, SmallMore
    <3> QED
      BY <2>1, <3>1
  <2>8. ASSUME NEW s \in Small(S, n + 1), s # {}
        PROVE  h[s] = h[s \ {First(s)}] + w[First(s)]
    BY <2>3, <2>7, <2>8
  <2>9. Good(n + 1, h)
    BY <2>4, <2>6, <2>8
  <2> HIDE DEF Good, h
  <2> QED
    BY <2>2, <2>9
<1> HIDE DEF Good
<1>3. P = Nat
  BY <1>1, <1>2, InductiveSet
<1>4. PICK g : Good(Cardinality(S), g)
  BY <1>3, SmallAll
<1>5. PartSums(w, S, g)
  BY <1>4, SmallAll DEF Good, PartSums
<1> QED
  BY <1>5

(* Two weightings that agree over S.                                       *)
Alike(v, w, S) == \A x \in S : v[x] = w[x]

(* The sums of the parts depend on the values of w only.                   *)
LEMMA PartSumsAgree ==
    ASSUME NEW S, NEW T, IsFiniteSet(S), S \subseteq T, NEW w, NEW v,
           Alike(v, w, S),
           NEW g, PartSums(v, S, g), NEW h, PartSums(w, T, h)
    PROVE  g[S] = h[S]
<1> DEFINE P == {n \in Nat : \A s \in Small(S, n) : g[s] = h[s]}
<1>1. 0 \in P
  BY SmallZero DEF PartSums
<1>2. ASSUME NEW n \in P PROVE n + 1 \in P
  <2>1. ASSUME NEW s \in Small(S, n + 1) PROVE g[s] = h[s]
    <3>1. CASE s = {}
      BY <3>1 DEF PartSums
    <3>2. CASE s # {}
      <4>1. First(s) \in s
        BY <3>2, FirstIsElement
      <4>2. s \ {First(s)} \in Small(S, n)
        BY <4>1, SmallRest
      <4>3. g[s \ {First(s)}] = h[s \ {First(s)}]
        BY <4>2
      <4>4. s \in SUBSET S /\ s \in SUBSET T
        BY DEF Small
      <4>5. v[First(s)] = w[First(s)]
        BY <4>1, <4>4 DEF Alike
      <4> QED
        BY <3>2, <4>3, <4>4, <4>5 DEF PartSums
    <3> QED
      BY <3>1, <3>2
  <2> QED
    BY <2>1
<1>3. P = Nat
  BY <1>1, <1>2, InductiveSet
<1> HIDE DEF P
<1>4. Cardinality(S) \in P /\ Small(S, Cardinality(S)) = SUBSET S
  BY <1>3, SmallAll
<1> QED
  BY <1>4 DEF P

(* SumOver is the last of the sums of the parts.                           *)
LEMMA SumIsPartSum ==
    ASSUME NEW S, NEW T, IsFiniteSet(S), S \subseteq T, NEW w, NEW v,
           \A x \in S : v[x] \in Nat, Alike(v, w, S),
           NEW h, PartSums(w, T, h)
    PROVE  SumOver(v, S) = h[S]
<1> DEFINE Iter(i) == i = [s \in SUBSET S |-> IF s = {} THEN 0
                                              ELSE i[s \ {First(s)}] + v[First(s)]]
           iter == CHOOSE i : Iter(i)
<1>1. PICK g : PartSums(v, S, g)
  BY PartSumsExist
<1>2. g \in [SUBSET S -> Nat]
  BY <1>1 DEF PartSums
<1>3. \A s \in SUBSET S : g[s] = IF s = {} THEN 0 ELSE g[s \ {First(s)}] + v[First(s)]
  BY <1>1 DEF PartSums
<1>4. Iter(g)
  BY <1>2, <1>3
<1>5. Iter(iter)
  BY <1>4
<1>6. ASSUME NEW i, Iter(i) PROVE \A s \in SUBSET S : i[s] = g[s]
  <2> DEFINE P == {n \in Nat : \A s \in Small(S, n) : i[s] = g[s]}
  <2>a. \A s \in SUBSET S : i[s] = IF s = {} THEN 0 ELSE i[s \ {First(s)}] + v[First(s)]
    BY <1>6
  <2> HIDE DEF Iter
  <2>1. 0 \in P
    BY <1>3, <2>a, SmallZero
  <2>2. ASSUME NEW n \in P PROVE n + 1 \in P
    <3>1. ASSUME NEW s \in Small(S, n + 1) PROVE i[s] = g[s]
      <4>1. s \in SUBSET S
        BY DEF Small
      <4>2. CASE s = {}
        BY <1>3, <2>a, <4>1, <4>2
      <4>3. CASE s # {}
        <5>1. First(s) \in s
          BY <4>3, FirstIsElement
        <5>2. s \ {First(s)} \in Small(S, n)
          BY <5>1, SmallRest
        <5>3. i[s \ {First(s)}] = g[s \ {First(s)}]
          BY <5>2
        <5> QED
          BY <1>3, <2>a, <4>1, <4>3, <5>3
      <4> QED
        BY <4>2, <4>3
    <3> QED
      BY <3>1
  <2>3. P = Nat
    BY <2>1, <2>2, InductiveSet
  <2> QED
    BY <2>3, SmallAll
<1>7. SumOver(v, S) = iter[S]
  BY DEF SumOver, FoldSet, MapThenFoldSet, First
<1>8. iter[S] = g[S]
  BY <1>5, <1>6
<1> HIDE DEF Iter, iter
<1>9. g[S] = h[S]
  BY <1>1, PartSumsAgree
<1> QED
  BY <1>7, <1>8, <1>9

(* The order of two terms.                                                 *)
LEMMA SumSwap ==
    ASSUME NEW a \in Nat, NEW b \in Nat, NEW c \in Nat
    PROVE  (a + b) + c = (a + c) + b
OBVIOUS

(* Every element can be the first.                                         *)
LEMMA PartSumsAdd ==
    ASSUME NEW S, IsFiniteSet(S), NEW w, \A x \in S : w[x] \in Nat,
           NEW g, PartSums(w, S, g), NEW p \in SUBSET S, NEW e \in p
    PROVE  g[p] = g[p \ {e}] + w[e]
<1> DEFINE P == {n \in Nat : \A s \in Small(S, n) : \A x \in s : g[s] = g[s \ {x}] + w[x]}
<1>1. 0 \in P
  BY SmallZero
<1>2. ASSUME NEW n \in P PROVE n + 1 \in P
  <2>1. ASSUME NEW s \in Small(S, n + 1), NEW x \in s PROVE g[s] = g[s \ {x}] + w[x]
    <3> DEFINE c == First(s)
    <3>1. c \in s /\ s \in SUBSET S
      BY FirstIsElement DEF Small
    <3>2. g[s] = g[s \ {c}] + w[c]
      BY <3>1 DEF PartSums
    <3> HIDE DEF c
    <3>3. CASE x = c
      BY <3>2, <3>3
    <3>4. CASE x # c
      <4>1. s \ {c} \in Small(S, n) /\ x \in s \ {c} /\ s \ {x} \in Small(S, n) /\ c \in s \ {x}
        BY <3>1, <3>4, SmallRest
      <4>2. g[s \ {c}] = g[(s \ {c}) \ {x}] + w[x]
        BY <4>1
      <4>3. g[s \ {x}] = g[(s \ {x}) \ {c}] + w[c]
        BY <4>1
      <4>4. (s \ {c}) \ {x} = (s \ {x}) \ {c}
        OBVIOUS
      <4>5. (s \ {x}) \ {c} \in SUBSET S
        BY <3>1
      <4>6. g[(s \ {x}) \ {c}] \in Nat
        BY <4>5 DEF PartSums
      <4>7. w[x] \in Nat /\ w[c] \in Nat
        BY <3>1
      <4> DEFINE r == g[(s \ {x}) \ {c}]
      <4>8. g[s \ {c}] = r + w[x] /\ g[s \ {x}] = r + w[c] /\ r \in Nat
        BY <4>2, <4>3, <4>4, <4>6
      <4> HIDE DEF r
      <4> QED
        BY <3>2, <4>7, <4>8, SumSwap
    <3> QED
      BY <3>3, <3>4
  <2> QED
    BY <2>1
<1>3. P = Nat
  BY <1>1, <1>2, InductiveSet
<1> HIDE DEF P
<1>4. Cardinality(S) \in P /\ Small(S, Cardinality(S)) = SUBSET S
  BY <1>3, SmallAll
<1> QED
  BY <1>4 DEF P

(* The sum over nothing.                                                   *)
LEMMA SumEmpty ==
    ASSUME NEW w
    PROVE  SumOver(w, {}) = 0
<1>1. IsFiniteSet({})
  BY FS_EmptySet
<1>2. PICK g : PartSums(w, {}, g)
  BY <1>1, PartSumsExist
<1>3. Alike(w, w, {})
  BY DEF Alike
<1>4. SumOver(w, {}) = g[{}]
  BY <1>1, <1>2, <1>3, SumIsPartSum
<1> QED
  BY <1>2, <1>4 DEF PartSums

(* A sum of naturals is one.                                               *)
LEMMA SumType ==
    ASSUME NEW S, IsFiniteSet(S), NEW w, \A x \in S : w[x] \in Nat
    PROVE  SumOver(w, S) \in Nat
<1>1. PICK g : PartSums(w, S, g)
  BY PartSumsExist
<1>2. Alike(w, w, S)
  BY DEF Alike
<1>3. SumOver(w, S) = g[S]
  BY <1>1, <1>2, SumIsPartSum
<1> QED
  BY <1>1, <1>3 DEF PartSums

(* The sum depends on the values over the set only.                        *)
LEMMA SumSame ==
    ASSUME NEW S, IsFiniteSet(S), NEW w, NEW v,
           \A x \in S : v[x] \in Nat, Alike(v, w, S)
    PROVE  SumOver(v, S) = SumOver(w, S)
<1>1. \A x \in S : w[x] \in Nat
  BY DEF Alike
<1>2. PICK g : PartSums(w, S, g)
  BY <1>1, PartSumsExist
<1>3. Alike(w, w, S)
  BY DEF Alike
<1>4. SumOver(w, S) = g[S]
  BY <1>1, <1>2, <1>3, SumIsPartSum
<1>5. SumOver(v, S) = g[S]
  BY <1>2, SumIsPartSum
<1> QED
  BY <1>4, <1>5

(* One element less.                                                       *)
LEMMA SumRemove ==
    ASSUME NEW S, IsFiniteSet(S), NEW w, \A x \in S : w[x] \in Nat, NEW x \in S
    PROVE  SumOver(w, S) = SumOver(w, S \ {x}) + w[x]
<1>1. PICK g : PartSums(w, S, g)
  BY PartSumsExist
<1>2. Alike(w, w, S)
  BY DEF Alike
<1>3. SumOver(w, S) = g[S]
  BY <1>1, <1>2, SumIsPartSum
<1>4. IsFiniteSet(S \ {x}) /\ (\A y \in S \ {x} : w[y] \in Nat) /\ Alike(w, w, S \ {x})
      /\ S \ {x} \subseteq S
  BY FS_RemoveElement DEF Alike
<1>5. SumOver(w, S \ {x}) = g[S \ {x}]
  BY <1>1, <1>4, SumIsPartSum
<1>6. g[S] = g[S \ {x}] + w[x]
  BY <1>1, PartSumsAdd
<1> QED
  BY <1>3, <1>5, <1>6

(* One element more.                                                       *)
LEMMA SumAdd ==
    ASSUME NEW S, IsFiniteSet(S), NEW w, \A y \in S : w[y] \in Nat,
           NEW x, x \notin S, w[x] \in Nat
    PROVE  SumOver(w, S \cup {x}) = SumOver(w, S) + w[x]
<1> DEFINE U == S \cup {x}
<1>1. IsFiniteSet(U)
  BY FS_AddElement
<1>2. (\A y \in U : w[y] \in Nat) /\ x \in U
  OBVIOUS
<1>3. U \ {x} = S
  OBVIOUS
<1> HIDE DEF U
<1>4. SumOver(w, U) = SumOver(w, U \ {x}) + w[x]
  BY <1>1, <1>2, SumRemove
<1> QED
  BY <1>3, <1>4 DEF U

(* Two weightings that differ in one element.                              *)
LEMMA SumChange ==
    ASSUME NEW S, IsFiniteSet(S), NEW w, \A y \in S : w[y] \in Nat, NEW x \in S,
           NEW v, \A y \in S : v[y] \in Nat, \A y \in S : y # x => v[y] = w[y]
    PROVE  SumOver(v, S) + w[x] = SumOver(w, S) + v[x]
<1> DEFINE R == S \ {x}
<1>1. IsFiniteSet(R) /\ (\A y \in R : v[y] \in Nat) /\ (\A y \in R : w[y] \in Nat)
      /\ Alike(v, w, R)
  BY FS_RemoveElement DEF Alike
<1>2. SumOver(v, S) = SumOver(v, R) + v[x]
  BY SumRemove
<1>3. SumOver(w, S) = SumOver(w, R) + w[x]
  BY SumRemove
<1> HIDE DEF R
<1>4. SumOver(v, R) = SumOver(w, R)
  BY <1>1, SumSame
<1>5. SumOver(w, R) \in Nat
  BY <1>1, SumType
<1>6. v[x] \in Nat /\ w[x] \in Nat
  OBVIOUS
<1> QED
  BY <1>2, <1>3, <1>4, <1>5, <1>6, SumSwap

(* A sum is not smaller than one without an element.                       *)
LEMMA SumLess ==
    ASSUME NEW S, IsFiniteSet(S), NEW w, \A y \in S : w[y] \in Nat, NEW x \in S
    PROVE  SumOver(w, S \ {x}) <= SumOver(w, S)
<1>1. SumOver(w, S) = SumOver(w, S \ {x}) + w[x]
  BY SumRemove
<1>2. IsFiniteSet(S \ {x}) /\ (\A y \in S \ {x} : w[y] \in Nat) /\ w[x] \in Nat
  BY FS_RemoveElement
<1>3. SumOver(w, S \ {x}) \in Nat
  BY <1>2, SumType
<1> QED
  BY <1>1, <1>2, <1>3

(* ... nor than the sum of smaller values.                                 *)
LEMMA SumAtMost ==
    ASSUME NEW S, IsFiniteSet(S), NEW w, \A y \in S : w[y] \in Nat, NEW x \in S,
           NEW v, \A y \in S : v[y] \in Nat, \A y \in S : y # x => v[y] = w[y], v[x] <= w[x]
    PROVE  SumOver(v, S) <= SumOver(w, S)
<1>1. SumOver(v, S) + w[x] = SumOver(w, S) + v[x]
  BY SumChange
<1>2. SumOver(v, S) \in Nat /\ SumOver(w, S) \in Nat /\ v[x] \in Nat /\ w[x] \in Nat
  BY SumType
<1> QED
  BY <1>1, <1>2

-----------------------------------------------------------------------------
(* What a sequence holds after one element, or several, have been put at   *)
(* its end, and after its first element has been taken.                    *)
LEMMA RangeOfEmpty == Range(<<>>) = {} /\ IsInjective(<<>>)
BY DEF Range, IsInjective

LEMMA RangeOfAppend ==
    ASSUME NEW S, NEW s \in Seq(S), NEW e \in S
    PROVE  /\ Range(Append(s, e)) = Range(s) \cup {e}
           /\ IsInjective(s) /\ e \notin Range(s) => IsInjective(Append(s, e))
<1>1. /\ DOMAIN s = 1..Len(s) /\ Len(s) \in Nat
      /\ DOMAIN Append(s, e) = 1..(Len(s) + 1)
      /\ \A i \in 1..Len(s) : Append(s, e)[i] = s[i]
      /\ Append(s, e)[Len(s) + 1] = e
  OBVIOUS
<1>2. Range(Append(s, e)) = Range(s) \cup {e}
  BY <1>1 DEF Range
<1>3. ASSUME IsInjective(s), e \notin Range(s) PROVE IsInjective(Append(s, e))
  BY <1>1, <1>3 DEF Range, IsInjective
<1> QED
  BY <1>2, <1>3

LEMMA RangeOfTail ==
    ASSUME NEW S, NEW s \in Seq(S), s # <<>>
    PROVE  /\ Head(s) \in Range(s)
           /\ Range(s) = Range(Tail(s)) \cup {Head(s)}
           /\ IsInjective(s) => IsInjective(Tail(s)) /\ Head(s) \notin Range(Tail(s))
<1>1. /\ DOMAIN s = 1..Len(s) /\ Len(s) \in Nat \ {0}
      /\ DOMAIN Tail(s) = 1..(Len(s) - 1)
      /\ \A i \in 1..(Len(s) - 1) : Tail(s)[i] = s[i + 1]
      /\ Head(s) = s[1]
  OBVIOUS
<1>2. Head(s) \in Range(s)
  BY <1>1 DEF Range
<1>3. Range(s) = Range(Tail(s)) \cup {Head(s)}
  <2>1. ASSUME NEW i \in DOMAIN s PROVE s[i] \in Range(Tail(s)) \cup {Head(s)}
    <3>1. CASE i = 1
      BY <1>1, <3>1
    <3>2. CASE i # 1
      <4>1. i - 1 \in 1..(Len(s) - 1) /\ s[i] = Tail(s)[i - 1]
        BY <1>1, <3>2
      <4> QED
        BY <1>1, <4>1 DEF Range
    <3> QED
      BY <3>1, <3>2
  <2>2. ASSUME NEW i \in DOMAIN Tail(s) PROVE Tail(s)[i] \in Range(s)
    BY <1>1 DEF Range
  <2> QED
    BY <1>2, <2>1, <2>2 DEF Range
<1>4. ASSUME IsInjective(s) PROVE IsInjective(Tail(s))
  BY <1>1, <1>4 DEF IsInjective
<1>5. ASSUME IsInjective(s) PROVE Head(s) \notin Range(Tail(s))
  BY <1>1, <1>5 DEF IsInjective, Range
<1> QED
  BY <1>2, <1>3, <1>4, <1>5

LEMMA RangeOfConcat ==
    ASSUME NEW S, NEW s \in Seq(S), NEW t \in Seq(S)
    PROVE  /\ Range(s \o t) = Range(s) \cup Range(t)
           /\ IsInjective(s) /\ IsInjective(t) /\ Range(s) \cap Range(t) = {}
                => IsInjective(s \o t)
<1>1. Range(s \o t) = Range(s) \cup Range(t)
  BY RangeConcatenation
<1>2. ASSUME IsInjective(s), IsInjective(t), Range(s) \cap Range(t) = {}
      PROVE  IsInjective(s \o t)
  <2>1. /\ DOMAIN s = 1..Len(s) /\ Len(s) \in Nat
        /\ DOMAIN t = 1..Len(t) /\ Len(t) \in Nat
        /\ DOMAIN (s \o t) = 1..(Len(s) + Len(t))
    OBVIOUS
  <2>2. ASSUME NEW i \in 1..(Len(s) + Len(t))
        PROVE  \/ i \in 1..Len(s) /\ (s \o t)[i] = s[i]
               \/ i - Len(s) \in 1..Len(t) /\ (s \o t)[i] = t[i - Len(s)]
    BY <2>1
  <2>3. ASSUME NEW i \in 1..(Len(s) + Len(t)), NEW j \in 1..(Len(s) + Len(t)),
               (s \o t)[i] = (s \o t)[j]
        PROVE  i = j
    <3>1. CASE i \in 1..Len(s) /\ (s \o t)[i] = s[i] /\ j \in 1..Len(s) /\ (s \o t)[j] = s[j]
      BY <1>2, <2>1, <2>3, <3>1 DEF IsInjective
    <3>2. CASE /\ i - Len(s) \in 1..Len(t) /\ (s \o t)[i] = t[i - Len(s)]
               /\ j - Len(s) \in 1..Len(t) /\ (s \o t)[j] = t[j - Len(s)]
      <4>1. i - Len(s) = j - Len(s)
        BY <1>2, <2>1, <2>3, <3>2 DEF IsInjective
      <4> QED
        BY <2>1, <4>1
    <3>3. ASSUME NEW a \in 1..Len(s), NEW b \in 1..Len(t) PROVE s[a] # t[b]
      BY <1>2, <2>1 DEF Range
    <3> QED
      BY <2>2, <2>3, <3>1, <3>2, <3>3
  <2> QED
    BY <2>1, <2>3 DEF IsInjective
<1> QED
  BY <1>1, <1>2
=============================================================================
