--------------------------- MODULE Failover_proofs ---------------------------
(***************************************************************************)
(* Proofs about Failover for any number of nodes and of steps.             *)
(***************************************************************************)
EXTENDS Failover, SetLemmas

-----------------------------------------------------------------------------
(***************************************************************************)
(* Counting.                                                               *)
(***************************************************************************)
Zero(T) == [x \in T |-> 0]
One(T, x) == [y \in T |-> IF y = x THEN 1 ELSE 0]

(* A fold over the parts of S that takes one element after the other.      *)
Adds(v, S, g) ==
    \A s \in SUBSET S : g[s] = IF s = {} THEN 0 ELSE v[First(s)] + g[s \ {First(s)}]

(* Such a fold exists.                                                     *)
LEMMA AddsExist ==
    ASSUME NEW S, IsFiniteSet(S), NEW v, \A x \in S : v[x] \in Nat
    PROVE  \E g \in [SUBSET S -> Nat] : Adds(v, S, g)
<1>1. PICK g : PartSums(v, S, g)
  BY PartSumsExist
<1>2. g \in [SUBSET S -> Nat] /\ g[{}] = 0
  BY <1>1 DEF PartSums
<1>3. ASSUME NEW s \in SUBSET S, s # {} PROVE g[s] = v[First(s)] + g[s \ {First(s)}]
  <2>1. First(s) \in s
    BY <1>3, FirstIsElement
  <2>2. v[First(s)] \in Nat
    BY <2>1
  <2>3. g[s \ {First(s)}] \in Nat
    BY <1>2
  <2>4. g[s] = g[s \ {First(s)}] + v[First(s)]
    BY <1>1, <1>3 DEF PartSums
  <2> QED
    BY <2>2, <2>3, <2>4
<1>4. Adds(v, S, g)
  BY <1>2, <1>3 DEF Adds
<1> QED
  BY <1>2, <1>4

(* A fold over nothing but zeros is zero.                                  *)
LEMMA AddsZero ==
    ASSUME NEW S, IsFiniteSet(S), NEW v, \A x \in S : v[x] = 0, NEW g, Adds(v, S, g)
    PROVE  \A s \in SUBSET S : g[s] = 0
<1> DEFINE P == {n \in Nat : \A s \in Small(S, n) : g[s] = 0}
<1>1. 0 \in P
  <2>1. g[{}] = 0
    BY DEF Adds
  <2> QED
    BY <2>1, SmallZero
<1>2. ASSUME NEW n \in P PROVE n + 1 \in P
  <2>1. ASSUME NEW s \in Small(S, n + 1) PROVE g[s] = 0
    <3>1. s \in SUBSET S
      BY DEF Small
    <3>2. CASE s = {}
      BY <3>2 DEF Adds
    <3>3. CASE s # {}
      <4>1. First(s) \in s
        BY <3>3, FirstIsElement
      <4>2. s \ {First(s)} \in Small(S, n)
        BY <4>1, SmallRest
      <4>3. g[s \ {First(s)}] = 0
        BY <4>2
      <4>4. v[First(s)] = 0
        BY <3>1, <4>1
      <4>5. g[s] = v[First(s)] + g[s \ {First(s)}]
        BY <3>1, <3>3 DEF Adds
      <4> QED
        BY <4>3, <4>4, <4>5
    <3> QED
      BY <3>2, <3>3
  <2> QED
    BY <2>1
<1>3. P = Nat
  BY <1>1, <1>2, InductiveSet
<1> HIDE DEF P
<1>4. Cardinality(S) \in P /\ Small(S, Cardinality(S)) = SUBSET S
  BY <1>3, SmallAll
<1> QED
  BY <1>4 DEF P

(* A fold over zeros and a single one is one when it has met it.           *)
LEMMA AddsOne ==
    ASSUME NEW S, IsFiniteSet(S), NEW e \in S, NEW v, v[e] = 1,
           \A x \in S : x # e => v[x] = 0, NEW g, Adds(v, S, g)
    PROVE  \A s \in SUBSET S : g[s] = IF e \in s THEN 1 ELSE 0
<1> DEFINE Right(s) == g[s] = IF e \in s THEN 1 ELSE 0
           P == {n \in Nat : \A s \in Small(S, n) : Right(s)}
<1>1. 0 \in P
  <2>1. g[{}] = 0
    BY DEF Adds
  <2> QED
    BY <2>1, SmallZero
<1>2. ASSUME NEW n \in P PROVE n + 1 \in P
  <2>1. ASSUME NEW s \in Small(S, n + 1) PROVE Right(s)
    <3>1. s \in SUBSET S
      BY DEF Small
    <3>2. CASE s = {}
      BY <3>2 DEF Adds
    <3>3. CASE s # {}
      <4>1. First(s) \in s
        BY <3>3, FirstIsElement
      <4>2. s \ {First(s)} \in Small(S, n)
        BY <4>1, SmallRest
      <4>3. Right(s \ {First(s)})
        BY <4>2
      <4>4. g[s] = v[First(s)] + g[s \ {First(s)}]
        BY <3>1, <3>3 DEF Adds
      <4>5. CASE First(s) = e
        <5>1. g[s \ {First(s)}] = 0
          BY <4>3, <4>5
        <5> QED
          BY <4>1, <4>4, <4>5, <5>1
      <4>6. CASE First(s) # e
        <5>1. v[First(s)] = 0
          BY <3>1, <4>1, <4>6
        <5>2. e \in s <=> e \in s \ {First(s)}
          BY <4>6
        <5> QED
          BY <4>3, <4>4, <5>1, <5>2
      <4> QED
        BY <4>5, <4>6
    <3> QED
      BY <3>2, <3>3
  <2> QED
    BY <2>1
<1>3. P = Nat
  BY <1>1, <1>2, InductiveSet
<1> HIDE DEF P
<1>4. Cardinality(S) \in P /\ Small(S, Cardinality(S)) = SUBSET S
  BY <1>3, SmallAll
<1> QED
  BY <1>4 DEF P

(* Count is such a fold.                                                   *)
LEMMA CountAdds ==
    ASSUME NEW f, IsFiniteSet(DOMAIN f), \A x \in DOMAIN f : f[x] \in Nat
    PROVE  \E g : Adds(f, DOMAIN f, g) /\ Count(f) = g[DOMAIN f]
<1> DEFINE S == DOMAIN f
           Iter(i) == i = [s \in SUBSET S |-> IF s = {} THEN 0
                                              ELSE f[First(s)] + i[s \ {First(s)}]]
           iter == CHOOSE i : Iter(i)
<1>1. PICK g \in [SUBSET S -> Nat] : Adds(f, S, g)
  BY AddsExist
<1>2. Iter(g)
  BY <1>1 DEF Adds
<1>3. Iter(iter)
  BY <1>2
<1>4. Count(f) = iter[S]
  BY DEF Count, FoldFunction, FoldFunctionOnSet, MapThenFoldSet, First
<1>5. Adds(f, S, iter)
  <2> HIDE DEF iter
  <2> QED
    BY <1>3 DEF Adds
<1> HIDE DEF iter, Iter
<1> QED
  BY <1>4, <1>5

(* The counts of nothing and of one thing.                                 *)
LEMMA Counts ==
    ASSUME NEW T, IsFiniteSet(T)
    PROVE  Count(Zero(T)) = 0 /\ \A x \in T : Count(One(T, x)) = 1
<1>1. Count(Zero(T)) = 0
  <2> DEFINE f == Zero(T)
  <2>1. DOMAIN f = T /\ \A x \in T : f[x] = 0
    BY DEF Zero
  <2> HIDE DEF f
  <2>2. PICK g : Adds(f, T, g) /\ Count(f) = g[T]
    BY <2>1, CountAdds
  <2>3. g[T] = 0
    BY <2>1, <2>2, AddsZero
  <2> QED
    BY <2>2, <2>3 DEF f
<1>2. ASSUME NEW x \in T PROVE Count(One(T, x)) = 1
  <2> DEFINE f == One(T, x)
  <2>1. DOMAIN f = T /\ f[x] = 1 /\ \A y \in T : y # x => f[y] = 0
    BY DEF One
  <2> HIDE DEF f
  <2>2. \A y \in T : f[y] \in Nat
    BY <2>1
  <2>3. PICK g : Adds(f, T, g) /\ Count(f) = g[T]
    BY <2>1, <2>2, CountAdds
  <2>4. g[T] = 1
    BY <2>1, <2>3, AddsOne
  <2> QED
    BY <2>3, <2>4 DEF f
<1> QED
  BY <1>1, <1>2

(* Principals and Executions are such folds over the nodes.                *)
PrincipalsOf(w, r) == MapThenSumSet(LAMBDA n : Count(w[n]) + Count(r[n]), Nodes)
ExecutionsOf(r) == MapThenSumSet(LAMBDA n : Count(r[n]), Nodes)

(* Principals is one over the counts of those who wait and are ready.      *)
LEMMA PrincipalsAdd ==
    ASSUME NEW w, NEW r, NEW v, \A n \in Nodes : v[n] = Count(w[n]) + Count(r[n]),
           \A n \in Nodes : v[n] \in Nat
    PROVE  \E g : Adds(v, Nodes, g) /\ PrincipalsOf(w, r) = g[Nodes]
<1> DEFINE Iter(i) == i = [s \in SUBSET Nodes |->
                             IF s = {} THEN 0
                             ELSE (Count(w[First(s)]) + Count(r[First(s)]))
                                     + i[s \ {First(s)}]]
           iter == CHOOSE i : Iter(i)
<1>1. PICK g \in [SUBSET Nodes -> Nat] : Adds(v, Nodes, g)
  BY AddsExist, FailoverAssumption
<1>2. ASSUME NEW s \in SUBSET Nodes, s # {}
      PROVE  v[First(s)] = Count(w[First(s)]) + Count(r[First(s)])
  BY <1>2, FirstIsElement
<1>3. Iter(g)
  BY <1>1, <1>2 DEF Adds
<1>4. Iter(iter)
  BY <1>3
<1>5. PrincipalsOf(w, r) = iter[Nodes]
  BY DEF PrincipalsOf, MapThenSumSet, MapThenFoldSet, First
<1>6. Adds(v, Nodes, iter)
  <2> HIDE DEF iter
  <2> QED
    BY <1>2, <1>4 DEF Adds
<1> HIDE DEF iter, Iter
<1> QED
  BY <1>5, <1>6

(* Executions is one over the counts of running steps.                     *)
LEMMA ExecutionsAdd ==
    ASSUME NEW r, NEW v, \A n \in Nodes : v[n] = Count(r[n]), \A n \in Nodes : v[n] \in Nat
    PROVE  \E g : Adds(v, Nodes, g) /\ ExecutionsOf(r) = g[Nodes]
<1> DEFINE Iter(i) == i = [s \in SUBSET Nodes |-> IF s = {} THEN 0
                                                  ELSE Count(r[First(s)]) + i[s \ {First(s)}]]
           iter == CHOOSE i : Iter(i)
<1>1. PICK g \in [SUBSET Nodes -> Nat] : Adds(v, Nodes, g)
  BY AddsExist, FailoverAssumption
<1>2. ASSUME NEW s \in SUBSET Nodes, s # {}
      PROVE  v[First(s)] = Count(r[First(s)])
  BY <1>2, FirstIsElement
<1>3. Iter(g)
  BY <1>1, <1>2 DEF Adds
<1>4. Iter(iter)
  BY <1>3
<1>5. ExecutionsOf(r) = iter[Nodes]
  BY DEF ExecutionsOf, MapThenSumSet, MapThenFoldSet, First
<1>6. Adds(v, Nodes, iter)
  <2> HIDE DEF iter
  <2> QED
    BY <1>2, <1>4 DEF Adds
<1> HIDE DEF iter, Iter
<1> QED
  BY <1>5, <1>6

(* Nodes without anything, and one node with one thing.                    *)
Nowhere(T) == [n \in Nodes |-> Zero(T)]
Single(T, n, x) == [m \in Nodes |-> IF m = n THEN One(T, x) ELSE Zero(T)]

(* Nobody has a principal.                                                 *)
LEMMA NoPrincipals ==
    ASSUME NEW T, IsFiniteSet(T)
    PROVE  PrincipalsOf(Nowhere(T), Nowhere(T)) = 0
<1> DEFINE v == Zero(Nodes)
<1>1. \A n \in Nodes : v[n] = 0 /\ Nowhere(T)[n] = Zero(T)
  BY DEF Zero, Nowhere
<1> HIDE DEF v
<1>2. \A n \in Nodes : v[n] = Count(Nowhere(T)[n]) + Count(Nowhere(T)[n])
  BY <1>1, Counts
<1>3. \A n \in Nodes : v[n] \in Nat
  BY <1>1
<1>4. PICK g : Adds(v, Nodes, g) /\ PrincipalsOf(Nowhere(T), Nowhere(T)) = g[Nodes]
  BY <1>2, <1>3, PrincipalsAdd
<1>5. g[Nodes] = 0
  BY <1>1, <1>4, AddsZero, FailoverAssumption
<1> QED
  BY <1>4, <1>5

(* Nobody executes a step.                                                 *)
LEMMA NoExecutions ==
    ASSUME NEW T, IsFiniteSet(T)
    PROVE  ExecutionsOf(Nowhere(T)) = 0
<1> DEFINE v == Zero(Nodes)
<1>1. \A n \in Nodes : v[n] = 0 /\ Nowhere(T)[n] = Zero(T)
  BY DEF Zero, Nowhere
<1> HIDE DEF v
<1>2. \A n \in Nodes : v[n] = Count(Nowhere(T)[n])
  BY <1>1, Counts
<1>3. \A n \in Nodes : v[n] \in Nat
  BY <1>1
<1>4. PICK g : Adds(v, Nodes, g) /\ ExecutionsOf(Nowhere(T)) = g[Nodes]
  BY <1>2, <1>3, ExecutionsAdd
<1>5. g[Nodes] = 0
  BY <1>1, <1>4, AddsZero, FailoverAssumption
<1> QED
  BY <1>4, <1>5

(* What is counted at a node of Single, and elsewhere.                     *)
LEMMA SingleCounts ==
    ASSUME NEW T, IsFiniteSet(T), NEW n \in Nodes, NEW x \in T
    PROVE  /\ \A m \in Nodes : Count(Single(T, n, x)[m]) = One(Nodes, n)[m]
           /\ \A m \in Nodes : Count(Nowhere(T)[m]) = 0
           /\ One(Nodes, n)[n] = 1 /\ \A m \in Nodes : m # n => One(Nodes, n)[m] = 0
           /\ \A m \in Nodes : One(Nodes, n)[m] \in Nat
<1>1. /\ One(Nodes, n)[n] = 1 /\ \A m \in Nodes : m # n => One(Nodes, n)[m] = 0
      /\ \A m \in Nodes : One(Nodes, n)[m] \in Nat
  BY DEF One
<1>2. Single(T, n, x)[n] = One(T, x) /\ \A m \in Nodes : m # n => Single(T, n, x)[m] = Zero(T)
  BY DEF Single
<1>3. \A m \in Nodes : Nowhere(T)[m] = Zero(T)
  BY DEF Nowhere
<1>4. \A m \in Nodes : Count(Single(T, n, x)[m]) = One(Nodes, n)[m]
  BY <1>1, <1>2, Counts
<1>5. \A m \in Nodes : Count(Nowhere(T)[m]) = 0
  BY <1>3, Counts
<1> QED
  BY <1>1, <1>4, <1>5

(* One node has a principal, waiting or ready.                             *)
LEMMA OnePrincipal ==
    ASSUME NEW T, IsFiniteSet(T), NEW n \in Nodes, NEW x \in T
    PROVE  /\ PrincipalsOf(Single(T, n, x), Nowhere(T)) = 1
           /\ PrincipalsOf(Nowhere(T), Single(T, n, x)) = 1
<1> DEFINE v == One(Nodes, n)
           some == Single(T, n, x)
           none == Nowhere(T)
<1>1. /\ \A m \in Nodes : Count(some[m]) = v[m] /\ Count(none[m]) = 0 /\ v[m] \in Nat
      /\ v[n] = 1 /\ \A m \in Nodes : m # n => v[m] = 0
  BY SingleCounts
<1> HIDE DEF v, some, none
<1>2. \A m \in Nodes : v[m] = Count(some[m]) + Count(none[m])
  BY <1>1
<1>3. \A m \in Nodes : v[m] = Count(none[m]) + Count(some[m])
  BY <1>1
<1>4. ASSUME NEW g, Adds(v, Nodes, g) PROVE g[Nodes] = 1
  BY <1>1, <1>4, AddsOne, FailoverAssumption
<1>5. PrincipalsOf(some, none) = 1
  <2>1. PICK g : Adds(v, Nodes, g) /\ PrincipalsOf(some, none) = g[Nodes]
    BY <1>1, <1>2, PrincipalsAdd
  <2> QED
    BY <1>4, <2>1
<1>6. PrincipalsOf(none, some) = 1
  <2>1. PICK g : Adds(v, Nodes, g) /\ PrincipalsOf(none, some) = g[Nodes]
    BY <1>1, <1>3, PrincipalsAdd
  <2> QED
    BY <1>4, <2>1
<1> QED
  BY <1>5, <1>6 DEF some, none

(* One node executes a step.                                               *)
LEMMA OneExecution ==
    ASSUME NEW T, IsFiniteSet(T), NEW n \in Nodes, NEW x \in T
    PROVE  ExecutionsOf(Single(T, n, x)) = 1
<1> DEFINE v == One(Nodes, n)
           some == Single(T, n, x)
<1>1. /\ \A m \in Nodes : v[m] = Count(some[m]) /\ v[m] \in Nat
      /\ v[n] = 1 /\ \A m \in Nodes : m # n => v[m] = 0
  BY SingleCounts
<1> HIDE DEF v, some
<1>2. PICK g : Adds(v, Nodes, g) /\ ExecutionsOf(some) = g[Nodes]
  BY <1>1, ExecutionsAdd
<1>3. g[Nodes] = 1
  BY <1>1, <1>2, AddsOne, FailoverAssumption
<1> QED
  BY <1>2, <1>3 DEF some

(* Where nothing was there is the one thing.                               *)
LEMMA PutOne ==
    ASSUME NEW T, NEW n \in Nodes, NEW x \in T
    PROVE  [Nowhere(T) EXCEPT ![n][x] = @ + 1] = Single(T, n, x)
<1> DEFINE f == [Nowhere(T) EXCEPT ![n][x] = @ + 1]
<1>1. \A m \in Nodes : Nowhere(T)[m] = Zero(T)
  BY DEF Nowhere
<1>2. f = [m \in Nodes |-> IF m = n THEN [Zero(T) EXCEPT ![x] = @ + 1] ELSE Zero(T)]
  BY <1>1 DEF Nowhere
<1>3. [Zero(T) EXCEPT ![x] = @ + 1] = One(T, x)
  BY DEF Zero, One
<1> QED
  BY <1>2, <1>3 DEF Single

(* What is taken is gone, also when nothing need have been there.          *)
LEMMA TakeOne ==
    ASSUME NEW T, NEW n \in Nodes, NEW x \in T
    PROVE  /\ [Single(T, n, x) EXCEPT ![n][x] = @ - 1] = Nowhere(T)
           /\ [Single(T, n, x) EXCEPT ![n][x] = IF @ > 0 THEN @ - 1 ELSE 0] = Nowhere(T)
<1>1. \A m \in Nodes : Single(T, n, x)[m] = IF m = n THEN One(T, x) ELSE Zero(T)
  BY DEF Single
<1>2. [Single(T, n, x) EXCEPT ![n][x] = @ - 1]
         = [m \in Nodes |-> IF m = n THEN [One(T, x) EXCEPT ![x] = @ - 1] ELSE Zero(T)]
  BY <1>1 DEF Single
<1>6. One(T, x)[x] = 1
  BY DEF One
<1>7. [One(T, x) EXCEPT ![x] = 0] = Zero(T)
  BY DEF Zero, One
<1>8. 1 - 1 = 0 /\ 1 > 0
  OBVIOUS
<1>3. [One(T, x) EXCEPT ![x] = @ - 1] = Zero(T)
  BY <1>6, <1>7, <1>8
<1>4. [Single(T, n, x) EXCEPT ![n][x] = IF @ > 0 THEN @ - 1 ELSE 0]
         = [m \in Nodes |-> IF m = n THEN [One(T, x) EXCEPT ![x] = IF @ > 0 THEN @ - 1 ELSE 0]
                            ELSE Zero(T)]
  BY <1>1 DEF Single
<1>5. [One(T, x) EXCEPT ![x] = IF @ > 0 THEN @ - 1 ELSE 0] = Zero(T)
  BY <1>6, <1>7, <1>8
<1> QED
  BY <1>2, <1>3, <1>4, <1>5 DEF Nowhere

(* Nothing is found where nothing is.                                      *)
LEMMA NobodyHasOne ==
    ASSUME NEW T, NEW m \in Nodes, NEW y \in T
    PROVE  ~(Nowhere(T)[m][y] > 0)
BY DEF Nowhere, Zero

(* Only the node that has the one thing is found to have it.               *)
LEMMA WhoHasOne ==
    ASSUME NEW T, NEW n, NEW x, NEW m \in Nodes, NEW y \in T, Single(T, n, x)[m][y] > 0
    PROVE  m = n /\ y = x
BY DEF Single, Zero, One

Silent == [p \in Pairs |-> <<>>]
Carrying(n, m, k) == [p \in Pairs |-> IF p = <<n, m>> THEN <<k>> ELSE <<>>]

(* The same for messages.                                                  *)
LEMMA CarryOne ==
    ASSUME NEW n \in Nodes, NEW m \in Nodes, NEW k
    PROVE  /\ [Silent EXCEPT ![<<n, m>>] = Append(@, k)] = Carrying(n, m, k)
           /\ [Carrying(n, m, k) EXCEPT ![<<n, m>>] = Tail(@)] = Silent
           /\ Carrying(n, m, k)[<<n, m>>] = <<k>>
<1>1. <<n, m>> \in Pairs /\ \A a, b \in Nodes : <<a, b>> \in Pairs
  BY DEF Pairs
<1>2. Append(<<>>, k) = <<k>> /\ Tail(<<k>>) = <<>> /\ Head(<<k>>) = k
  OBVIOUS
<1>3. [Silent EXCEPT ![<<n, m>>] = Append(@, k)] = Carrying(n, m, k)
  BY <1>1, <1>2 DEF Silent, Carrying
<1>4. [Carrying(n, m, k) EXCEPT ![<<n, m>>] = Tail(@)] = Silent
  BY <1>1, <1>2 DEF Silent, Carrying
<1>5. Carrying(n, m, k)[<<n, m>>] = <<k>>
  BY <1>1 DEF Carrying
<1> QED
  BY <1>3, <1>4, <1>5

(* Only the connection that carries the message has something to read.     *)
LEMMA WhoCarries ==
    ASSUME NEW n \in Nodes, NEW m \in Nodes
    PROVE  /\ Silent[<<n, m>>] = <<>>
           /\ \A a, b, k : Carrying(a, b, k)[<<n, m>>] # <<>> => n = a /\ m = b
<1>1. <<n, m>> \in Pairs
  BY DEF Pairs
<1> QED
  BY <1>1 DEF Silent, Carrying

-----------------------------------------------------------------------------
(***************************************************************************)
(* Where the one principal is as long as nothing fails: node n has it      *)
(* ready to send step i, or it waits at n for that step, which runs there, *)
(* is on its way to a neighbour m, runs at m or is on its way back.        *)
(***************************************************************************)
Places == Step \X (Nodes \cup {NoNode})

Over ==
    /\ finished
    /\ ready = Nowhere(Step) /\ waiting = Nowhere(Step)
    /\ running = Nowhere(Places) /\ wire = Silent

Prepared(n, i) ==
    /\ ~finished
    /\ ready = Single(Step, n, i) /\ waiting = Nowhere(Step)
    /\ running = Nowhere(Places) /\ wire = Silent

Waits(n, i) == ~finished /\ ready = Nowhere(Step) /\ waiting = Single(Step, n, i)

AtHome(n, i) == Waits(n, i) /\ running = Single(Places, n, <<i, NoNode>>) /\ wire = Silent

SentTo(n, m, i) ==
    Waits(n, i) /\ running = Nowhere(Places) /\ wire = Carrying(n, m, Upstream(i))

RunsAt(n, m, i) == Waits(n, i) /\ running = Single(Places, m, <<i, n>>) /\ wire = Silent

ReturnsFrom(n, m, i) ==
    Waits(n, i) /\ running = Nowhere(Places) /\ wire = Carrying(m, n, Downstream(i))

OnePrincipalAt ==
    \/ Over
    \/ \E n \in Nodes, i \in Step :
          \/ Prepared(n, i) \/ AtHome(n, i)
          \/ \E m \in client[n] : SentTo(n, m, i) \/ RunsAt(n, m, i) \/ ReturnsFrom(n, m, i)

(* Clients come in pairs and stay, and nothing is recovered.               *)
Undisturbed ==
    /\ alive = Nodes /\ broken = {} /\ recovering = [n \in Nodes |-> <<>>]
    /\ client \in [Nodes -> SUBSET Nodes]
    /\ \A n, m \in Nodes : m \in client[n] <=> n \in client[m]

Calm == Undisturbed /\ OnePrincipalAt

Inv == steps \in DOMAIN MaxFailures /\ failures \in Nat /\ (failures = 0 => Calm)

(* The numbers of the steps.                                               *)
LEMMA Steps ==
    ASSUME steps \in DOMAIN MaxFailures
    PROVE  /\ steps \in Nat /\ 1 \in Step /\ IsFiniteSet(Step) /\ IsFiniteSet(Places)
           /\ \A i \in Step : i \in Nat /\ (i # steps => i + 1 \in Step)
           /\ \A i \in Step, n \in Nodes \cup {NoNode} : <<i, n>> \in Places
<1>1. steps \in Nat \ {0}
  BY FailoverAssumption
<1>2. IsFiniteSet(Step)
  BY <1>1, FS_Interval DEF Step
<1>3. IsFiniteSet(Nodes \cup {NoNode})
  BY FailoverAssumption, FS_AddElement
<1>4. IsFiniteSet(Places)
  BY <1>2, <1>3, FS_Product DEF Places
<1> QED
  BY <1>1, <1>2, <1>4 DEF Step, Places

(* At first the principal is ready at its home.                            *)
LEMMA InitInv == Init => Inv
<1> SUFFICES ASSUME Init PROVE Inv
  OBVIOUS
<1>1. steps \in DOMAIN MaxFailures /\ failures \in Nat
  BY DEF Init
<1>2. Undisturbed
  BY DEF Init, Undisturbed
<1>3. Home \in Nodes /\ 1 \in Step
  BY <1>1, Steps, FailoverAssumption
<1>4. Nothing = Zero(Step) /\ NotRunning = Zero(Places)
  BY DEF Nothing, NotRunning, Zero, Places
<1>5. [Nothing EXCEPT ![1] = 1] = One(Step, 1)
  BY <1>3, <1>4 DEF Zero, One
<1>6. ready = Single(Step, Home, 1)
  BY <1>4, <1>5 DEF Init, Single
<1>7. waiting = Nowhere(Step) /\ running = Nowhere(Places) /\ wire = Silent /\ ~finished
  BY <1>4 DEF Init, Nowhere, Silent
<1>8. OnePrincipalAt
  BY <1>3, <1>6, <1>7 DEF OnePrincipalAt, Prepared
<1> QED
  BY <1>1, <1>2, <1>8 DEF Inv, Calm

(* The failures are counted.                                               *)
LEMMA FailuresAdd ==
    ASSUME Move
    PROVE  failures' = failures \/ failures' = failures + 1
<1>1. ASSUME NEW D, Down(D) PROVE failures' = failures + 1
  BY <1>1 DEF Down
<1>2. ASSUME NEW n \in Nodes, Recover(n) \/ Crash(n) \/ Restart(n)
      PROVE  failures' = failures \/ failures' = failures + 1
  BY <1>1, <1>2 DEF Recover, Crash, Restart
<1>3. PowerFailure => failures' = failures + 1
  BY <1>1 DEF PowerFailure
<1>4. ASSUME NEW n \in Nodes, NEW m \in Nodes,
             Connect(n, m) \/ Deliver(m, n) \/ Notice(n, m) \/ Break(n, m)
      PROVE  failures' = failures \/ failures' = failures + 1
  BY <1>4 DEF Connect, Deliver, Notice, Break
<1>5. ASSUME NEW n \in Nodes, NEW i \in Step, Launch(n, i) PROVE failures' = failures
  BY <1>5 DEF Launch
<1>6. ASSUME NEW n \in Nodes, NEW i \in Step, NEW from \in Nodes \cup {NoNode},
             Finish(n, i, from)
      PROVE  failures' = failures
  BY <1>6 DEF Finish
<1> QED
  BY <1>2, <1>3, <1>4, <1>5, <1>6 DEF Move

(* Where the principal is does not depend on the other variables.          *)
LEMMA Elsewhere ==
    ASSUME OnePrincipalAt, UNCHANGED <<steps, process, wire>>,
           \A n \in Nodes : client[n] \subseteq client'[n]
    PROVE  OnePrincipalAt'
<1>1. /\ UNCHANGED <<steps, running, waiting, ready, finished, wire>>
      /\ Step' = Step /\ Places' = Places
  BY DEF process, Step, Places
<1>2. Over => Over'
  BY <1>1 DEF Over
<1>3. ASSUME NEW n \in Nodes, NEW i \in Step
      PROVE  (Prepared(n, i) => Prepared(n, i)') /\ (AtHome(n, i) => AtHome(n, i)')
  BY <1>1 DEF Prepared, AtHome, Waits
<1>4. ASSUME NEW n \in Nodes, NEW i \in Step, NEW m
      PROVE  /\ SentTo(n, m, i) => SentTo(n, m, i)'
             /\ RunsAt(n, m, i) => RunsAt(n, m, i)'
             /\ ReturnsFrom(n, m, i) => ReturnsFrom(n, m, i)'
  BY <1>1 DEF SentTo, RunsAt, ReturnsFrom, Waits
<1>5. CASE Over
  BY <1>2, <1>5 DEF OnePrincipalAt
<1>6. ASSUME NEW n \in Nodes, NEW i \in Step, Prepared(n, i) \/ AtHome(n, i)
      PROVE  OnePrincipalAt'
  BY <1>1, <1>3, <1>6 DEF OnePrincipalAt
<1>7. ASSUME NEW n \in Nodes, NEW i \in Step, NEW m \in client[n],
             SentTo(n, m, i) \/ RunsAt(n, m, i) \/ ReturnsFrom(n, m, i)
      PROVE  OnePrincipalAt'
  <2>1. m \in client'[n] /\ i \in Step'
    BY <1>1
  <2>2. (SentTo(n, m, i) \/ RunsAt(n, m, i) \/ ReturnsFrom(n, m, i))'
    BY <1>4, <1>7
  <2> QED
    BY <2>1, <2>2 DEF OnePrincipalAt
<1> QED
  BY <1>5, <1>6, <1>7 DEF OnePrincipalAt

(* A new connection gives each end a client of the other.                  *)
LEMMA ConnectKeeps ==
    ASSUME Calm, UNCHANGED steps, NEW n \in Nodes, NEW m \in Nodes, Connect(n, m)
    PROVE  Calm'
<1>1. client \in [Nodes -> SUBSET Nodes] /\ \A a, b \in Nodes : b \in client[a] <=> a \in client[b]
  BY DEF Calm, Undisturbed
<1>2. client' = [client EXCEPT ![n] = @ \cup {m}, ![m] = @ \cup {n}]
      /\ UNCHANGED <<alive, broken, recovering, wire, process>> /\ n # m
  BY DEF Connect, Connected
<1>3. \A a \in Nodes : client'[a] = client[a] \cup IF a = n THEN {m} ELSE IF a = m THEN {n} ELSE {}
  BY <1>1, <1>2
<1>4. client' \in [Nodes -> SUBSET Nodes]
  BY <1>1, <1>2
<1>5. \A a, b \in Nodes : b \in client'[a] <=> a \in client'[b]
  BY <1>1, <1>2, <1>3
<1>6. Undisturbed'
  BY <1>2, <1>4, <1>5 DEF Calm, Undisturbed
<1>7. \A a \in Nodes : client[a] \subseteq client'[a]
  BY <1>3
<1>8. OnePrincipalAt'
  BY <1>2, <1>7, Elsewhere DEF Calm
<1> QED
  BY <1>6, <1>8 DEF Calm

(* A step that is sent has been sent by the one principal.                 *)
LEMMA LaunchKeeps ==
    ASSUME Calm, steps \in DOMAIN MaxFailures, UNCHANGED steps,
           NEW n \in Nodes, NEW i \in Step, Launch(n, i)
    PROVE  Calm'
<1>1. Step' = Step /\ Places' = Places /\ <<i, NoNode>> \in Places
  BY Steps DEF Step, Places
<1>2. /\ ready[n][i] > 0
      /\ ready' = [ready EXCEPT ![n][i] = @ - 1]
      /\ waiting' = [waiting EXCEPT ![n][i] = @ + 1]
      /\ UNCHANGED <<alive, client, broken, recovering, finished>> /\ Send(n, i)
  BY DEF Launch
<1>3. Undisturbed'
  BY <1>2 DEF Calm, Undisturbed
<1>4. Prepared(n, i)
  <2>1. ~(ready = Nowhere(Step))
    BY <1>2, NobodyHasOne
  <2>2. PICK a \in Nodes, j \in Step : Prepared(a, j)
    BY <2>1 DEF Calm, OnePrincipalAt, Over, AtHome, SentTo, RunsAt, ReturnsFrom, Waits
  <2>3. a = n /\ j = i
    BY <1>2, <2>2, WhoHasOne DEF Prepared
  <2> QED
    BY <2>2, <2>3
<1>5. Waits(n, i)'
  <2>1. ready' = Nowhere(Step)
    BY <1>2, <1>4, TakeOne DEF Prepared
  <2>2. waiting' = Single(Step, n, i)
    BY <1>2, <1>4, PutOne DEF Prepared
  <2> QED
    BY <1>1, <1>2, <1>4, <2>1, <2>2 DEF Waits, Prepared
<1>6. CASE client[n] = {}
  <2>1. running' = [running EXCEPT ![n][<<i, NoNode>>] = @ + 1] /\ wire' = wire
    BY <1>2, <1>6 DEF Send
  <2>2. running' = Single(Places, n, <<i, NoNode>>) /\ wire' = Silent
    BY <1>1, <1>4, <2>1, PutOne DEF Prepared
  <2>3. AtHome(n, i)'
    BY <1>1, <1>5, <2>2 DEF AtHome
  <2>4. OnePrincipalAt'
    BY <1>1, <2>3 DEF OnePrincipalAt
  <2> QED
    BY <1>3, <2>4 DEF Calm
<1>7. ASSUME NEW m \in client[n], wire' = WireWith(n, m, Upstream(i)), UNCHANGED running
      PROVE  Calm'
  <2>1. m \in Nodes /\ m \in client'[n] /\ broken = {}
    BY <1>2 DEF Calm, Undisturbed
  <2>2. wire' = [Silent EXCEPT ![<<n, m>>] = Append(@, Upstream(i))]
    BY <1>4, <1>7, <2>1 DEF WireWith, Prepared
  <2>3. wire' = Carrying(n, m, Upstream(i))
    BY <2>1, <2>2, CarryOne
  <2>4. Upstream(i)' = Upstream(i)
    BY DEF Upstream
  <2>5. SentTo(n, m, i)'
    BY <1>1, <1>4, <1>5, <1>7, <2>3, <2>4 DEF SentTo, Prepared
  <2>6. OnePrincipalAt'
    BY <1>1, <2>1, <2>5 DEF OnePrincipalAt
  <2> QED
    BY <1>3, <2>6 DEF Calm
<1> QED
  BY <1>2, <1>6, <1>7 DEF Send

(* The step that returns finds the principal that waits for it.            *)
LEMMA ResumeKeeps ==
    ASSUME steps \in DOMAIN MaxFailures, UNCHANGED steps, NEW n \in Nodes, NEW i \in Step,
           Waits(n, i), Resume(n, i), running' = Nowhere(Places), wire' = Silent
    PROVE  OnePrincipalAt'
<1>1. Step' = Step /\ Places' = Places
  BY DEF Step, Places
<1>2. /\ waiting' = [waiting EXCEPT ![n][i] = IF @ > 0 THEN @ - 1 ELSE 0]
      /\ finished' = (finished \/ i = steps)
      /\ ready' = IF i = steps THEN ready ELSE [ready EXCEPT ![n][i + 1] = @ + 1]
  BY DEF Resume
<1>3. waiting' = Nowhere(Step)
  BY <1>2, TakeOne DEF Waits
<1>4. CASE i = steps
  <2>1. finished' /\ ready' = Nowhere(Step)
    BY <1>2, <1>4 DEF Waits
  <2>2. Over'
    BY <1>1, <1>3, <2>1 DEF Over
  <2> QED
    BY <2>2 DEF OnePrincipalAt
<1>5. CASE i # steps
  <2>1. i + 1 \in Step
    BY <1>5, Steps
  <2>2. ~finished'
    BY <1>2, <1>5 DEF Waits
  <2>3. ready' = Single(Step, n, i + 1)
    BY <1>2, <1>5, <2>1, PutOne DEF Waits
  <2>4. Prepared(n, i + 1)'
    BY <1>1, <1>3, <2>2, <2>3 DEF Prepared
  <2> QED
    BY <1>1, <2>1, <2>4 DEF OnePrincipalAt
<1> QED
  BY <1>4, <1>5

(* A step that ends is the one that was sent.                              *)
LEMMA FinishKeeps ==
    ASSUME Calm, steps \in DOMAIN MaxFailures, UNCHANGED steps,
           NEW n \in Nodes, NEW i \in Step, NEW from \in Nodes \cup {NoNode},
           Finish(n, i, from)
    PROVE  Calm'
<1>1. Step' = Step /\ Places' = Places /\ <<i, from>> \in Places
  BY Steps DEF Step, Places
<1>2. /\ running[n][<<i, from>>] > 0
      /\ running' = [running EXCEPT ![n][<<i, from>>] = @ - 1]
      /\ UNCHANGED <<alive, recovering>>
      /\ from = NoNode => Resume(n, i) /\ UNCHANGED <<connections, log>>
      /\ from # NoNode => Answer(n, from, i) /\ UNCHANGED <<waiting, ready, finished>>
  BY DEF Finish
<1>3. Undisturbed
  BY DEF Calm
<1>4. ~(running = Nowhere(Places))
  BY <1>1, <1>2, NobodyHasOne
<1>5. PICK a \in Nodes, j \in Step :
        AtHome(a, j) \/ \E m \in client[a] : RunsAt(a, m, j)
  BY <1>4 DEF Calm, OnePrincipalAt, Over, Prepared, SentTo, ReturnsFrom
<1>6. CASE AtHome(a, j)
  <2>1. <<j, NoNode>> \in Places
    BY Steps
  <2>2. a = n /\ <<j, NoNode>> = <<i, from>>
    <3> DEFINE x == <<j, NoNode>>
               y == <<i, from>>
    <3>1. x \in Places /\ y \in Places /\ Single(Places, a, x)[n][y] > 0
      BY <1>1, <1>2, <1>6, <2>1 DEF AtHome
    <3> HIDE DEF x, y
    <3>2. a = n /\ x = y
      BY <3>1, WhoHasOne
    <3> QED
      BY <3>2 DEF x, y
  <2>3. a = n /\ j = i /\ from = NoNode
    BY <2>2
  <2>4. running' = Nowhere(Places)
    BY <1>1, <1>2, <1>6, <2>3, TakeOne DEF AtHome
  <2>5. wire' = Silent /\ UNCHANGED <<client, broken>>
    BY <1>2, <1>6, <2>3 DEF AtHome, connections
  <2>6. OnePrincipalAt'
    BY <1>2, <1>6, <2>3, <2>4, <2>5, ResumeKeeps DEF AtHome
  <2>7. Undisturbed'
    BY <1>2, <1>3, <2>5 DEF Undisturbed
  <2> QED
    BY <2>6, <2>7 DEF Calm
<1>7. ASSUME NEW m \in client[a], RunsAt(a, m, j) PROVE Calm'
  <2>1. m \in Nodes /\ a \in client[m] /\ broken = {}
    BY <1>3 DEF Undisturbed
  <2>2. <<j, a>> \in Places
    BY Steps
  <2>3. m = n /\ <<j, a>> = <<i, from>>
    <3> DEFINE x == <<j, a>>
               y == <<i, from>>
    <3>1. x \in Places /\ y \in Places /\ Single(Places, m, x)[n][y] > 0
      BY <1>1, <1>2, <1>7, <2>2 DEF RunsAt
    <3> HIDE DEF x, y
    <3>2. m = n /\ x = y
      BY <3>1, WhoHasOne
    <3> QED
      BY <3>2 DEF x, y
  <2>4. m = n /\ j = i /\ from = a /\ from # NoNode
    BY <2>3, FailoverAssumption
  <2>5. running' = Nowhere(Places)
    BY <1>1, <1>2, <1>7, <2>4, TakeOne DEF RunsAt
  <2>6. Answer(n, a, i) /\ UNCHANGED <<waiting, ready, finished>>
    BY <1>2, <2>4
  <2>7. UNCHANGED <<client, broken>> /\ wire' = WireWith(n, a, Downstream(i))
    BY <2>1, <2>4, <2>6 DEF Answer
  <2>8. wire' = [Silent EXCEPT ![<<n, a>>] = Append(@, Downstream(i))]
    BY <1>7, <2>1, <2>7 DEF WireWith, RunsAt
  <2>9. wire' = Carrying(n, a, Downstream(i))
    BY <2>1, <2>4, <2>8, CarryOne
  <2>10. Downstream(i)' = Downstream(i)
    BY DEF Downstream
  <2>11. Waits(a, i)'
    BY <1>1, <1>7, <2>4, <2>6 DEF Waits, RunsAt
  <2>12. ReturnsFrom(a, n, i)'
    BY <1>1, <2>5, <2>9, <2>10, <2>11 DEF ReturnsFrom
  <2>13. n \in client'[a]
    BY <2>4, <2>7
  <2>14. OnePrincipalAt'
    BY <1>1, <2>12, <2>13 DEF OnePrincipalAt
  <2>15. Undisturbed'
    BY <1>2, <1>3, <2>7 DEF Undisturbed
  <2> QED
    BY <2>14, <2>15 DEF Calm
<1> QED
  BY <1>5, <1>6, <1>7

(* What a node reads is the step on its way to m or back from it.          *)
LEMMA DeliverKeeps ==
    ASSUME Calm, steps \in DOMAIN MaxFailures, UNCHANGED steps,
           NEW n \in Nodes, NEW m \in Nodes, Deliver(m, n)
    PROVE  Calm'
<1> DEFINE k == Head(wire[<<m, n>>])
<1>1. Step' = Step /\ Places' = Places
  BY DEF Step, Places
<1>2. /\ wire[<<m, n>>] # <<>>
      /\ wire' = [wire EXCEPT ![<<m, n>>] = Tail(@)]
      /\ UNCHANGED <<alive, client, broken, recovering>>
      /\ k.phase = "upstream" => /\ running' = [running EXCEPT ![n][<<k.step, m>>] = @ + 1]
                                 /\ UNCHANGED <<waiting, ready, finished>>
      /\ k.phase # "upstream" => Resume(n, k.step) /\ UNCHANGED running
  BY DEF Deliver
<1>3. Undisturbed'
  BY <1>2 DEF Calm, Undisturbed
<1>4. wire # Silent
  BY <1>2, WhoCarries
<1>5. PICK a \in Nodes, j \in Step, b \in Nodes :
        b \in client[a] /\ (SentTo(a, b, j) \/ ReturnsFrom(a, b, j))
  <2>1. \A a \in Nodes : client[a] \subseteq Nodes
    BY DEF Calm, Undisturbed
  <2>2. PICK a \in Nodes, j \in Step :
          \E b \in client[a] : SentTo(a, b, j) \/ ReturnsFrom(a, b, j)
    BY <1>4 DEF Calm, OnePrincipalAt, Over, Prepared, AtHome, RunsAt
  <2> QED
    BY <2>1, <2>2
<1>6. CASE SentTo(a, b, j)
  <2>1. wire = Carrying(a, b, Upstream(j)) /\ Waits(a, j) /\ running = Nowhere(Places)
    BY <1>6 DEF SentTo
  <2>2. m = a /\ n = b
    BY <1>2, <2>1, WhoCarries
  <2>3. wire' = Silent /\ wire[<<m, n>>] = <<Upstream(j)>>
    <3>1. /\ [Carrying(a, b, Upstream(j)) EXCEPT ![<<a, b>>] = Tail(@)] = Silent
          /\ Carrying(a, b, Upstream(j))[<<a, b>>] = <<Upstream(j)>>
      BY CarryOne
    <3> QED
      BY <1>2, <2>1, <2>2, <3>1
  <2>4. k.phase = "upstream" /\ k.step = j
    BY <2>3 DEF Upstream
  <2>5. running' = [running EXCEPT ![n][<<j, m>>] = @ + 1] /\ UNCHANGED <<waiting, ready, finished>>
    BY <1>2, <2>4
  <2>6. <<j, m>> \in Places
    BY Steps
  <2>7. running' = Single(Places, n, <<j, m>>)
    BY <2>1, <2>5, <2>6, PutOne
  <2>8. Waits(a, j)'
    BY <1>1, <2>1, <2>5 DEF Waits
  <2>9. RunsAt(a, b, j)'
    BY <1>1, <2>2, <2>3, <2>7, <2>8 DEF RunsAt
  <2>10. b \in client'[a] /\ j \in Step'
    BY <1>1, <1>2, <1>5
  <2>11. OnePrincipalAt'
    BY <2>9, <2>10 DEF OnePrincipalAt
  <2> QED
    BY <1>3, <2>11 DEF Calm
<1>7. CASE ReturnsFrom(a, b, j)
  <2>1. wire = Carrying(b, a, Downstream(j)) /\ Waits(a, j) /\ running = Nowhere(Places)
    BY <1>7 DEF ReturnsFrom
  <2>2. m = b /\ n = a
    BY <1>2, <2>1, WhoCarries
  <2>3. wire' = Silent /\ wire[<<m, n>>] = <<Downstream(j)>>
    <3>1. /\ [Carrying(b, a, Downstream(j)) EXCEPT ![<<b, a>>] = Tail(@)] = Silent
          /\ Carrying(b, a, Downstream(j))[<<b, a>>] = <<Downstream(j)>>
      BY CarryOne
    <3> QED
      BY <1>2, <2>1, <2>2, <3>1
  <2>4. k.phase # "upstream" /\ k.step = j
    BY <2>3 DEF Downstream
  <2>5. Resume(a, j) /\ running' = Nowhere(Places)
    BY <1>2, <2>1, <2>2, <2>4
  <2>6. OnePrincipalAt'
    BY <2>1, <2>3, <2>5, ResumeKeeps
  <2> QED
    BY <1>3, <2>6 DEF Calm
<1> QED
  BY <1>5, <1>6, <1>7

(* Every step.                                                             *)
LEMMA StepKeeps == Inv /\ [Next]_vars => Inv'
<1> SUFFICES ASSUME Inv, [Next]_vars PROVE Inv'
  OBVIOUS
<1>1. CASE UNCHANGED vars
  <2>1. UNCHANGED <<steps, moving>>
    BY <1>1 DEF vars
  <2>2. UNCHANGED <<alive, client, broken, recovering, failures, steps, process, wire>>
    BY <2>1 DEF moving, connections
  <2>3. OnePrincipalAt => OnePrincipalAt'
    BY <2>2, Elsewhere
  <2>4. Undisturbed => Undisturbed'
    BY <2>2 DEF Undisturbed
  <2> QED
    BY <2>2, <2>3, <2>4 DEF Inv, Calm
<1>2. CASE Next
  <2>1. Move /\ UNCHANGED steps
    BY <1>2 DEF Next
  <2>2. steps \in DOMAIN MaxFailures /\ failures \in Nat
    BY DEF Inv
  <2>3. failures' \in Nat /\ (failures' = 0 => failures = 0 /\ failures' # failures + 1)
    BY <2>1, <2>2, FailuresAdd
  <2>4. ASSUME failures' = 0 PROVE Calm'
    <3>1. Calm
      BY <2>3, <2>4 DEF Inv
    <3>2. Undisturbed
      BY <3>1 DEF Calm
    <3>3. ASSUME NEW D, Down(D) PROVE FALSE
      BY <2>3, <2>4, <3>3 DEF Down
    <3>4. ASSUME NEW n \in Nodes, NEW m \in Nodes, Notice(n, m) \/ Break(n, m) PROVE FALSE
      BY <2>3, <2>4, <3>2, <3>4 DEF Notice, Break, Undisturbed
    <3>5. ASSUME NEW n \in Nodes, Recover(n) \/ Crash(n) \/ Restart(n) PROVE FALSE
      <4>1. ~Recover(n)
        BY <3>2 DEF Recover, Undisturbed
      <4>2. ~Restart(n)
        BY <3>2 DEF Restart, Undisturbed
      <4>3. ~Crash(n)
        BY <3>3 DEF Crash
      <4> QED
        BY <3>5, <4>1, <4>2, <4>3
    <3>6. ~PowerFailure
      BY <3>3 DEF PowerFailure
    <3>7. ASSUME NEW n \in Nodes, NEW m \in Nodes, Connect(n, m) PROVE Calm'
      BY <2>1, <3>1, <3>7, ConnectKeeps
    <3>8. ASSUME NEW n \in Nodes, NEW m \in Nodes, Deliver(m, n) PROVE Calm'
      BY <2>1, <2>2, <3>1, <3>8, DeliverKeeps
    <3>9. ASSUME NEW n \in Nodes, NEW i \in Step, Launch(n, i) PROVE Calm'
      BY <2>1, <2>2, <3>1, <3>9, LaunchKeeps
    <3>10. ASSUME NEW n \in Nodes, NEW i \in Step, NEW from \in Nodes \cup {NoNode},
                  Finish(n, i, from)
           PROVE  Calm'
      BY <2>1, <2>2, <3>1, <3>10, FinishKeeps
    <3> QED
      BY <2>1, <3>4, <3>5, <3>6, <3>7, <3>8, <3>9, <3>10 DEF Move
  <2> QED
    BY <2>1, <2>2, <2>3, <2>4 DEF Inv
<1> QED
  BY <1>1, <1>2 DEF Next

(* The inductive invariant: without a failure there is one principal, at   *)
(* one point of its way.                                                   *)
THEOREM InvInvariance == Spec => []Inv
BY InitInv, StepKeeps, PTL DEF Spec

(* Copies of a principal that its steps carry stay asleep unless something *)
(* fails, on any number of nodes and for any number of steps: there is one *)
(* principal until it has finished and none after that, and one step is    *)
(* executed at a time.                                                     *)
THEOREM OnePrincipalWithoutFailure == Spec => []OneWithoutFailure
<1>1. ASSUME Inv, failures = 0
      PROVE  (Principals = IF finished THEN 0 ELSE 1) /\ Executions <= 1
  <2>1. steps \in DOMAIN MaxFailures /\ OnePrincipalAt /\ Undisturbed
    BY <1>1 DEF Inv, Calm
  <2>2. IsFiniteSet(Step) /\ IsFiniteSet(Places)
    BY <2>1, Steps
  <2>3. Principals = PrincipalsOf(waiting, ready) /\ Executions = ExecutionsOf(running)
    BY DEF Principals, PrincipalsOf, Executions, ExecutionsOf
  <2>4. ExecutionsOf(Nowhere(Places)) = 0
    BY <2>2, NoExecutions
  <2>5. ASSUME NEW n \in Nodes, NEW i \in Step, NEW from \in Nodes \cup {NoNode}
        PROVE  ExecutionsOf(Single(Places, n, <<i, from>>)) = 1
    BY <2>1, <2>2, Steps, OneExecution
  <2>6. ASSUME NEW n \in Nodes, NEW i \in Step, Waits(n, i)
        PROVE  Principals = IF finished THEN 0 ELSE 1
    <3>1. ~finished /\ waiting = Single(Step, n, i) /\ ready = Nowhere(Step)
      BY <2>6 DEF Waits
    <3>2. Principals = 1
      BY <2>2, <2>3, <3>1, OnePrincipal
    <3> QED
      BY <3>1, <3>2
  <2>7. CASE Over
    <3>1. Principals = 0
      BY <2>2, <2>3, <2>7, NoPrincipals DEF Over
    <3>2. Executions = 0
      BY <2>3, <2>4, <2>7 DEF Over
    <3> QED
      BY <2>7, <3>1, <3>2 DEF Over
  <2>8. ASSUME NEW n \in Nodes, NEW i \in Step, Prepared(n, i)
        PROVE  (Principals = IF finished THEN 0 ELSE 1) /\ Executions <= 1
    <3>1. ~finished /\ ready = Single(Step, n, i) /\ waiting = Nowhere(Step)
          /\ running = Nowhere(Places)
      BY <2>8 DEF Prepared
    <3>2. Principals = 1
      BY <2>2, <2>3, <3>1, OnePrincipal
    <3>3. Executions = 0
      BY <2>3, <2>4, <3>1
    <3> QED
      BY <3>1, <3>2, <3>3
  <2>9. ASSUME NEW n \in Nodes, NEW i \in Step, AtHome(n, i)
        PROVE  (Principals = IF finished THEN 0 ELSE 1) /\ Executions <= 1
    <3>1. Waits(n, i) /\ running = Single(Places, n, <<i, NoNode>>)
      BY <2>9 DEF AtHome
    <3>2. Executions = 1
      BY <2>3, <2>5, <3>1
    <3> QED
      BY <2>6, <3>1, <3>2
  <2>10. ASSUME NEW n \in Nodes, NEW i \in Step, NEW m \in client[n],
                SentTo(n, m, i) \/ RunsAt(n, m, i) \/ ReturnsFrom(n, m, i)
         PROVE  (Principals = IF finished THEN 0 ELSE 1) /\ Executions <= 1
    <3>1. Waits(n, i) /\ m \in Nodes
      BY <2>1, <2>10 DEF SentTo, RunsAt, ReturnsFrom, Undisturbed
    <3>2. running = Nowhere(Places) \/ running = Single(Places, m, <<i, n>>)
      BY <2>10 DEF SentTo, RunsAt, ReturnsFrom
    <3>3. Executions = 0 \/ Executions = 1
      BY <2>3, <2>4, <2>5, <3>1, <3>2
    <3> QED
      BY <2>6, <3>1, <3>3
  <2> QED
    BY <2>1, <2>7, <2>8, <2>9, <2>10 DEF OnePrincipalAt
<1>2. Inv => OneWithoutFailure
  BY <1>1 DEF OneWithoutFailure
<1> QED
  BY <1>2, InvInvariance, PTL
=============================================================================
