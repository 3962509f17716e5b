--------------------------- MODULE Discovery_proofs ---------------------------
(***************************************************************************)
(* Proofs about Discovery, for any number of nodes, any fan-out and any    *)
(* number of crashes.  The invariant is about versions and addresses: the  *)
(* version of a node is that in its cache, as every handler that changes   *)
(* it writes the cache before it ends; no record that anybody has or that  *)
(* is on its way is ahead of it; and a superior has a smaller address, as  *)
(* the nodes that a node probes are those before it in the tree.  The      *)
(* search is about conservation: a probe that is waited for is on its way, *)
(* comes back, or fails, and every handler puts one thing to wait for in   *)
(* the place of the one it takes.                                          *)
(***************************************************************************)
EXTENDS Discovery, SetLemmas

-----------------------------------------------------------------------------
(***************************************************************************)
(* Functions that are made of their values before, such as the layers of a *)
(* tree and the sequences that a fold builds.                              *)
(***************************************************************************)

(* g makes the next element of D from an index and an element of D, and f  *)
(* starts with x and goes on with g up to the index n.                     *)
StepIn(g, D) == \A i \in Nat : \A y \in D : g[<<i, y>>] \in D

Follows(f, x, g, n) == f[0] = x /\ \A i \in 1..n : f[i] = g[<<i, f[i - 1]>>]

(* A function on the naturals may be defined by its first value and by how *)
(* each value follows from the one before.                                 *)
LEMMA RecursionOnNat ==
    ASSUME NEW D, NEW x \in D, NEW g, StepIn(g, D)
    PROVE  \E f \in [Nat -> D] : \A n \in Nat : Follows(f, x, g, n)
<1> USE DEF StepIn
<1> DEFINE Part(n, h) == /\ h \in [0..n -> D]
                         /\ h[0] = x
                         /\ \A i \in 1..n : h[i] = g[<<i, h[i - 1]>>]
           P == {n \in Nat : \E h : Part(n, h)}
<1>1. P = Nat
  <2>1. 0 \in P
    <3>1. Part(0, [i \in 0..0 |-> x])
      OBVIOUS
    <3> QED
      BY <3>1
  <2>2. ASSUME NEW n \in P PROVE n + 1 \in P
    <3>1. PICK h : Part(n, h)
      OBVIOUS
    <3> DEFINE k == [i \in 0..(n + 1) |-> IF i = n + 1 THEN g[<<n + 1, h[n]>>] ELSE h[i]]
    <3>2. /\ k \in [0..(n + 1) -> D] /\ k[0] = x
      BY <3>1, n + 1 \in Nat, h[n] \in D
    <3>3. ASSUME NEW i \in 1..(n + 1) PROVE k[i] = g[<<i, k[i - 1]>>]
      <4>1. CASE i = n + 1
        BY <4>1
      <4>2. CASE i # n + 1
        <5>1. i \in 1..n /\ i - 1 \in 0..n /\ i \in 0..(n + 1) /\ i - 1 \in 0..(n + 1)
          BY <4>2
        <5>2. k[i] = h[i] /\ k[i - 1] = h[i - 1]
          BY <5>1, <4>2
        <5> QED
          BY <3>1, <5>1, <5>2
      <4> QED
        BY <4>1, <4>2
    <3> HIDE DEF k
    <3>4. Part(n + 1, k)
      BY <3>2, <3>3
    <3> QED
      BY <3>4
  <2> HIDE DEF P
  <2> QED
    BY <2>1, <2>2, InductiveSet DEF P
<1>2. ASSUME NEW n \in Nat, NEW m \in Nat, NEW h, NEW k, Part(n, h), Part(m, k), n <= m
      PROVE  \A i \in 0..n : h[i] = k[i]
  <2> DEFINE Q == {i \in Nat : i <= n => h[i] = k[i]}
  <2>1. 0 \in Q
    BY <1>2
  <2>2. ASSUME NEW i \in Q PROVE i + 1 \in Q
    <3>1. CASE i + 1 <= n
      <4>1. i + 1 \in 1..n /\ i + 1 \in 1..m /\ h[i] = k[i] /\ (i + 1) - 1 = i
        BY <1>2, <3>1
      <4>2. h[i + 1] = g[<<i + 1, h[i]>>] /\ k[i + 1] = g[<<i + 1, k[i]>>]
        BY <1>2, <4>1
      <4> QED
        BY <4>1, <4>2
    <3>2. CASE ~(i + 1 <= n)
      BY <3>2
    <3> QED
      BY <3>1, <3>2
  <2>3. Q = Nat
    <3> HIDE DEF Q
    <3> QED
      BY <2>1, <2>2, InductiveSet DEF Q
  <2> QED
    BY <2>3
<1> DEFINE last(n) == CHOOSE h : Part(n, h)
           f == [n \in Nat |-> last(n)[n]]
<1>3. ASSUME NEW n \in Nat PROVE Part(n, last(n))
  <2>1. \E h : Part(n, h)
    BY <1>1
  <2> HIDE DEF Part
  <2> QED
    BY <2>1
<1> HIDE DEF last
<1>4. f \in [Nat -> D] /\ f[0] = x
  BY <1>3
<1>5. ASSUME NEW i \in Nat \ {0} PROVE f[i] = g[<<i, f[i - 1]>>]
  <2>1. i - 1 \in Nat /\ i - 1 \in 0..i /\ i \in 1..i /\ i - 1 \in 0..(i - 1)
    OBVIOUS
  <2>2. last(i - 1)[i - 1] = last(i)[i - 1]
    <3>1. Part(i, last(i)) /\ Part(i - 1, last(i - 1)) /\ i - 1 <= i /\ i \in Nat /\ i - 1 \in Nat
      BY <1>3, <2>1
    <3> HIDE DEF Part
    <3> QED
      BY <1>2, <2>1, <3>1
  <2>3. last(i)[i] = g[<<i, last(i)[i - 1]>>]
    BY <1>3, <2>1
  <2> QED
    BY <2>1, <2>2, <2>3
<1> HIDE DEF f
<1> QED
  BY <1>4, <1>5 DEF Follows

(* The same for a function on an interval.                                 *)
LEMMA RecursionOnInterval ==
    ASSUME NEW D, NEW x \in D, NEW n \in Nat, NEW g, StepIn(g, D)
    PROVE  \E f \in [0..n -> D] : Follows(f, x, g, n)
<1>1. PICK h \in [Nat -> D] : \A m \in Nat : Follows(h, x, g, m)
  BY RecursionOnNat
<1> DEFINE f == [i \in 0..n |-> h[i]]
<1>2. f \in [0..n -> D] /\ f[0] = x
  BY <1>1 DEF Follows
<1>3. ASSUME NEW i \in 1..n PROVE f[i] = g[<<i, f[i - 1]>>]
  BY <1>1 DEF Follows
<1> HIDE DEF f
<1> QED
  BY <1>2, <1>3 DEF Follows

-----------------------------------------------------------------------------
(***************************************************************************)
(* The tree of positions, whose layers have fanout times as many nodes     *)
(* each, and its iterator, which goes from the parent of a node over the   *)
(* layers above and the older nodes of its own layer.                      *)
(***************************************************************************)

(* The layers of a tree: each has fanout times as many nodes as the one     *)
(* above it, and at least one.                                              *)
LEMMA LayerSizes ==
    ASSUME NEW f \in Nat \ {0}
    PROVE  /\ NumNodes(0, f) = 1
           /\ \A l \in Nat : /\ NumNodes(l, f) \in Nat \ {0}
                             /\ NumNodes(l + 1, f) = NumNodes(l, f) * f
<1> DEFINE D == Nat \ {0}
           g == [p \in Nat \X D |-> p[2] * f]
           IsNodes(h) == h = [i \in Nat |-> IF i = 0 THEN 1 ELSE h[i - 1] * f]
           nodes == CHOOSE h : IsNodes(h)
<1>1. \A i \in Nat : \A y \in D : g[<<i, y>>] = y * f /\ y * f \in D
  OBVIOUS
<1>2. PICK h \in [Nat -> D] : \A n \in Nat : Follows(h, 1, g, n)
  <2>1. StepIn(g, D) /\ 1 \in D
    BY <1>1 DEF StepIn
  <2> HIDE DEF g, D
  <2> QED
    BY <2>1, RecursionOnNat
<1>3. h[0] = 1 /\ \A i \in Nat \ {0} : h[i] = h[i - 1] * f
  <2>1. ASSUME NEW i \in Nat \ {0} PROVE h[i] = h[i - 1] * f
    <3>1. i \in 1..i /\ i - 1 \in Nat
      OBVIOUS
    <3>2. h[i] = g[<<i, h[i - 1]>>] /\ h[i - 1] \in D
      BY <1>2, <3>1 DEF Follows
    <3> QED
      BY <1>1, <3>2
  <2> QED
    BY <1>2, <2>1 DEF Follows
<1>4. IsNodes(h)
  <2>1. \A i \in Nat : h[i] = IF i = 0 THEN 1 ELSE h[i - 1] * f
    BY <1>3
  <2> QED
    BY <1>2, <2>1
<1>5. IsNodes(nodes)
  <2> HIDE DEF IsNodes
  <2> QED
    BY <1>4
<1>6. \A l \in Nat : NumNodes(l, f) = nodes[l]
  BY DEF NumNodes
<1> HIDE DEF nodes
<1>7. nodes[0] = 1 /\ \A i \in Nat : nodes[i + 1] = nodes[i] * f
  BY <1>5
<1> DEFINE P == {i \in Nat : nodes[i] \in D}
<1>8. 0 \in P
  BY <1>7
<1>9. ASSUME NEW i \in P PROVE i + 1 \in P
  <2>1. i \in Nat /\ nodes[i] \in D /\ nodes[i + 1] = nodes[i] * f
    BY <1>7
  <2> QED
    BY <1>1, <2>1
<1> HIDE DEF P, IsNodes
<1>10. P = Nat
  BY <1>8, <1>9, InductiveSet DEF P
<1>11. ASSUME NEW l \in Nat
       PROVE  NumNodes(l, f) \in Nat \ {0} /\ NumNodes(l + 1, f) = NumNodes(l, f) * f
  <2>1. l \in P /\ l + 1 \in Nat
    BY <1>10
  <2> QED
    BY <1>6, <1>7, <2>1 DEF P
<1> QED
  BY <1>6, <1>7, <1>11

(* The layers above one hold at least as many nodes as there are layers.    *)
LEMMA LayerStarts ==
    ASSUME NEW f \in Nat \ {0}
    PROVE  /\ NodesAbove(0, f) = 0
           /\ \A l \in Nat : /\ NodesAbove(l, f) \in Nat
                             /\ NodesAbove(l, f) >= l
                             /\ NodesAbove(l + 1, f) = NodesAbove(l, f) + NumNodes(l, f)
<1> DEFINE g == [p \in Nat \X Nat |-> IF p[1] = 0 THEN 0 ELSE p[2] + NumNodes(p[1] - 1, f)]
           IsAbove(h) == h = [i \in Nat |-> IF i = 0 THEN 0
                                            ELSE h[i - 1] + NumNodes(i - 1, f)]
           above == CHOOSE h : IsAbove(h)
<1>0. \A i \in Nat \ {0} : NumNodes(i - 1, f) \in Nat \ {0}
  BY LayerSizes
<1>1. /\ \A i \in Nat : \A y \in Nat : g[<<i, y>>] \in Nat
      /\ \A i \in Nat \ {0} : \A y \in Nat : g[<<i, y>>] = y + NumNodes(i - 1, f)
  BY <1>0
<1>2. PICK h \in [Nat -> Nat] : \A n \in Nat : Follows(h, 0, g, n)
  <2>1. StepIn(g, Nat) /\ 0 \in Nat
    BY <1>1 DEF StepIn
  <2> HIDE DEF g
  <2> QED
    BY <2>1, RecursionOnNat
<1> HIDE DEF g
<1>3. h[0] = 0 /\ \A i \in Nat \ {0} : h[i] = h[i - 1] + NumNodes(i - 1, f)
  <2>1. ASSUME NEW i \in Nat \ {0} PROVE h[i] = h[i - 1] + NumNodes(i - 1, f)
    <3>1. i \in 1..i /\ i - 1 \in Nat
      OBVIOUS
    <3>2. h[i] = g[<<i, h[i - 1]>>] /\ h[i - 1] \in Nat
      BY <1>2, <3>1 DEF Follows
    <3> QED
      BY <1>1, <3>2
  <2> QED
    BY <1>2, <2>1 DEF Follows
<1>4. IsAbove(h)
  <2>1. \A i \in Nat : h[i] = IF i = 0 THEN 0 ELSE h[i - 1] + NumNodes(i - 1, f)
    BY <1>3
  <2> QED
    BY <1>2, <2>1
<1>5. IsAbove(above)
  <2> HIDE DEF IsAbove
  <2> QED
    BY <1>4
<1>6. \A l \in Nat : NodesAbove(l, f) = above[l]
  BY DEF NodesAbove
<1> HIDE DEF above
<1>7. above[0] = 0 /\ \A i \in Nat : above[i + 1] = above[i] + NumNodes(i, f)
  BY <1>5
<1> DEFINE P == {i \in Nat : above[i] \in Nat /\ above[i] >= i}
<1>8. 0 \in P
  BY <1>7
<1>9. ASSUME NEW i \in P PROVE i + 1 \in P
  <2>1. i \in Nat /\ above[i + 1] = above[i] + NumNodes(i, f) /\ NumNodes(i, f) \in Nat \ {0}
    BY <1>7, LayerSizes
  <2> QED
    BY <2>1
<1> HIDE DEF P, IsAbove
<1>10. P = Nat
  BY <1>8, <1>9, InductiveSet DEF P
<1>11. ASSUME NEW l \in Nat
       PROVE  /\ NodesAbove(l, f) \in Nat
              /\ NodesAbove(l, f) >= l
              /\ NodesAbove(l + 1, f) = NodesAbove(l, f) + NumNodes(l, f)
  <2>1. l \in P /\ l + 1 \in Nat
    BY <1>10
  <2> QED
    BY <1>6, <1>7, <2>1 DEF P
<1> QED
  BY <1>6, <1>7, <1>11

(* Lower layers start later.                                                *)
LEMMA LayersAscend ==
    ASSUME NEW f \in Nat \ {0}, NEW k \in Nat, NEW l \in Nat, k < l
    PROVE  NodesAbove(k, f) + NumNodes(k, f) <= NodesAbove(l, f)
<1> DEFINE P == {n \in Nat : NodesAbove(k + 1, f) <= NodesAbove(k + 1 + n, f)}
<1>1. 0 \in P
  BY LayerStarts
<1>2. ASSUME NEW n \in P PROVE n + 1 \in P
  <2>1. NodesAbove((k + 1 + n) + 1, f) = NodesAbove(k + 1 + n, f) + NumNodes(k + 1 + n, f)
    BY LayerStarts, k + 1 + n \in Nat
  <2>2. /\ NumNodes(k + 1 + n, f) \in Nat /\ NodesAbove(k + 1 + n, f) \in Nat
        /\ NodesAbove(k + 1, f) \in Nat
    BY LayerStarts, LayerSizes, k + 1 + n \in Nat, k + 1 \in Nat
  <2>3. (k + 1 + n) + 1 = k + 1 + (n + 1)
    OBVIOUS
  <2> QED
    BY <2>1, <2>2, <2>3
<1> HIDE DEF P
<1>3. P = Nat
  BY <1>1, <1>2, InductiveSet DEF P
<1>4. l - (k + 1) \in P /\ k + 1 + (l - (k + 1)) = l
  BY <1>3
<1> QED
  BY <1>4, LayerStarts DEF P

(* The quotient is where the multiples of the divisor say.                  *)
LEMMA Quotient ==
    ASSUME NEW x \in Nat, NEW f \in Nat \ {0}, NEW q \in Nat, q * f <= x, x < q * f + f
    PROVE  x \div f = q
OBVIOUS

(* Division rounds down: so the parents of a layer are found                *)
(* (position_in_tree.hh).                                                   *)
LEMMA QuotientBounds ==
    ASSUME NEW x \in Nat, NEW f \in Nat \ {0}
    PROVE  x \div f \in Nat /\ (x \div f) * f <= x /\ x < (x \div f) * f + f
OBVIOUS

(* The positions of a tree: a layer has so many of them.                    *)
Positions(f) == {pos \in [layer : Nat, offset : Nat] : pos.offset < NumNodes(pos.layer, f)}

(* Positions have different addresses, which are positive.                  *)
LEMMA AddressIsPositive ==
    ASSUME NEW f \in Nat \ {0}, NEW pos \in Positions(f)
    PROVE  ToAddress(pos, f) \in Nat \ {0}
<1>1. NodesAbove(pos.layer, f) \in Nat /\ pos.offset \in Nat
  BY LayerStarts DEF Positions
<1> QED
  BY <1>1 DEF ToAddress

(* No two positions of a tree have the same address.                        *)
LEMMA AddressInjective ==
    ASSUME NEW f \in Nat \ {0}, NEW a \in Positions(f), NEW b \in Positions(f),
           ToAddress(a, f) = ToAddress(b, f)
    PROVE  a = b
<1>1. ASSUME NEW c \in Positions(f), NEW d \in Positions(f), c.layer < d.layer
      PROVE  ToAddress(c, f) < ToAddress(d, f)
  <2>1. NodesAbove(c.layer, f) + NumNodes(c.layer, f) <= NodesAbove(d.layer, f)
    BY <1>1, LayersAscend DEF Positions
  <2>2. /\ NodesAbove(c.layer, f) \in Nat /\ NodesAbove(d.layer, f) \in Nat
        /\ NumNodes(c.layer, f) \in Nat
    BY LayerStarts, LayerSizes DEF Positions
  <2> QED
    BY <2>1, <2>2 DEF Positions, ToAddress
<1>2. ToAddress(a, f) \in Nat /\ ToAddress(b, f) \in Nat
  BY AddressIsPositive
<1>3. a.layer = b.layer
  <2>1. ~(a.layer < b.layer) /\ ~(b.layer < a.layer)
    BY <1>1, <1>2
  <2> QED
    BY <2>1 DEF Positions
<1>4. a.offset = b.offset
  <2>1. NodesAbove(a.layer, f) \in Nat
    BY LayerStarts DEF Positions
  <2> QED
    BY <1>3, <2>1 DEF Positions, ToAddress
<1> QED
  BY <1>3, <1>4 DEF Positions

(* The position of a linear position is the one with this address.          *)
LEMMA PositionFound ==
    ASSUME NEW f \in Nat \ {0}, NEW p \in Nat \ {0}
    PROVE  /\ PositionInTree(p, f) \in Positions(f)
           /\ ToAddress(PositionInTree(p, f), f) = p
<1> DEFINE Within(l) == /\ NodesAbove(l, f) < p
                        /\ p <= NodesAbove(l, f) + NumNodes(l, f)
           S == {l \in Nat : p <= NodesAbove(l + 1, f)}
<1>1. PICK l \in S : \A k \in S : l <= k
  <2>1. p - 1 \in Nat /\ (p - 1) + 1 = p
    OBVIOUS
  <2>2. p - 1 \in S
    BY <2>1, LayerStarts
  <2> HIDE DEF S
  <2> QED
    BY <2>2, LeastNatural DEF S
<1>2. l \in 0..p - 1
  <2>1. p - 1 \in S
    BY LayerStarts
  <2> QED
    BY <1>1, <2>1
<1>3. NodesAbove(l, f) < p
  <2>1. CASE l = 0
    BY <2>1, LayerStarts
  <2>2. CASE l # 0
    <3>1. l - 1 \in Nat /\ l - 1 \notin S /\ (l - 1) + 1 = l
      BY <1>1, <2>2
    <3> QED
      BY <3>1, LayerStarts
  <2> QED
    BY <2>1, <2>2
<1>4. Within(l)
  BY <1>1, <1>3, LayerStarts
<1> DEFINE layer == CHOOSE k \in 0..p - 1 : Within(k)
<1>5. layer \in 0..p - 1 /\ Within(layer)
  <2> HIDE DEF Within
  <2> QED
    BY <1>2, <1>4
<1>6. PositionInTree(p, f) = [layer |-> layer, offset |-> p - NodesAbove(layer, f) - 1]
  BY DEF PositionInTree
<1> HIDE DEF layer
<1>7. /\ layer \in Nat
      /\ NodesAbove(layer, f) \in Nat /\ NumNodes(layer, f) \in Nat
  BY <1>5, LayerStarts, LayerSizes
<1> QED
  BY <1>5, <1>6, <1>7 DEF Positions, ToAddress

(* A layer and its successor: what is above it fits the parents.            *)
LEMMA ParentsFit ==
    ASSUME NEW f \in Nat \ {0}, NEW l \in Nat
    PROVE  NodesAbove(l + 1, f) = 1 + NodesAbove(l, f) * f
<1> DEFINE P == {n \in Nat : NodesAbove(n + 1, f) = 1 + NodesAbove(n, f) * f}
<1>1. 0 \in P
  BY LayerStarts, LayerSizes
<1>2. ASSUME NEW n \in P PROVE n + 1 \in P
  <2>1. /\ NodesAbove(n + 1, f) = NodesAbove(n, f) + NumNodes(n, f)
        /\ NodesAbove(n + 1, f) = 1 + NodesAbove(n, f) * f
        /\ NodesAbove((n + 1) + 1, f) = NodesAbove(n + 1, f) + NumNodes(n + 1, f)
        /\ NumNodes(n + 1, f) = NumNodes(n, f) * f
    BY LayerStarts, LayerSizes, n + 1 \in Nat
  <2>2. NodesAbove(n, f) \in Nat /\ NumNodes(n, f) \in Nat /\ NodesAbove(n + 1, f) \in Nat
    BY LayerStarts, LayerSizes, n + 1 \in Nat
  <2>3. ASSUME NEW a \in Nat, NEW b \in Nat PROVE (a + b) * f = a * f + b * f
    OBVIOUS
  <2>4. NodesAbove(n + 1, f) * f = NodesAbove(n, f) * f + NumNodes(n, f) * f
    BY <2>1, <2>2, <2>3
  <2>5. NodesAbove(n, f) * f \in Nat /\ NumNodes(n, f) * f \in Nat
    BY <2>2
  <2>6. NodesAbove((n + 1) + 1, f) = 1 + NodesAbove(n + 1, f) * f
    BY <2>1, <2>4, <2>5
  <2> QED
    BY <2>6
<1> HIDE DEF P
<1>3. P = Nat
  BY <1>1, <1>2, InductiveSet DEF P
<1> QED
  BY <1>3 DEF P

(* The parent of a position is a position of the layer above it.            *)
LEMMA ParentFound ==
    ASSUME NEW f \in Nat \ {0}, NEW pos \in Positions(f), pos.layer # 0,
           NEW parent, parent = [layer |-> pos.layer - 1, offset |-> pos.offset \div f]
    PROVE  /\ parent \in Positions(f)
           /\ ToAddress(parent, f) = ParentAddress(ToAddress(pos, f), f)
<1> DEFINE l == pos.layer - 1
           q == pos.offset \div f
<1>1. l \in Nat /\ l + 1 = pos.layer /\ pos.offset \in Nat
  BY DEF Positions
<1>2. q \in Nat /\ q * f <= pos.offset /\ pos.offset < q * f + f
  BY <1>1, QuotientBounds
<1> HIDE DEF l, q
<1>3. q < NumNodes(l, f)
  <2>1. NumNodes(l, f) \in Nat /\ pos.offset < NumNodes(l, f) * f
    BY <1>1, LayerSizes DEF Positions
  <2>2. ASSUME NEW n \in Nat, n <= q PROVE n * f <= q * f
    BY <1>2, <2>2
  <2>3. ~(NumNodes(l, f) <= q)
    <3>1. NumNodes(l, f) * f \in Nat /\ q * f \in Nat
      BY <1>2, <2>1
    <3> QED
      BY <1>1, <1>2, <2>1, <2>2, <3>1
  <2> QED
    BY <1>2, <2>1, <2>3
<1>4. parent.layer = l /\ parent.offset = q /\ parent \in Positions(f)
  BY <1>1, <1>2, <1>3 DEF Positions, l, q
<1>5. ToAddress(pos, f) = 2 + NodesAbove(l, f) * f + pos.offset /\ NodesAbove(l, f) \in Nat
  <2>1. NodesAbove(l + 1, f) = 1 + NodesAbove(l, f) * f /\ NodesAbove(l, f) \in Nat
    BY <1>1, ParentsFit, LayerStarts
  <2>2. NodesAbove(l, f) * f \in Nat
    BY <2>1
  <2> QED
    BY <1>1, <2>1, <2>2 DEF ToAddress
<1>6. (NodesAbove(l, f) * f + pos.offset) \div f = NodesAbove(l, f) + q
  <2>1. ASSUME NEW a \in Nat PROVE (a + q) * f = a * f + q * f /\ a * f \in Nat /\ q * f \in Nat
    BY <1>2
  <2>2. /\ (NodesAbove(l, f) + q) * f <= NodesAbove(l, f) * f + pos.offset
        /\ NodesAbove(l, f) * f + pos.offset < (NodesAbove(l, f) + q) * f + f
        /\ NodesAbove(l, f) * f + pos.offset \in Nat
    BY <1>1, <1>2, <1>5, <2>1
  <2> QED
    BY <1>2, <1>5, <2>2, Quotient
<1>7. ToAddress(pos, f) - 2 = NodesAbove(l, f) * f + pos.offset
  <2>1. NodesAbove(l, f) * f \in Nat
    BY <1>5
  <2> QED
    BY <1>1, <1>5, <2>1
<1> QED
  BY <1>2, <1>4, <1>5, <1>6, <1>7 DEF ToAddress, ParentAddress

(* The repeated step of next(), taken apart: it is done once the iterator   *)
(* is at its end or at another address.                                     *)
StepUnlessDone(before, it) ==
    IF before.state = "end" \/ before.address # it.address THEN before ELSE IteratorStep(before)

(* operator++ takes at most four steps before it finds another address or   *)
(* the end.                                                                 *)
LEMMA NextTakenApart ==
    ASSUME NEW it
    PROVE  NextAddress(it) =
               StepUnlessDone(StepUnlessDone(StepUnlessDone(IteratorStep(it), it), it), it)
<1> DEFINE a1 == IteratorStep(it)
           a2 == StepUnlessDone(a1, it)
           a3 == StepUnlessDone(a2, it)
           a4 == StepUnlessDone(a3, it)
           IsAfter(h) == h = [i \in 1..4 |->
               LET before == IF i = 1 THEN it ELSE h[i - 1]
                   done   == i > 1 /\ (\/ before.state = "end"
                                       \/ before.address # it.address)
               IN  IF done THEN before ELSE IteratorStep(before)]
           after == CHOOSE h : IsAfter(h)
           g == [i \in 1..4 |-> IF i = 1 THEN a1 ELSE IF i = 2 THEN a2
                                ELSE IF i = 3 THEN a3 ELSE a4]
<1> HIDE DEF a1
<1>1. IsAfter(g)
  <2> DEFINE r(i) == LET before == IF i = 1 THEN it ELSE g[i - 1]
                         done   == i > 1 /\ (\/ before.state = "end"
                                             \/ before.address # it.address)
                     IN  IF done THEN before ELSE IteratorStep(before)
  <2> HIDE DEF a2, a3, a4
  <2>1. g[1] = a1 /\ g[2] = a2 /\ g[3] = a3 /\ g[4] = a4
    OBVIOUS
  <2>2. r(1) = a1
    BY DEF a1
  <2>3. r(2) = a2
    BY <2>1 DEF a2, StepUnlessDone
  <2>4. r(3) = a3
    BY <2>1 DEF a3, StepUnlessDone
  <2>5. r(4) = a4
    BY <2>1 DEF a4, StepUnlessDone
  <2>6. ASSUME NEW i \in 1..4 PROVE g[i] = r(i)
    <3>1. i = 1 \/ i = 2 \/ i = 3 \/ i = 4
      OBVIOUS
    <3> HIDE DEF g, r
    <3> QED
      BY <2>1, <2>2, <2>3, <2>4, <2>5, <3>1
  <2>7. g = [i \in 1..4 |-> r(i)]
    <3>1. g = [i \in 1..4 |-> g[i]]
      OBVIOUS
    <3> HIDE DEF g, r
    <3> QED
      BY <2>6, <3>1
  <2> QED
    BY <2>7
<1>2. IsAfter(after)
  <2> HIDE DEF IsAfter
  <2> QED
    BY <1>1
<1> HIDE DEF after
<1>3. after[1] = a1
  BY <1>2 DEF a1
<1>4. after[2] = a2
  BY <1>2, <1>3 DEF StepUnlessDone
<1>5. after[3] = a3
  <2> HIDE DEF a2
  <2> QED
    BY <1>2, <1>4 DEF StepUnlessDone
<1>6. after[4] = a4
  <2> HIDE DEF a3
  <2> QED
    BY <1>2, <1>5 DEF StepUnlessDone
<1>7. NextAddress(it) = after[4]
  BY DEF NextAddress, after
<1> QED
  BY <1>6, <1>7 DEF a1

(* An iterator of position p that is at a position.                         *)
ParentOf(p, f) == NewIterator(p, f).parent

At(p, f, pos, old, state) ==
    [fanout |-> f, base |-> PositionInTree(p, f), parent |-> ParentOf(p, f),
     current |-> pos, address |-> ToAddress(pos, f), state |-> state, old |-> old]

(* The positions of the upper layers in the order of the iterator, the      *)
(* parent included, and without it.                                         *)
Skipped(p, f, pos) == IF pos = ParentOf(p, f) THEN AdvanceUpper(pos, f) ELSE pos

UpperState(pos) == IF IsRoot(pos) THEN "traversing_base_layer" ELSE "traversing_upper_layers"

AnyPosition == [layer : Nat, offset : Nat]

Iterators == [fanout : Nat, base : AnyPosition, parent : AnyPosition, current : AnyPosition,
              address : Nat, state : IteratorStates, old : IteratorStates]

(* The address of a position is a number, whether or not the position is in *)
(* the tree.                                                                *)
LEMMA AnyAddress ==
    ASSUME NEW f \in Nat \ {0}, NEW pos \in AnyPosition
    PROVE  ToAddress(pos, f) \in Nat
<1>1. NodesAbove(pos.layer, f) \in Nat /\ pos.offset \in Nat
  BY LayerStarts DEF AnyPosition
<1> QED
  BY <1>1 DEF ToAddress

(* An iterator starts as one and stays one.                                 *)
LEMMA NewIsIterator ==
    ASSUME NEW f \in Nat \ {0}, NEW p \in Nat \ {0}
    PROVE  /\ NewIterator(p, f) \in Iterators
           /\ PositionInTree(p, f) \in AnyPosition
           /\ ParentOf(p, f) \in AnyPosition
           /\ \A pos \in AnyPosition : \A old \in IteratorStates : \A state \in IteratorStates :
                 At(p, f, pos, old, state) \in Iterators
<1>1. PositionInTree(p, f) \in AnyPosition
  BY PositionFound DEF Positions, AnyPosition
<1>2. ParentOf(p, f) = NewIterator(p, f).parent
  BY DEF ParentOf
<1>3. ASSUME NEW b \in AnyPosition
      PROVE  (IF b.layer = 0 THEN b ELSE [layer |-> b.layer - 1, offset |-> b.offset \div f])
                \in AnyPosition
  <2>1. b.offset \div f \in Nat
    BY QuotientBounds DEF AnyPosition
  <2>2. b.layer # 0 => b.layer - 1 \in Nat
    BY DEF AnyPosition
  <2> QED
    BY <2>1, <2>2 DEF AnyPosition
<1>4. NewIterator(p, f) \in Iterators
  BY <1>1, <1>3 DEF NewIterator, Iterators, IteratorStates
<1>5. ParentOf(p, f) \in AnyPosition
  BY <1>4, <1>2 DEF Iterators
<1>6. ASSUME NEW pos \in AnyPosition, NEW old \in IteratorStates, NEW state \in IteratorStates
      PROVE  At(p, f, pos, old, state) \in Iterators
  BY <1>1, <1>5, AnyAddress DEF At, Iterators
<1> QED
  BY <1>1, <1>4, <1>5, <1>6

(* The positions the iterator goes through are positions.                   *)
LEMMA AdvanceAny ==
    ASSUME NEW f \in Nat \ {0}, NEW pos \in AnyPosition
    PROVE  AdvanceUpper(pos, f) \in AnyPosition /\ Increment(pos, f) \in AnyPosition
<1>1. pos.layer \in Nat /\ pos.offset \in Nat
  BY DEF AnyPosition
<1>2. pos.layer > 0 => [layer |-> pos.layer - 1, offset |-> 0] \in AnyPosition
  BY <1>1 DEF AnyPosition
<1>3. [layer |-> pos.layer + 1, offset |-> 0] \in AnyPosition
  BY <1>1 DEF AnyPosition
<1>4. [pos EXCEPT !.offset = @ + 1] \in AnyPosition
  BY <1>1 DEF AnyPosition
<1> QED
  BY <1>1, <1>2, <1>3, <1>4 DEF AdvanceUpper, Increment, DecrementLayer

(* The fields of an iterator say all about it.                              *)
SameFields(x, y) ==
    /\ x.fanout = y.fanout /\ x.base = y.base /\ x.parent = y.parent
    /\ x.current = y.current /\ x.address = y.address
    /\ x.state = y.state /\ x.old = y.old

(* Two iterators with the same fields are the same.                         *)
LEMMA SameIterator ==
    ASSUME NEW x \in Iterators, NEW y \in Iterators, SameFields(x, y)
    PROVE  x = y
BY DEF SameFields, Iterators

(* An iterator that keeps its state and moves to another position.          *)
LEMMA Moved ==
    ASSUME NEW f \in Nat \ {0}, NEW p \in Nat \ {0}, NEW pos \in AnyPosition,
           NEW old \in IteratorStates, NEW state \in IteratorStates, NEW it,
           it = At(p, f, pos, old, state), NEW a \in AnyPosition
    PROVE  MoveTo([it EXCEPT !.old = it.state], a) = At(p, f, a, state, state)
<1> DEFINE x == [it EXCEPT !.old = it.state]
           y == MoveTo(x, a)
           z == At(p, f, a, state, state)
<1>1. it \in Iterators /\ z \in Iterators
  BY NewIsIterator
<1>2. /\ x \in Iterators /\ x.fanout = it.fanout /\ x.base = it.base /\ x.parent = it.parent
      /\ x.state = it.state /\ x.old = it.state
  BY <1>1 DEF Iterators
<1>3. it.fanout = f /\ it.state = state
  BY DEF At
<1> HIDE DEF x
<1>4. ToAddress(a, x.fanout) \in Nat
  BY <1>2, <1>3, AnyAddress
<1>5. /\ y \in Iterators /\ y.fanout = x.fanout /\ y.base = x.base /\ y.parent = x.parent
      /\ y.state = x.state /\ y.old = x.old /\ y.current = a
      /\ y.address = ToAddress(a, x.fanout)
  BY <1>2, <1>4 DEF MoveTo, Iterators
<1> HIDE DEF y
<1>6. SameFields(y, z)
  BY <1>2, <1>3, <1>5 DEF SameFields, At
<1> QED
  BY <1>1, <1>5, <1>6, SameIterator DEF y, x

(* An iterator that stays where it is and enters another state.             *)
LEMMA StateSet ==
    ASSUME NEW f \in Nat \ {0}, NEW p \in Nat \ {0}, NEW pos \in AnyPosition,
           NEW old \in IteratorStates, NEW state \in IteratorStates, NEW next \in IteratorStates
    PROVE  SetState(At(p, f, pos, old, state), next) = At(p, f, pos, state, next)
<1> DEFINE x == At(p, f, pos, old, state)
           y == SetState(x, next)
           z == At(p, f, pos, state, next)
<1>1. x \in Iterators /\ z \in Iterators
  BY NewIsIterator
<1>2. /\ y \in Iterators /\ y.fanout = x.fanout /\ y.base = x.base /\ y.parent = x.parent
      /\ y.current = x.current /\ y.address = x.address
      /\ y.state = next /\ y.old = x.state
  <2> HIDE DEF x
  <2> QED
    BY <1>1 DEF SetState, Iterators
<1> HIDE DEF y
<1>3. SameFields(y, z)
  BY <1>2 DEF SameFields, At
<1> QED
  BY <1>1, <1>2, <1>3, SameIterator DEF y

(* One step from each kind of iterator.                                     *)
LEMMA StepFromUpper ==
    ASSUME NEW f \in Nat \ {0}, NEW p \in Nat \ {0}, NEW pos \in AnyPosition,
           NEW old \in IteratorStates, NEW q \in AnyPosition,
           q = Skipped(p, f, IF old # "traversing_upper_layers"
                             THEN [layer |-> ParentOf(p, f).layer, offset |-> 0]
                             ELSE AdvanceUpper(pos, f))
    PROVE  IteratorStep(At(p, f, pos, old, "traversing_upper_layers")) =
               At(p, f, q, "traversing_upper_layers", UpperState(q))
<1> DEFINE it == At(p, f, pos, old, "traversing_upper_layers")
<1>1. IteratorStep(it) = TraverseUpperLayers(it)
  BY DEF IteratorStep, At
<1>2. /\ it.state = "traversing_upper_layers" /\ it.old = old /\ it.fanout = f
      /\ it.parent = ParentOf(p, f) /\ it.current = pos
  BY DEF At
<1>3. ASSUME NEW a \in AnyPosition PROVE MoveTo([it EXCEPT !.old = it.state], a) =
                             At(p, f, a, "traversing_upper_layers", "traversing_upper_layers")
  <2>1. it = At(p, f, pos, old, "traversing_upper_layers") /\ "traversing_upper_layers" \in IteratorStates
    BY DEF IteratorStates
  <2> HIDE DEF it
  <2> QED
    BY <2>1, Moved
<1>4. ASSUME NEW a \in AnyPosition PROVE SetState(At(p, f, a, "traversing_upper_layers", "traversing_upper_layers"),
                                  "traversing_base_layer")
                         = At(p, f, a, "traversing_upper_layers", "traversing_base_layer")
  BY StateSet DEF IteratorStates
<1>5. IteratorStep(it) = LET moved == MoveTo([it EXCEPT !.old = it.state], q)
                          IN  IF IsRoot(q) THEN SetState(moved, "traversing_base_layer") ELSE moved
  <2> HIDE DEF it
  <2> DEFINE r == IF old # "traversing_upper_layers"
                  THEN [layer |-> ParentOf(p, f).layer, offset |-> 0]
                  ELSE AdvanceUpper(pos, f)
  <2>1. r = IF it.state # it.old THEN [layer |-> it.parent.layer, offset |-> 0]
                                 ELSE AdvanceUpper(it.current, it.fanout)
    BY <1>2
  <2>2. q = IF r = it.parent THEN AdvanceUpper(r, it.fanout) ELSE r
    BY <1>2 DEF Skipped
  <2> HIDE DEF r
  <2> QED
    BY <1>1, <2>1, <2>2 DEF TraverseUpperLayers
<1> HIDE DEF it
<1> QED
  BY <1>3, <1>4, <1>5 DEF UpperState, it

(* One step in the layer of the node itself: over its elder siblings and    *)
(* cousins, to the node.                                                    *)
LEMMA StepFromBase ==
    ASSUME NEW f \in Nat \ {0}, NEW p \in Nat \ {0}, NEW pos \in AnyPosition,
           NEW old \in IteratorStates, NEW q \in AnyPosition,
           q = IF old # "traversing_base_layer"
               THEN [layer |-> PositionInTree(p, f).layer, offset |-> 0]
               ELSE Increment(pos, f)
    PROVE  IteratorStep(At(p, f, pos, old, "traversing_base_layer")) =
               At(p, f, q, "traversing_base_layer",
                  IF q = PositionInTree(p, f) THEN "end" ELSE "traversing_base_layer")
<1> DEFINE it == At(p, f, pos, old, "traversing_base_layer")
<1>1. IteratorStep(it) = TraverseBaseLayer(it)
  BY DEF IteratorStep, At
<1>2. /\ it.state = "traversing_base_layer" /\ it.old = old /\ it.fanout = f
      /\ it.base = PositionInTree(p, f) /\ it.current = pos
  BY DEF At
<1>3. ASSUME NEW a \in AnyPosition PROVE MoveTo([it EXCEPT !.old = it.state], a) =
                             At(p, f, a, "traversing_base_layer", "traversing_base_layer")
  <2>1. it = At(p, f, pos, old, "traversing_base_layer") /\ "traversing_base_layer" \in IteratorStates
    BY DEF IteratorStates
  <2> HIDE DEF it
  <2> QED
    BY <2>1, Moved
<1>4. ASSUME NEW a \in AnyPosition PROVE SetState(At(p, f, a, "traversing_base_layer", "traversing_base_layer"), "end")
                         = At(p, f, a, "traversing_base_layer", "end")
  BY StateSet DEF IteratorStates
<1>5. IteratorStep(it) = LET moved == MoveTo([it EXCEPT !.old = it.state], q)
                          IN  IF q = PositionInTree(p, f) THEN SetState(moved, "end") ELSE moved
  <2> HIDE DEF it
  <2>1. q = IF it.state # it.old THEN [layer |-> it.base.layer, offset |-> 0]
                                 ELSE Increment(it.current, it.fanout)
    BY <1>2
  <2> QED
    BY <1>1, <1>2, <2>1 DEF TraverseBaseLayer
<1> HIDE DEF it
<1> QED
  BY <1>3, <1>4, <1>5 DEF it

(* An iterator at its end stays there.                                      *)
LEMMA EndIsLast ==
    ASSUME NEW it, it.state = "end"
    PROVE  NextAddress(it) = it
BY NextTakenApart DEF StepUnlessDone, IteratorStep

(* The first address is that of the parent, if there is one.                *)
LEMMA FirstAddress ==
    ASSUME NEW f \in Nat \ {0}, NEW p \in Nat \ {0}
    PROVE  LET base == PositionInTree(p, f)
               first == NextAddress(NewIterator(p, f))
           IN  /\ base.layer = 0 => first.state = "end"
               /\ base.layer # 0 =>
                    /\ ParentOf(p, f) \in Positions(f)
                    /\ ParentOf(p, f).layer = base.layer - 1
                    /\ ToAddress(ParentOf(p, f), f) = ParentAddress(p, f)
                    /\ first = At(p, f, ParentOf(p, f), "traversing_parent_node",
                                  "traversing_upper_layers")
<1> DEFINE base == PositionInTree(p, f)
           it == NewIterator(p, f)
           parent == ParentOf(p, f)
           second == [it EXCEPT !.old = "initial", !.state = "traversing_parent_node"]
<1>0. base \in Positions(f) /\ ToAddress(base, f) = p
  BY PositionFound
<1>1. ASSUME base.layer = 0 PROVE NextAddress(it).state = "end"
  <2>1. IteratorStep(it) = [it EXCEPT !.old = it.state, !.state = "end"]
    BY <1>1 DEF IteratorStep, InitialStep, SetState, NewIterator
  <2>2. IteratorStep(it).state = "end"
    BY <2>1 DEF NewIterator
  <2> HIDE DEF it
  <2> QED
    BY <2>2, NextTakenApart DEF StepUnlessDone
<1>2. ASSUME base.layer # 0
      PROVE  /\ parent \in Positions(f)
             /\ parent.layer = base.layer - 1
             /\ ToAddress(parent, f) = ParentAddress(p, f)
             /\ NextAddress(it) = At(p, f, parent, "traversing_parent_node",
                                     "traversing_upper_layers")
  <2>1. parent = [layer |-> base.layer - 1, offset |-> base.offset \div f]
    BY <1>2 DEF ParentOf, NewIterator
  <2>2. parent \in Positions(f) /\ ToAddress(parent, f) = ParentAddress(p, f)
    BY <1>0, <1>2, <2>1, ParentFound
  <2>3. IteratorStep(it) = second
    BY <1>2 DEF IteratorStep, InitialStep, SetState, NewIterator
  <2>4. /\ second.state = "traversing_parent_node" /\ second.address = 0 /\ it.address = 0
        /\ second.parent = parent /\ second.fanout = f
    BY DEF NewIterator, ParentOf
  <2>5. IteratorStep(second) = SetState(MoveTo(second, parent), "traversing_upper_layers")
    <3> HIDE DEF second, parent
    <3> QED
      BY <2>4 DEF IteratorStep, TraverseParentNode
  <2>6. SetState(MoveTo(second, parent), "traversing_upper_layers")
          = At(p, f, parent, "traversing_parent_node", "traversing_upper_layers")
    <3>1. it \in Iterators /\ parent \in AnyPosition /\ base \in AnyPosition
      BY NewIsIterator
    <3>2. it.fanout = f /\ it.base = base /\ it.parent = parent
      BY DEF NewIterator, ParentOf
    <3> HIDE DEF it, parent, base
    <3>3. /\ second \in Iterators /\ second.fanout = f /\ second.base = base
          /\ second.parent = parent /\ second.state = "traversing_parent_node"
      BY <3>1, <3>2 DEF Iterators, IteratorStates
    <3> HIDE DEF second
    <3> DEFINE x == MoveTo(second, parent)
               y == SetState(x, "traversing_upper_layers")
               z == At(p, f, parent, "traversing_parent_node", "traversing_upper_layers")
    <3>4. ToAddress(parent, f) \in Nat
      BY <3>1, AnyAddress
    <3>5. /\ x \in Iterators /\ x.fanout = f /\ x.base = base /\ x.parent = parent
          /\ x.current = parent /\ x.address = ToAddress(parent, f)
          /\ x.state = "traversing_parent_node"
      BY <3>1, <3>3, <3>4 DEF MoveTo, Iterators
    <3> HIDE DEF x
    <3>6. /\ y \in Iterators /\ y.fanout = f /\ y.base = base /\ y.parent = parent
          /\ y.current = parent /\ y.address = ToAddress(parent, f)
          /\ y.old = "traversing_parent_node" /\ y.state = "traversing_upper_layers"
      BY <3>5 DEF SetState, Iterators, IteratorStates
    <3>7. z \in Iterators
      BY <3>1, NewIsIterator DEF IteratorStates
    <3> HIDE DEF y
    <3>8. SameFields(y, z)
      BY <3>6 DEF SameFields, At, base, parent
    <3> QED
      BY <3>6, <3>7, <3>8, SameIterator DEF y, x
  <2>7. At(p, f, parent, "traversing_parent_node", "traversing_upper_layers").address # 0
    <3>1. ToAddress(parent, f) # 0
      BY <2>2, AddressIsPositive
    <3> HIDE DEF parent
    <3> QED
      BY <3>1 DEF At
  <2> HIDE DEF second, it, parent
  <2>8. StepUnlessDone(second, it) = At(p, f, parent, "traversing_parent_node", "traversing_upper_layers")
    BY <2>4, <2>5, <2>6 DEF StepUnlessDone
  <2> QED
    BY <2>1, <2>2, <2>3, <2>4, <2>7, <2>8, NextTakenApart DEF StepUnlessDone
<1> QED
  BY <1>1, <1>2

(* The sizes and starts of layers are numbers, and each layer starts after  *)
(* the one above it.                                                        *)
LEMMA LayerNumbers ==
    ASSUME NEW f \in Nat \ {0}, NEW l \in Nat
    PROVE  /\ NodesAbove(l, f) \in Nat /\ NodesAbove(l + 1, f) \in Nat
           /\ NumNodes(l, f) \in Nat \ {0}
           /\ NodesAbove(l + 1, f) = NodesAbove(l, f) + NumNodes(l, f)
<1>1. l + 1 \in Nat
  OBVIOUS
<1>2. NumNodes(l, f) \in Nat \ {0}
  BY LayerSizes
<1> QED
  BY <1>1, <1>2, LayerStarts

(* operator++ takes one step where this step finds another address or the   *)
(* end.                                                                     *)
LEMMA NextAtOnce ==
    ASSUME NEW it, IteratorStep(it).state = "end" \/ IteratorStep(it).address # it.address
    PROVE  NextAddress(it) = IteratorStep(it)
BY NextTakenApart DEF StepUnlessDone

(* The addresses seen before and at a position of the upper layers, and     *)
(* their number when the parent is not counted twice.                       *)
Seen(p, f, pos) ==
    {ToAddress(ParentOf(p, f), f)}
      \cup (NodesAbove(pos.layer + 1, f) + 1)..NodesAbove(PositionInTree(p, f).layer, f)
      \cup (NodesAbove(pos.layer, f) + 1)..(NodesAbove(pos.layer, f) + pos.offset + 1)

Rank(p, f, pos) ==
    NodesAbove(PositionInTree(p, f).layer, f) - NodesAbove(pos.layer + 1, f) + pos.offset
      + (IF /\ pos.layer = ParentOf(p, f).layer /\ pos.offset < ParentOf(p, f).offset
         THEN 1 ELSE 0)

(* The positions of the upper layers of a node that is not in one of the    *)
(* first two.                                                               *)
Upper(p, f) == {pos \in Positions(f) : pos.layer < PositionInTree(p, f).layer}

(* Advancing from a position that is not the root adds its address.         *)
LEMMA AdvanceSees ==
    ASSUME NEW f \in Nat \ {0}, NEW p \in Nat \ {0}, NEW pos \in Upper(p, f), ~IsRoot(pos),
           ParentOf(p, f) \in Upper(p, f),
           ParentOf(p, f).layer + 1 = PositionInTree(p, f).layer,
           NEW q, q = AdvanceUpper(pos, f)
    PROVE  /\ q \in Upper(p, f)
           /\ q # pos
           /\ Seen(p, f, q) = Seen(p, f, pos) \cup {ToAddress(q, f)}
           /\ Rank(p, f, q) = Rank(p, f, pos) + IF q = ParentOf(p, f) THEN 0 ELSE 1
<1> DEFINE top == PositionInTree(p, f).layer
           parent == ParentOf(p, f)
           l == pos.layer
           k == pos.offset
<1>1. /\ l \in Nat /\ k \in Nat /\ k < NumNodes(l, f) /\ l < top
      /\ parent.layer \in Nat /\ parent.offset \in Nat
      /\ parent.offset < NumNodes(parent.layer, f)
      /\ parent.layer + 1 = top
  BY DEF Upper, Positions
<1>2. top \in Nat
  BY PositionFound DEF Positions
<1> HIDE DEF top
<1>3. /\ NodesAbove(l, f) \in Nat /\ NodesAbove(l + 1, f) \in Nat /\ NodesAbove(top, f) \in Nat
      /\ NumNodes(l, f) \in Nat
      /\ NodesAbove(l + 1, f) = NodesAbove(l, f) + NumNodes(l, f)
  BY <1>1, <1>2, LayerNumbers
<1>4. NodesAbove(l + 1, f) <= NodesAbove(top, f)
  BY <1>1, <1>2, <1>3, LayersAscend
<1>5. CASE ~IsLast(pos, f)
  <2>1. q = [pos EXCEPT !.offset = k + 1]
    BY <1>5 DEF AdvanceUpper, Increment
  <2>2. /\ q.layer = l /\ q.offset = k + 1 /\ q \in AnyPosition
    BY <2>1 DEF Upper, Positions, AnyPosition
  <2>3. k + 1 < NumNodes(l, f)
    BY <1>1, <1>3, <1>5 DEF IsLast
  <2>4. q \in Upper(p, f) /\ q # pos
    BY <1>1, <2>2, <2>3 DEF Upper, Positions, AnyPosition, top
  <2>5. ToAddress(q, f) = NodesAbove(l, f) + k + 2
    BY <1>1, <1>3, <2>2 DEF ToAddress
  <2>6. Seen(p, f, q) = Seen(p, f, pos) \cup {ToAddress(q, f)}
    <3>1. (NodesAbove(l, f) + 1)..(NodesAbove(l, f) + (k + 1) + 1) =
             ((NodesAbove(l, f) + 1)..(NodesAbove(l, f) + k + 1)) \cup {NodesAbove(l, f) + k + 2}
      BY <1>1, <1>3
    <3> QED
      BY <2>2, <2>5, <3>1 DEF Seen
  <2>7. Rank(p, f, q) = Rank(p, f, pos) + IF q = parent THEN 0 ELSE 1
    <3>1. q = parent <=> l = parent.layer /\ k + 1 = parent.offset
      BY <1>1, <2>2 DEF Upper, Positions, AnyPosition
    <3>2. CASE l = parent.layer
      <4>1. CASE k + 1 < parent.offset
        <5>1. q # parent /\ k < parent.offset
          BY <1>1, <3>1, <4>1
        <5> QED
          BY <1>1, <1>3, <2>2, <3>2, <4>1, <5>1 DEF Rank, top
      <4>2. CASE k + 1 = parent.offset
        <5>1. q = parent /\ k < parent.offset /\ ~(k + 1 < parent.offset)
          BY <1>1, <3>1, <3>2, <4>2
        <5> QED
          BY <1>1, <1>3, <2>2, <3>2, <4>2, <5>1 DEF Rank, top
      <4>3. CASE k + 1 > parent.offset
        <5>1. q # parent /\ ~(k < parent.offset) /\ ~(k + 1 < parent.offset)
          BY <1>1, <3>1, <4>3
        <5> QED
          BY <1>1, <1>3, <2>2, <3>2, <5>1 DEF Rank, top
      <4> QED
        BY <1>1, <4>1, <4>2, <4>3
    <3>3. CASE l # parent.layer
      BY <1>1, <1>3, <2>2, <3>1, <3>3 DEF Rank, top
    <3> QED
      BY <3>2, <3>3
  <2> QED
    BY <2>4, <2>6, <2>7
<1>6. CASE IsLast(pos, f)
  <2>1. k + 1 = NumNodes(l, f)
    BY <1>1, <1>3, <1>6 DEF IsLast
  <2>2. l > 0
    <3>1. l = 0 => k = 0
      <4>1. NumNodes(0, f) = 1
        BY LayerSizes
      <4> QED
        BY <1>1, <4>1
    <3> QED
      BY <1>1, <3>1 DEF IsRoot
  <2>3. q = [layer |-> l - 1, offset |-> 0]
    BY <1>6, <2>2 DEF AdvanceUpper, DecrementLayer
  <2>4. /\ q.layer = l - 1 /\ q.offset = 0 /\ q \in AnyPosition /\ (l - 1) + 1 = l /\ l - 1 \in Nat
    BY <1>1, <2>2, <2>3 DEF AnyPosition
  <2>5. NumNodes(l - 1, f) \in Nat \ {0}
    BY <2>4, LayerSizes
  <2>6. q \in Upper(p, f) /\ q # pos
    <3>1. q.layer < top /\ q.offset < NumNodes(q.layer, f) /\ q.layer # l
      BY <1>1, <1>2, <2>4, <2>5
    <3> QED
      BY <2>4, <3>1 DEF Upper, Positions, AnyPosition, top
  <2>7. /\ ToAddress(q, f) = NodesAbove(l - 1, f) + 1 /\ NodesAbove(l - 1, f) \in Nat
    <3>1. NodesAbove(l - 1, f) \in Nat
      BY <2>4, LayerStarts
    <3> QED
      BY <2>4, <3>1 DEF ToAddress
  <2>8. Seen(p, f, q) = Seen(p, f, pos) \cup {ToAddress(q, f)}
    <3>1. (NodesAbove(l, f) + 1)..NodesAbove(top, f) =
             ((NodesAbove(l + 1, f) + 1)..NodesAbove(top, f))
               \cup ((NodesAbove(l, f) + 1)..(NodesAbove(l, f) + k + 1))
      BY <1>1, <1>3, <1>4, <2>1
    <3>2. (NodesAbove(l - 1, f) + 1)..(NodesAbove(l - 1, f) + 0 + 1) = {NodesAbove(l - 1, f) + 1}
      BY <2>7
    <3> QED
      BY <2>4, <2>7, <3>1, <3>2 DEF Seen, top
  <2>9. Rank(p, f, q) = Rank(p, f, pos) + IF q = parent THEN 0 ELSE 1
    <3>1. q.layer # parent.layer /\ q # parent
      BY <1>1, <1>2, <2>4
    <3>2. ~(l = parent.layer /\ k < parent.offset)
      BY <1>1, <2>1
    <3> QED
      BY <1>1, <1>3, <2>1, <2>4, <3>1, <3>2 DEF Rank, top
  <2> QED
    BY <2>6, <2>8, <2>9
<1> QED
  BY <1>5, <1>6

(* The iterators of position p, which is below the root, after i + 1        *)
(* addresses: at the parent, in the layers above, in the layer of p, or at  *)
(* the end.                                                                 *)
Phase(p, f, i, it) ==
    LET base == PositionInTree(p, f)
        parent == ParentOf(p, f)
        above == NodesAbove(base.layer, f)
    IN  \/ /\ i = 0
           /\ it = At(p, f, parent, "traversing_parent_node", "traversing_upper_layers")
        \/ \E pos \in Upper(p, f) :
              /\ pos # parent
              /\ i = Rank(p, f, pos)
              /\ it = At(p, f, pos, "traversing_upper_layers", UpperState(pos))
        \/ \E k \in Nat :
              /\ k < base.offset
              /\ i = above + k
              /\ it = At(p, f, [layer |-> base.layer, offset |-> k],
                         "traversing_base_layer", "traversing_base_layer")
        \/ i >= p - 1 /\ it.state = "end"

(* The addresses seen by then.                                              *)
SeenBy(p, f, it) ==
    IF it.current.layer = PositionInTree(p, f).layer THEN 1..it.address
    ELSE IF it.old = "traversing_parent_node" THEN {it.address}
    ELSE Seen(p, f, it.current)

(* What is known of a node below the root.                                  *)
LEMMA BelowRoot ==
    ASSUME NEW f \in Nat \ {0}, NEW p \in Nat \ {0}, PositionInTree(p, f).layer # 0
    PROVE  LET base == PositionInTree(p, f)
               parent == ParentOf(p, f)
           IN  /\ base.layer \in Nat \ {0} /\ base.offset \in Nat /\ base \in Positions(f)
               /\ base.offset < NumNodes(base.layer, f)
               /\ p = NodesAbove(base.layer, f) + base.offset + 1
               /\ NodesAbove(base.layer, f) \in Nat \ {0}
               /\ parent \in Upper(p, f) /\ parent \in Positions(f)
               /\ parent.layer + 1 = base.layer
               /\ ToAddress(parent, f) \in 1..NodesAbove(base.layer, f)
<1> DEFINE base == PositionInTree(p, f)
           parent == ParentOf(p, f)
<1>1. base \in Positions(f) /\ ToAddress(base, f) = p
  BY PositionFound
<1>2. parent \in Positions(f) /\ parent.layer = base.layer - 1
  BY FirstAddress
<1> HIDE DEF base, parent
<1>3. base.layer \in Nat \ {0} /\ base.offset \in Nat /\ base.offset < NumNodes(base.layer, f)
  BY <1>1 DEF Positions, base
<1>4. parent.layer + 1 = base.layer /\ parent.layer \in Nat /\ parent.offset \in Nat
      /\ parent.offset < NumNodes(parent.layer, f) /\ parent.layer < base.layer
  BY <1>2, <1>3 DEF Positions
<1>5. parent \in Upper(p, f)
  BY <1>2, <1>4 DEF Upper, base
<1>6. NodesAbove(base.layer, f) \in Nat /\ NodesAbove(base.layer, f) >= base.layer
  BY <1>3, LayerStarts
<1>7. p = NodesAbove(base.layer, f) + base.offset + 1
  BY <1>1, <1>3, <1>6 DEF ToAddress
<1>8. ToAddress(parent, f) \in 1..NodesAbove(base.layer, f)
  <2>1. /\ NodesAbove(parent.layer, f) \in Nat /\ NumNodes(parent.layer, f) \in Nat
        /\ NodesAbove(base.layer, f) = NodesAbove(parent.layer, f) + NumNodes(parent.layer, f)
    BY <1>4, LayerNumbers
  <2> QED
    BY <1>4, <2>1 DEF ToAddress
<1> QED
  BY <1>1, <1>2, <1>3, <1>4, <1>5, <1>6, <1>7, <1>8 DEF base, parent

(* Where a position of the upper layers is in the order.                    *)
LEMMA RankBounds ==
    ASSUME NEW f \in Nat \ {0}, NEW p \in Nat \ {0}, PositionInTree(p, f).layer # 0,
           NEW pos \in Upper(p, f)
    PROVE  /\ Rank(p, f, pos) \in Nat
           /\ Rank(p, f, pos) < NodesAbove(PositionInTree(p, f).layer, f)
           /\ IsRoot(pos) /\ pos # ParentOf(p, f) =>
                 /\ Rank(p, f, pos) + 1 = NodesAbove(PositionInTree(p, f).layer, f)
                 /\ Seen(p, f, pos) = 1..NodesAbove(PositionInTree(p, f).layer, f)
           /\ pos # ParentOf(p, f)
                /\ Rank(p, f, pos) + 1 = NodesAbove(PositionInTree(p, f).layer, f) => IsRoot(pos)
           /\ IsRoot(pos) => ToAddress(pos, f) = 1
           /\ ToAddress(pos, f) \in 1..NodesAbove(PositionInTree(p, f).layer, f)
<1> DEFINE base == PositionInTree(p, f)
           parent == ParentOf(p, f)
           above == NodesAbove(base.layer, f)
<1>1. /\ base.layer \in Nat \ {0} /\ above \in Nat \ {0} /\ parent.layer + 1 = base.layer
      /\ parent \in Positions(f) /\ ToAddress(parent, f) \in 1..above
  BY BelowRoot
<1>2. /\ pos.layer \in Nat /\ pos.offset \in Nat /\ pos.layer < base.layer
      /\ pos.offset < NumNodes(pos.layer, f) /\ pos \in AnyPosition
  BY DEF Upper, Positions, AnyPosition
<1>3. /\ NodesAbove(pos.layer, f) \in Nat /\ NodesAbove(pos.layer + 1, f) \in Nat
      /\ NumNodes(pos.layer, f) \in Nat
      /\ NodesAbove(pos.layer + 1, f) = NodesAbove(pos.layer, f) + NumNodes(pos.layer, f)
  BY <1>2, LayerNumbers
<1>4. NodesAbove(pos.layer + 1, f) <= above
  <2>1. NodesAbove(pos.layer, f) + NumNodes(pos.layer, f) <= above
    BY <1>1, <1>2, LayersAscend
  <2> QED
    BY <1>3, <2>1
<1>5. /\ parent.layer \in Nat /\ parent.offset \in Nat
      /\ parent.offset < NumNodes(parent.layer, f) /\ parent \in AnyPosition
  BY <1>1 DEF Positions, AnyPosition
<1> HIDE DEF base, parent, above
<1>6. Rank(p, f, pos) = above - NodesAbove(pos.layer + 1, f) + pos.offset
                          + (IF pos.layer = parent.layer /\ pos.offset < parent.offset
                             THEN 1 ELSE 0)
  BY DEF Rank, base, parent, above
<1>7. pos.layer = parent.layer => NodesAbove(pos.layer + 1, f) = above
  BY <1>1 DEF above
<1>8. pos.layer # 0 => NodesAbove(pos.layer, f) >= 1
  <2>1. NodesAbove(pos.layer, f) >= pos.layer
    BY <1>2, LayerStarts
  <2> QED
    BY <1>2, <1>3, <2>1
<1>9. Rank(p, f, pos) \in Nat /\ Rank(p, f, pos) < above
  <2>1. CASE pos.layer = parent.layer /\ pos.offset < parent.offset
    BY <1>2, <1>3, <1>5, <1>6, <1>7, <2>1, <1>1
  <2>2. CASE ~(pos.layer = parent.layer /\ pos.offset < parent.offset)
    BY <1>1, <1>2, <1>3, <1>4, <1>6, <2>2
  <2> QED
    BY <2>1, <2>2
<1>10. ASSUME IsRoot(pos), pos # parent
       PROVE  /\ Rank(p, f, pos) + 1 = above
              /\ Seen(p, f, pos) = 1..above
  <2>1. pos.layer = 0 /\ pos.offset = 0
    BY <1>10 DEF IsRoot
  <2>2. NodesAbove(0, f) = 0 /\ NumNodes(0, f) = 1 /\ NodesAbove(0 + 1, f) = 1
    <3>1. NodesAbove(0, f) = 0 /\ NumNodes(0, f) = 1
      BY LayerStarts, LayerSizes
    <3> QED
      BY <1>3, <2>1, <3>1
  <2>3. parent.layer # 0
    <3>1. parent.layer = 0 => parent.offset = 0
      BY <1>5, <2>2
    <3> QED
      BY <1>2, <1>5, <1>10, <2>1, <3>1 DEF AnyPosition
  <2>4. Rank(p, f, pos) + 1 = above
    BY <1>1, <1>6, <2>1, <2>2, <2>3
  <2>5. Seen(p, f, pos) = {ToAddress(parent, f)} \cup ((1 + 1)..above) \cup ((0 + 1)..(0 + 0 + 1))
    BY <2>1, <2>2 DEF Seen, base, parent, above
  <2>6. ((1 + 1)..above) \cup ((0 + 1)..(0 + 0 + 1)) = 1..above
    BY <1>1
  <2> QED
    BY <1>1, <2>4, <2>5, <2>6
<1>11. IsRoot(pos) => ToAddress(pos, f) = 1
  BY LayerStarts DEF IsRoot, ToAddress
<1>12. ToAddress(pos, f) \in 1..above
  BY <1>1, <1>2, <1>3, <1>4 DEF ToAddress
<1>13. ASSUME pos # parent, Rank(p, f, pos) + 1 = above PROVE IsRoot(pos)
  <2>1. pos.layer = 0 => pos.offset = 0
    <3>1. NumNodes(0, f) = 1
      BY LayerSizes
    <3> QED
      BY <1>2, <3>1
  <2>2. ASSUME pos.layer # 0 PROVE FALSE
    <3>1. NodesAbove(pos.layer, f) >= 1
      BY <1>8, <2>2
    <3>2. CASE pos.layer = parent.layer /\ pos.offset < parent.offset
      <4>1. Rank(p, f, pos) = pos.offset + 1
        BY <1>1, <1>2, <1>6, <1>7, <3>2
      <4>2. parent.offset < NumNodes(pos.layer, f)
        BY <1>5, <3>2
      <4> QED
        BY <1>2, <1>3, <1>5, <1>7, <1>13, <3>1, <3>2, <4>1, <4>2
    <3>3. CASE ~(pos.layer = parent.layer /\ pos.offset < parent.offset)
      BY <1>1, <1>2, <1>3, <1>4, <1>6, <1>13, <3>1, <3>3
    <3> QED
      BY <3>2, <3>3
  <2> QED
    BY <2>1, <2>2 DEF IsRoot
<1> QED
  BY <1>9, <1>10, <1>11, <1>12, <1>13 DEF base, parent, above

(* What the next address is, as seen from each phase.                       *)
Sees(p, f, i, it) ==
    LET x == NextAddress(it)
    IN  /\ Phase(p, f, i + 1, x)
        /\ x.state # "end" => SeenBy(p, f, x) = SeenBy(p, f, it) \cup {x.address}

(* An upper position and what is seen there.                                *)
LEMMA AtUpper ==
    ASSUME NEW f \in Nat \ {0}, NEW p \in Nat \ {0}, PositionInTree(p, f).layer # 0,
           NEW pos \in Upper(p, f), NEW state
    PROVE  LET it == At(p, f, pos, "traversing_upper_layers", state)
           IN  /\ SeenBy(p, f, it) = Seen(p, f, pos)
               /\ it.address = ToAddress(pos, f) /\ it.state = state
BY BelowRoot DEF At, SeenBy, Upper, Positions

(* A position in the layer of p.                                            *)
LEMMA AtBase ==
    ASSUME NEW f \in Nat \ {0}, NEW p \in Nat \ {0}, PositionInTree(p, f).layer # 0,
           NEW k \in Nat, NEW state, NEW pos, pos = [layer |-> PositionInTree(p, f).layer, offset |-> k]
    PROVE  LET it == At(p, f, pos, "traversing_base_layer", state)
               above == NodesAbove(PositionInTree(p, f).layer, f)
           IN  /\ SeenBy(p, f, it) = 1..(above + k + 1)
               /\ it.address = above + k + 1 /\ it.state = state
               /\ ToAddress(pos, f) = above + k + 1
               /\ pos \in AnyPosition
               /\ (pos = PositionInTree(p, f) <=> k = PositionInTree(p, f).offset)
<1>1. /\ PositionInTree(p, f) \in AnyPosition /\ PositionInTree(p, f).layer \in Nat
      /\ PositionInTree(p, f).offset \in Nat
  BY BelowRoot DEF Positions, AnyPosition
<1>2. pos \in AnyPosition /\ pos.layer = PositionInTree(p, f).layer /\ pos.offset = k
  BY <1>1 DEF AnyPosition
<1>3. pos = PositionInTree(p, f) <=> k = PositionInTree(p, f).offset
  BY <1>1, <1>2 DEF AnyPosition
<1>4. ToAddress(pos, f) = NodesAbove(PositionInTree(p, f).layer, f) + k + 1
  BY <1>2 DEF ToAddress
<1> QED
  BY <1>2, <1>3, <1>4 DEF At, SeenBy

(* From an iterator that has been at an upper position to the base layer.   *)
LEMMA EnterBase ==
    ASSUME NEW f \in Nat \ {0}, NEW p \in Nat \ {0}, PositionInTree(p, f).layer # 0,
           NEW pos \in Upper(p, f), IsRoot(pos),
           NEW it, it = At(p, f, pos, "traversing_upper_layers", "traversing_base_layer")
    PROVE  LET x == IteratorStep(it)
               above == NodesAbove(PositionInTree(p, f).layer, f)
           IN  /\ Phase(p, f, above, x)
               /\ x.address # it.address
               /\ x.state # "end" => SeenBy(p, f, x) = (1..above) \cup {x.address}
<1> DEFINE base == PositionInTree(p, f)
           above == NodesAbove(base.layer, f)
           q == [layer |-> base.layer, offset |-> 0]
           state == IF q = base THEN "end" ELSE "traversing_base_layer"
           x == At(p, f, q, "traversing_base_layer", state)
<1>1. /\ base.layer \in Nat /\ base.offset \in Nat /\ above \in Nat \ {0}
      /\ p = above + base.offset + 1
  BY BelowRoot
<1>2. /\ SeenBy(p, f, x) = 1..(above + 0 + 1)
      /\ x.address = above + 0 + 1 /\ x.state = state
      /\ q \in AnyPosition /\ (q = base <=> base.offset = 0)
  <2> HIDE DEF x
  <2> HIDE DEF q
  <2> QED
    BY AtBase DEF q, x
<1>3. IteratorStep(it) = x
  <2>1. pos \in AnyPosition /\ "traversing_upper_layers" \in IteratorStates
    BY DEF Upper, Positions, AnyPosition, IteratorStates
  <2>2. q = IF "traversing_upper_layers" # "traversing_base_layer"
            THEN [layer |-> PositionInTree(p, f).layer, offset |-> 0]
            ELSE Increment(pos, f)
    OBVIOUS
  <2> HIDE DEF q
  <2>3. IteratorStep(At(p, f, pos, "traversing_upper_layers", "traversing_base_layer")) = x
    BY <1>2, <2>1, <2>2, StepFromBase
  <2> QED
    BY <2>3
<1>4. it.address = 1
  BY RankBounds DEF At
<1>5. x.address # it.address
  BY <1>1, <1>2, <1>4
<1>6. Phase(p, f, above, x)
  <2>1. CASE q = base
    BY <1>1, <1>2, <2>1 DEF Phase
  <2>2. CASE q # base
    <3>1. 0 \in Nat /\ 0 < base.offset /\ above = above + 0
      BY <1>1, <1>2, <2>2
    <3>2. x = At(p, f, [layer |-> base.layer, offset |-> 0],
                 "traversing_base_layer", "traversing_base_layer")
      BY <2>2
    <3> HIDE DEF x
    <3> QED
      BY <3>1, <3>2 DEF Phase
  <2> QED
    BY <2>1, <2>2
<1>7. SeenBy(p, f, x) = (1..above) \cup {x.address}
  BY <1>1, <1>2
<1> QED
  BY <1>3, <1>5, <1>6, <1>7

(* From the parent of a node in the first layer below the root.             *)
LEMMA NextAfterRoot ==
    ASSUME NEW f \in Nat \ {0}, NEW p \in Nat \ {0}, PositionInTree(p, f).layer = 1,
           NEW it, it = At(p, f, ParentOf(p, f), "traversing_parent_node",
                           "traversing_upper_layers")
    PROVE  Sees(p, f, 0, it)
<1> DEFINE base == PositionInTree(p, f)
           parent == ParentOf(p, f)
           second == At(p, f, parent, "traversing_upper_layers", "traversing_base_layer")
<1>1. /\ parent \in Upper(p, f) /\ parent.layer + 1 = base.layer
  BY BelowRoot
<1>2. NumNodes(0, f) = 1 /\ NodesAbove(base.layer, f) = 0 + 1 /\ base.layer # 0
  <2>1. NumNodes(0, f) = 1 /\ NodesAbove(0, f) = 0 /\ NodesAbove(0 + 1, f) = NodesAbove(0, f) + NumNodes(0, f)
    BY LayerSizes, LayerStarts
  <2> QED
    BY <2>1
<1>3. parent \in AnyPosition /\ parent.layer = 0 /\ parent.offset = 0
  BY <1>1, <1>2 DEF Upper, Positions, AnyPosition
<1>4. IsRoot(parent)
  BY <1>3 DEF IsRoot
<1>5. parent = [layer |-> ParentOf(p, f).layer, offset |-> 0]
  BY <1>3 DEF AnyPosition
<1>6. AdvanceUpper(parent, f) = parent
  BY <1>2, <1>3 DEF AdvanceUpper, IsLast, DecrementLayer
<1> HIDE DEF parent
<1>7. parent = Skipped(p, f, IF "traversing_parent_node" # "traversing_upper_layers"
                             THEN [layer |-> ParentOf(p, f).layer, offset |-> 0]
                             ELSE AdvanceUpper(parent, f))
  BY <1>5, <1>6 DEF Skipped
<1>8. IteratorStep(it) = second
  <2>1. "traversing_parent_node" \in IteratorStates
    BY DEF IteratorStates
  <2>2. IteratorStep(At(p, f, parent, "traversing_parent_node", "traversing_upper_layers"))
          = At(p, f, parent, "traversing_upper_layers", UpperState(parent))
    BY <1>3, <1>7, <2>1, StepFromUpper
  <2> QED
    BY <1>4, <2>2 DEF UpperState, parent
<1>9. second.address = it.address /\ second.state # "end"
  BY DEF At, parent
<1> DEFINE x == IteratorStep(second)
<1>10. /\ Phase(p, f, 0 + 1, x)
       /\ x.address # second.address
       /\ x.state # "end" => SeenBy(p, f, x) = (1..(0 + 1)) \cup {x.address}
  <2>1. PositionInTree(p, f).layer # 0 /\ parent \in Upper(p, f)
    BY <1>1, <1>2
  <2>2. /\ Phase(p, f, NodesAbove(base.layer, f), x)
        /\ x.address # second.address
        /\ x.state # "end" => SeenBy(p, f, x) = (1..NodesAbove(base.layer, f)) \cup {x.address}
    BY <1>4, <2>1, EnterBase
  <2> HIDE DEF x, second
  <2> QED
    BY <1>2, <2>2
<1> HIDE DEF x
<1>11. NextAddress(it) = x
  BY <1>8, <1>9, <1>10, NextTakenApart DEF StepUnlessDone, x
<1>12. SeenBy(p, f, it) = 1..(0 + 1)
  <2>1. SeenBy(p, f, it) = {ToAddress(parent, f)}
    BY <1>1, <1>2, <1>3 DEF SeenBy, At, parent
  <2>2. ToAddress(parent, f) = 1
    BY <1>1, <1>2, <1>4, RankBounds
  <2> QED
    BY <2>1, <2>2
<1> QED
  BY <1>10, <1>11, <1>12 DEF Sees

(* From a position of the upper layers, or from the parent to the first of  *)
(* them, to the next one.                                                   *)
LEMMA NextAtUpper ==
    ASSUME NEW f \in Nat \ {0}, NEW p \in Nat \ {0}, PositionInTree(p, f).layer # 0,
           NEW i \in Nat, NEW pos \in Upper(p, f), NEW old \in IteratorStates,
           NEW it, it = At(p, f, pos, old, "traversing_upper_layers"),
           NEW r, r = IF old # "traversing_upper_layers"
                      THEN [layer |-> ParentOf(p, f).layer, offset |-> 0]
                      ELSE AdvanceUpper(pos, f),
           r \in Upper(p, f),
           ParentOf(p, f).layer # 0,
           Rank(p, f, r) = i + (IF r = ParentOf(p, f) THEN 0 ELSE 1),
           SeenBy(p, f, it) \cup {ToAddress(r, f)} = Seen(p, f, r),
           r = ParentOf(p, f) => SeenBy(p, f, it) = Seen(p, f, r),
           Rank(p, f, pos) # i + 1 \/ pos = ParentOf(p, f)
    PROVE  Sees(p, f, i, it)
<1> DEFINE base == PositionInTree(p, f)
           parent == ParentOf(p, f)
           q == Skipped(p, f, r)
           x == At(p, f, q, "traversing_upper_layers", UpperState(q))
<1>1. /\ parent \in Upper(p, f) /\ parent.layer + 1 = base.layer
  BY BelowRoot
<1>2. /\ q \in Upper(p, f) /\ q # parent /\ Rank(p, f, q) = i + 1
      /\ Seen(p, f, q) = SeenBy(p, f, it) \cup {ToAddress(q, f)}
  <2>1. CASE r # parent
    BY <2>1 DEF Skipped
  <2>2. CASE r = parent
    <3>1. q = AdvanceUpper(parent, f) /\ ~IsRoot(parent)
      BY <2>2 DEF Skipped, IsRoot
    <3>2. /\ q \in Upper(p, f)
          /\ q # parent
          /\ Seen(p, f, q) = Seen(p, f, parent) \cup {ToAddress(q, f)}
          /\ Rank(p, f, q) = Rank(p, f, parent) + IF q = parent THEN 0 ELSE 1
      <4> HIDE DEF q, parent
      <4> QED
        BY <1>1, <3>1, AdvanceSees DEF parent
    <3> HIDE DEF q
    <3> QED
      BY <2>2, <3>2
  <2> QED
    BY <2>1, <2>2
<1> HIDE DEF q
<1>3. q \in AnyPosition /\ pos \in AnyPosition /\ q \in Positions(f) /\ pos \in Positions(f)
  BY <1>2 DEF Upper, Positions, AnyPosition
<1>4. IteratorStep(it) = x
  <2>1. IteratorStep(At(p, f, pos, old, "traversing_upper_layers")) = x
    BY <1>3, StepFromUpper DEF q
  <2> QED
    BY <2>1
<1>5. /\ SeenBy(p, f, x) = Seen(p, f, q) /\ x.address = ToAddress(q, f)
      /\ x.state = UpperState(q)
  BY <1>2, AtUpper
<1>6. x.address # it.address
  <2>1. q # pos
    BY <1>2
  <2>2. it.address = ToAddress(pos, f)
    BY DEF At
  <2> QED
    BY <1>3, <1>5, <2>1, <2>2, AddressInjective
<1>7. NextAddress(it) = x
  <2> HIDE DEF x
  <2> QED
    BY <1>4, <1>6, NextAtOnce
<1>8. Phase(p, f, i + 1, x)
  BY <1>2 DEF Phase
<1> HIDE DEF x
<1> QED
  BY <1>2, <1>5, <1>7, <1>8 DEF Sees

(* From the parent, when there are more layers above it.                    *)
LEMMA NextAfterParent ==
    ASSUME NEW f \in Nat \ {0}, NEW p \in Nat \ {0},
           PositionInTree(p, f).layer # 0, PositionInTree(p, f).layer # 1,
           NEW it, it = At(p, f, ParentOf(p, f), "traversing_parent_node",
                           "traversing_upper_layers")
    PROVE  Sees(p, f, 0, it)
<1> DEFINE base == PositionInTree(p, f)
           parent == ParentOf(p, f)
           r == [layer |-> parent.layer, offset |-> 0]
<1>1. /\ parent \in Upper(p, f) /\ parent.layer + 1 = base.layer
      /\ base.layer \in Nat
  BY BelowRoot
<1>2. /\ parent.layer \in Nat \ {0} /\ parent.offset \in Nat
      /\ parent.offset < NumNodes(parent.layer, f) /\ parent \in AnyPosition
  BY <1>1 DEF Upper, Positions, AnyPosition
<1>3. /\ NodesAbove(parent.layer, f) \in Nat
      /\ NodesAbove(base.layer, f) = NodesAbove(parent.layer + 1, f)
      /\ NodesAbove(base.layer, f) \in Nat
      /\ NumNodes(parent.layer, f) \in Nat \ {0}
  BY <1>1, <1>2, LayerNumbers
<1> HIDE DEF parent, base
<1>4. /\ r.layer = parent.layer /\ r.offset = 0 /\ r \in AnyPosition
      /\ (r = parent <=> parent.offset = 0)
  BY <1>2 DEF AnyPosition
<1>5. r \in Upper(p, f)
  <2>1. r.layer < base.layer /\ r.offset < NumNodes(r.layer, f)
    BY <1>1, <1>2, <1>3, <1>4
  <2> QED
    BY <1>4, <2>1 DEF Upper, Positions, AnyPosition, base
<1> HIDE DEF r
<1>6. Rank(p, f, r) = IF r = parent THEN 0 ELSE 1
  <2>1. Rank(p, f, r) = NodesAbove(base.layer, f) - NodesAbove(parent.layer + 1, f) + 0
                          + (IF 0 < parent.offset THEN 1 ELSE 0)
    BY <1>4 DEF Rank, base, parent
  <2> QED
    BY <1>2, <1>3, <1>4, <2>1
<1>7. SeenBy(p, f, it) = {ToAddress(parent, f)} /\ it.address = ToAddress(parent, f)
  <2>1. parent.layer # base.layer
    BY <1>1, <1>2
  <2> QED
    BY <2>1 DEF SeenBy, At, base, parent
<1>8. Seen(p, f, r) = {ToAddress(parent, f)} \cup {ToAddress(r, f)}
  <2>1. Seen(p, f, r) = {ToAddress(parent, f)}
           \cup ((NodesAbove(parent.layer + 1, f) + 1)..NodesAbove(base.layer, f))
           \cup ((NodesAbove(parent.layer, f) + 1)..(NodesAbove(parent.layer, f) + 0 + 1))
    BY <1>4 DEF Seen, base, parent
  <2>2. (NodesAbove(parent.layer + 1, f) + 1)..NodesAbove(base.layer, f) = {}
    BY <1>3
  <2>3. (NodesAbove(parent.layer, f) + 1)..(NodesAbove(parent.layer, f) + 0 + 1) = {ToAddress(r, f)}
    BY <1>3, <1>4 DEF ToAddress
  <2> QED
    BY <2>1, <2>2, <2>3
<1>9. r = IF "traversing_parent_node" # "traversing_upper_layers"
          THEN [layer |-> ParentOf(p, f).layer, offset |-> 0]
          ELSE AdvanceUpper(parent, f)
  BY DEF r, parent
<1>10. "traversing_parent_node" \in IteratorStates /\ 0 \in Nat
  BY DEF IteratorStates
<1>11. /\ Rank(p, f, r) = 0 + (IF r = parent THEN 0 ELSE 1)
       /\ SeenBy(p, f, it) \cup {ToAddress(r, f)} = Seen(p, f, r)
       /\ r = parent => SeenBy(p, f, it) = Seen(p, f, r)
  BY <1>6, <1>7, <1>8
<1> QED
  BY <1>1, <1>2, <1>5, <1>9, <1>10, <1>11, NextAtUpper DEF parent

(* From a position in the layer of p.                                       *)
LEMMA NextAtBase ==
    ASSUME NEW f \in Nat \ {0}, NEW p \in Nat \ {0}, PositionInTree(p, f).layer # 0,
           NEW k \in Nat, k < PositionInTree(p, f).offset,
           NEW it, it = At(p, f, [layer |-> PositionInTree(p, f).layer, offset |-> k],
                           "traversing_base_layer", "traversing_base_layer")
    PROVE  Sees(p, f, NodesAbove(PositionInTree(p, f).layer, f) + k, it)
<1> DEFINE base == PositionInTree(p, f)
           above == NodesAbove(base.layer, f)
           pos == [layer |-> base.layer, offset |-> k]
           q == [layer |-> base.layer, offset |-> k + 1]
           state == IF q = base THEN "end" ELSE "traversing_base_layer"
           x == At(p, f, q, "traversing_base_layer", state)
<1>1. /\ base.layer \in Nat /\ base.offset \in Nat /\ base.offset < NumNodes(base.layer, f)
      /\ p = above + base.offset + 1 /\ above \in Nat
  BY BelowRoot
<1>2. /\ SeenBy(p, f, it) = 1..(above + k + 1) /\ it.address = above + k + 1
      /\ pos \in AnyPosition
  <2> HIDE DEF pos
  <2>1. it = At(p, f, pos, "traversing_base_layer", "traversing_base_layer")
    BY DEF pos
  <2> QED
    BY <2>1, AtBase DEF pos
<1>3. /\ SeenBy(p, f, x) = 1..(above + (k + 1) + 1)
      /\ x.address = above + (k + 1) + 1 /\ x.state = state
      /\ q \in AnyPosition /\ (q = base <=> k + 1 = base.offset)
  <2>1. k + 1 \in Nat
    OBVIOUS
  <2> HIDE DEF x, q
  <2> QED
    BY <2>1, AtBase DEF q, x
<1>4. q = Increment(pos, f)
  <2>1. pos.layer = base.layer /\ pos.offset = k
    OBVIOUS
  <2>2. NumNodes(base.layer, f) \in Nat
    BY <1>1, LayerSizes
  <2>3. ~IsLast(pos, f)
    BY <1>1, <2>1, <2>2 DEF IsLast
  <2>4. [pos EXCEPT !.offset = @ + 1] = q
    BY <1>1
  <2> HIDE DEF pos, q
  <2> QED
    BY <2>3, <2>4 DEF Increment
<1>5. IteratorStep(it) = x
  <2>1. "traversing_base_layer" \in IteratorStates
    BY DEF IteratorStates
  <2> HIDE DEF q
  <2>2. q = IF "traversing_base_layer" # "traversing_base_layer"
            THEN [layer |-> PositionInTree(p, f).layer, offset |-> 0]
            ELSE Increment(pos, f)
    BY <1>4
  <2>3. IteratorStep(At(p, f, pos, "traversing_base_layer", "traversing_base_layer")) = x
    <3> HIDE DEF pos
    <3> QED
      BY <1>2, <1>3, <2>1, <2>2, StepFromBase
  <2> QED
    BY <2>3
<1> HIDE DEF x
<1>6. NextAddress(it) = x
  <2>1. x.address # it.address
    BY <1>1, <1>2, <1>3
  <2> QED
    BY <1>5, <2>1, NextAtOnce
<1>7. Phase(p, f, above + k + 1, x)
  <2>1. CASE q = base
    <3>1. above + k + 1 >= p - 1 /\ x.state = "end"
      BY <1>1, <1>3, <2>1
    <3> QED
      BY <3>1 DEF Phase
  <2>2. CASE q # base
    <3>1. k + 1 \in Nat /\ k + 1 < base.offset /\ above + k + 1 = above + (k + 1)
      BY <1>1, <1>3, <2>2
    <3>2. x = At(p, f, [layer |-> base.layer, offset |-> k + 1],
                 "traversing_base_layer", "traversing_base_layer")
      BY <2>2 DEF x
    <3> QED
      BY <3>1, <3>2 DEF Phase
  <2> QED
    BY <2>1, <2>2
<1>8. SeenBy(p, f, x) = SeenBy(p, f, it) \cup {x.address}
  BY <1>1, <1>2, <1>3, SMTT(30)
<1> QED
  BY <1>6, <1>7, <1>8 DEF Sees

(* Every phase leads to the next one.                                       *)
LEMMA NextPhase ==
    ASSUME NEW f \in Nat \ {0}, NEW p \in Nat \ {0}, PositionInTree(p, f).layer # 0,
           NEW i \in Nat, NEW it, Phase(p, f, i, it)
    PROVE  Sees(p, f, i, it)
<1> DEFINE base == PositionInTree(p, f)
           parent == ParentOf(p, f)
           above == NodesAbove(base.layer, f)
<1>1. CASE /\ i = 0
           /\ it = At(p, f, parent, "traversing_parent_node", "traversing_upper_layers")
  BY <1>1, NextAfterRoot, NextAfterParent
<1>2. ASSUME NEW pos \in Upper(p, f), pos # parent, i = Rank(p, f, pos),
             it = At(p, f, pos, "traversing_upper_layers", UpperState(pos))
      PROVE  Sees(p, f, i, it)
  <2>1. CASE IsRoot(pos)
    <3>1. /\ i + 1 = above /\ Seen(p, f, pos) = 1..above
      BY <1>2, <2>1, RankBounds
    <3>2. it = At(p, f, pos, "traversing_upper_layers", "traversing_base_layer")
      BY <1>2, <2>1 DEF UpperState
    <3>3. SeenBy(p, f, it) = 1..(i + 1)
      BY <3>1, <3>2, AtUpper
    <3> DEFINE x == IteratorStep(it)
    <3>4. /\ Phase(p, f, i + 1, x) /\ x.address # it.address
          /\ x.state # "end" => SeenBy(p, f, x) = (1..(i + 1)) \cup {x.address}
      <4>1. /\ Phase(p, f, above, x) /\ x.address # it.address
            /\ x.state # "end" => SeenBy(p, f, x) = (1..above) \cup {x.address}
        BY <2>1, <3>2, EnterBase
      <4> HIDE DEF x
      <4> QED
        BY <3>1, <4>1
    <3>5. NextAddress(it) = x
      BY <3>4, NextAtOnce
    <3> HIDE DEF x
    <3> QED
      BY <3>3, <3>4, <3>5 DEF Sees
  <2>2. CASE ~IsRoot(pos)
    <3> DEFINE r == AdvanceUpper(pos, f)
    <3>1. it = At(p, f, pos, "traversing_upper_layers", "traversing_upper_layers")
      BY <1>2, <2>2 DEF UpperState
    <3>2. parent \in Upper(p, f) /\ parent.layer + 1 = base.layer
      BY BelowRoot
    <3>3. parent.layer # 0
      <4>1. NumNodes(0, f) = 1
        BY LayerSizes
      <4>2. parent.layer = 0 => pos.layer = 0
        BY <3>2 DEF Upper, Positions
      <4>3. pos.layer = 0 => pos.offset = 0
        BY <4>1 DEF Upper, Positions
      <4> QED
        BY <2>2, <4>2, <4>3 DEF IsRoot
    <3>4. /\ r \in Upper(p, f)
          /\ Seen(p, f, r) = Seen(p, f, pos) \cup {ToAddress(r, f)}
          /\ Rank(p, f, r) = Rank(p, f, pos) + IF r = parent THEN 0 ELSE 1
      <4> HIDE DEF r
      <4> QED
        BY <2>2, <3>2, AdvanceSees DEF r
    <3>5. SeenBy(p, f, it) = Seen(p, f, pos)
      BY <3>1, AtUpper
    <3>6. r = parent => SeenBy(p, f, it) = Seen(p, f, r)
      <4>1. ToAddress(parent, f) \in Seen(p, f, pos)
        BY DEF Seen
      <4> QED
        BY <3>4, <3>5, <4>1
    <3>7. r = IF "traversing_upper_layers" # "traversing_upper_layers"
              THEN [layer |-> ParentOf(p, f).layer, offset |-> 0]
              ELSE AdvanceUpper(pos, f)
      OBVIOUS
    <3>8. "traversing_upper_layers" \in IteratorStates
      BY DEF IteratorStates
    <3> HIDE DEF r
    <3>9. /\ Rank(p, f, r) = i + (IF r = parent THEN 0 ELSE 1)
          /\ SeenBy(p, f, it) \cup {ToAddress(r, f)} = Seen(p, f, r)
          /\ Rank(p, f, pos) # i + 1
      BY <1>2, <3>4, <3>5
    <3> QED
      BY <3>1, <3>3, <3>4, <3>6, <3>7, <3>8, <3>9, NextAtUpper
  <2> QED
    BY <2>1, <2>2
<1>3. ASSUME NEW k \in Nat, k < base.offset, i = above + k,
             it = At(p, f, [layer |-> base.layer, offset |-> k],
                     "traversing_base_layer", "traversing_base_layer")
      PROVE  Sees(p, f, i, it)
  BY <1>3, NextAtBase
<1>4. CASE i >= p - 1 /\ it.state = "end"
  <2>1. NextAddress(it) = it
    BY <1>4, EndIsLast
  <2>2. i + 1 >= p - 1
    BY <1>4
  <2>3. Phase(p, f, i + 1, it)
    BY <1>4, <2>2 DEF Phase
  <2> QED
    BY <1>4, <2>1, <2>3 DEF Sees
<1> QED
  BY <1>1, <1>2, <1>3, <1>4 DEF Phase

(* The end of the iteration: after p - 1 addresses, all of them seen.       *)
LEMMA PhaseEnds ==
    ASSUME NEW f \in Nat \ {0}, NEW p \in Nat \ {0}, PositionInTree(p, f).layer # 0,
           NEW i \in Nat, NEW it, Phase(p, f, i, it)
    PROVE  /\ it.state # "end" <=> i < p - 1
           /\ i < p - 1 => it.address \in 1..(p - 1)
           /\ i + 1 = p - 1 => SeenBy(p, f, it) = 1..(p - 1)
<1> DEFINE base == PositionInTree(p, f)
           parent == ParentOf(p, f)
           above == NodesAbove(base.layer, f)
<1>0. /\ base.offset \in Nat /\ p = above + base.offset + 1 /\ above \in Nat \ {0}
      /\ parent \in Upper(p, f) /\ ToAddress(parent, f) \in 1..above
      /\ parent.layer + 1 = base.layer
  BY BelowRoot
<1>1. CASE /\ i = 0
           /\ it = At(p, f, parent, "traversing_parent_node", "traversing_upper_layers")
  <2>1. it.state # "end" /\ it.address = ToAddress(parent, f)
    BY <1>1 DEF At
  <2>2. SeenBy(p, f, it) = {it.address}
    <3>1. parent.layer # base.layer
      BY <1>0 DEF Upper, Positions
    <3> QED
      BY <1>1, <3>1 DEF SeenBy, At
  <2>3. p - 1 >= 1 /\ above <= p - 1 /\ i < p - 1
    BY <1>0, <1>1
  <2>4. it.address \in 1..(p - 1)
    BY <1>0, <2>1, <2>3
  <2>5. i + 1 = p - 1 => it.address = 1 /\ 1..(p - 1) = {1}
    BY <1>1, <2>4
  <2> QED
    BY <2>1, <2>2, <2>3, <2>4, <2>5
<1>2. ASSUME NEW pos \in Upper(p, f), pos # parent, i = Rank(p, f, pos),
             it = At(p, f, pos, "traversing_upper_layers", UpperState(pos))
      PROVE  /\ it.state # "end" /\ i < p - 1 /\ it.address \in 1..(p - 1)
             /\ i + 1 = p - 1 => SeenBy(p, f, it) = 1..(p - 1)
  <2>1. /\ SeenBy(p, f, it) = Seen(p, f, pos) /\ it.address = ToAddress(pos, f)
        /\ it.state = UpperState(pos)
    BY <1>2, AtUpper
  <2>2. /\ i < above /\ ToAddress(pos, f) \in 1..above
        /\ i + 1 = above => IsRoot(pos)
        /\ IsRoot(pos) => Seen(p, f, pos) = 1..above
    BY <1>2, RankBounds
  <2>3. it.state # "end"
    BY <2>1 DEF UpperState
  <2>4. i + 1 = p - 1 => i + 1 = above /\ above = p - 1
    BY <1>0, <2>2
  <2> QED
    BY <1>0, <2>1, <2>2, <2>3, <2>4
<1>3. ASSUME NEW k \in Nat, k < base.offset, i = above + k,
             it = At(p, f, [layer |-> base.layer, offset |-> k],
                     "traversing_base_layer", "traversing_base_layer")
      PROVE  /\ it.state # "end" /\ i < p - 1 /\ it.address \in 1..(p - 1)
             /\ i + 1 = p - 1 => SeenBy(p, f, it) = 1..(p - 1)
  <2>1. /\ SeenBy(p, f, it) = 1..(above + k + 1) /\ it.address = above + k + 1
        /\ it.state = "traversing_base_layer"
    BY <1>3, AtBase
  <2> QED
    BY <1>0, <1>3, <2>1, SMTT(30)
<1>4. CASE i >= p - 1 /\ it.state = "end"
  BY <1>4
<1> QED
  BY <1>1, <1>2, <1>3, <1>4 DEF Phase

(* The iterators of a position in order, by which its addresses are         *)
(* defined.                                                                 *)
IteratorsOf(p, f, iterator) ==
    /\ DOMAIN iterator = 0..p
    /\ iterator[0] = NextAddress(NewIterator(p, f))
    /\ \A i \in 1..p : iterator[i] = NextAddress(iterator[i - 1])

(* One step of an iterator makes another one.                               *)
LEMMA StaysIterator ==
    ASSUME NEW it \in Iterators, it.fanout # 0
    PROVE  NextAddress(it) \in Iterators /\ NextAddress(it).fanout = it.fanout
<1> DEFINE Same(x) == x \in Iterators /\ x.fanout = it.fanout
<1>1. ASSUME NEW x, Same(x) PROVE Same(IteratorStep(x))
  <2>1. x \in Iterators /\ x.fanout \in Nat \ {0}
    BY <1>1 DEF Iterators
  <2>2. ASSUME NEW s \in IteratorStates, NEW y, Same(y) PROVE Same(SetState(y, s))
    BY <2>2 DEF SetState, Iterators
  <2>3. ASSUME NEW pos \in AnyPosition, NEW y, Same(y) PROVE Same(MoveTo(y, pos))
    <3>1. y.fanout \in Nat \ {0}
      BY <2>3 DEF Iterators
    <3>2. ToAddress(pos, y.fanout) \in Nat
      BY <3>1, AnyAddress
    <3> QED
      BY <2>3, <3>2 DEF MoveTo, Iterators
  <2>4. Same([x EXCEPT !.old = x.state])
    BY <1>1 DEF Iterators
  <2>5. /\ x.parent \in AnyPosition /\ x.base \in AnyPosition /\ x.current \in AnyPosition
        /\ [layer |-> x.parent.layer, offset |-> 0] \in AnyPosition
        /\ [layer |-> x.base.layer, offset |-> 0] \in AnyPosition
    BY <2>1 DEF Iterators, AnyPosition
  <2>6. \A pos \in AnyPosition : /\ AdvanceUpper(pos, x.fanout) \in AnyPosition
                                 /\ Increment(pos, x.fanout) \in AnyPosition
    BY <2>1, AdvanceAny
  <2>7. {"end", "traversing_parent_node", "traversing_upper_layers", "traversing_base_layer"}
          \subseteq IteratorStates
    BY DEF IteratorStates
  <2> HIDE DEF Same
  <2>8. Same(InitialStep(x))
    BY <1>1, <2>2, <2>7 DEF InitialStep
  <2>9. Same(TraverseParentNode(x))
    BY <1>1, <2>2, <2>3, <2>5, <2>7 DEF TraverseParentNode
  <2>10. Same(TraverseUpperLayers(x))
    BY <1>1, <2>2, <2>3, <2>4, <2>5, <2>6, <2>7 DEF TraverseUpperLayers
  <2>11. Same(TraverseBaseLayer(x))
    BY <1>1, <2>2, <2>3, <2>4, <2>5, <2>6, <2>7 DEF TraverseBaseLayer
  <2>12. x.state \in IteratorStates
    BY <2>1 DEF Iterators
  <2> QED
    BY <1>1, <2>8, <2>9, <2>10, <2>11, <2>12 DEF IteratorStep, IteratorStates
<1>2. Same(it)
  OBVIOUS
<1> HIDE DEF Same
<1>3. ASSUME NEW x, Same(x) PROVE Same(StepUnlessDone(x, it))
  BY <1>1, <1>3 DEF StepUnlessDone
<1>4. Same(NextAddress(it))
  BY <1>1, <1>2, <1>3, NextTakenApart
<1> QED
  BY <1>4 DEF Same

(* The addresses a node visits are those of a sequence of iterators, each   *)
(* advanced from the one before, up to the end.                             *)
LEMMA AddressesTakenApart ==
    ASSUME NEW f \in Nat \ {0}, NEW p \in Nat \ {0}
    PROVE  \E iterator :
              /\ IteratorsOf(p, f, iterator)
              /\ Addresses(p, f) =
                    [i \in {j + 1 : j \in {k \in 0..p : iterator[k].state # "end"}} |->
                        iterator[i - 1].address]
<1> DEFINE D == {it \in Iterators : it.fanout = f}
           g == [e \in Nat \X D |-> NextAddress(e[2])]
           first == NextAddress(NewIterator(p, f))
           IsIterator(h) == h = [i \in 0..p |-> IF i = 0 THEN NextAddress(NewIterator(p, f))
                                                ELSE NextAddress(h[i - 1])]
           iterator == CHOOSE h : IsIterator(h)
<1>1. \A it \in D : NextAddress(it) \in D
  BY StaysIterator
<1>2. first \in D
  <2>1. NewIterator(p, f) \in D
    BY NewIsIterator DEF NewIterator
  <2> QED
    BY <1>1, <2>1
<1> HIDE DEF first, D
<1>3. PICK h \in [0..p -> D] : Follows(h, first, g, p)
  <2>1. StepIn(g, D)
    BY <1>1 DEF StepIn
  <2> HIDE DEF g
  <2> QED
    BY <1>2, <2>1, RecursionOnInterval
<1>4. h[0] = first /\ \A i \in 1..p : h[i] = NextAddress(h[i - 1])
  <2>1. ASSUME NEW i \in 1..p PROVE h[i] = NextAddress(h[i - 1])
    <3>1. i - 1 \in 0..p /\ i \in Nat
      OBVIOUS
    <3>2. h[i - 1] \in D
      BY <1>3, <3>1
    <3>3. h[i] = g[<<i, h[i - 1]>>]
      <4> HIDE DEF g
      <4> QED
        BY <1>3 DEF Follows
    <3> QED
      BY <3>1, <3>2, <3>3
  <2> QED
    BY <1>3, <2>1 DEF Follows
<1>5. IsIterator(h)
  <2>1. \A i \in 0..p : h[i] = IF i = 0 THEN NextAddress(NewIterator(p, f)) ELSE NextAddress(h[i - 1])
    BY <1>4 DEF first
  <2> QED
    BY <1>3, <2>1
<1>6. IsIterator(iterator)
  <2> HIDE DEF IsIterator
  <2> QED
    BY <1>5
<1>7. Addresses(p, f) = [i \in {j + 1 : j \in {k \in 0..p : iterator[k].state # "end"}} |->
                            iterator[i - 1].address]
  BY DEF Addresses
<1> HIDE DEF iterator
<1>8. IteratorsOf(p, f, iterator)
  BY <1>6 DEF IteratorsOf
<1> QED
  BY <1>7, <1>8

(* The iterators of a position below the root, and what they have seen.     *)
SeenUpTo(iterator, i) == {iterator[j].address : j \in 0..i}

PhaseSeen(p, f, iterator, i) ==
    /\ Phase(p, f, i, iterator[i])
    /\ i < p - 1 => SeenBy(p, f, iterator[i]) = SeenUpTo(iterator, i)

(* The iterators of p go through the phases in their order.                 *)
LEMMA PhasesInOrder ==
    ASSUME NEW f \in Nat \ {0}, NEW p \in Nat \ {0}, PositionInTree(p, f).layer # 0,
           NEW iterator, IteratorsOf(p, f, iterator), NEW i \in Nat, i <= p
    PROVE  PhaseSeen(p, f, iterator, i)
<1> DEFINE InOrder(k) == PhaseSeen(p, f, iterator, k)
           P == {k \in Nat : k <= p => InOrder(k)}
<1>1. InOrder(0)
  <2> DEFINE first == NextAddress(NewIterator(p, f))
  <2>1. /\ first = At(p, f, ParentOf(p, f), "traversing_parent_node", "traversing_upper_layers")
        /\ ParentOf(p, f).layer = PositionInTree(p, f).layer - 1
    BY FirstAddress
  <2>2. PositionInTree(p, f).layer \in Nat
    BY BelowRoot
  <2>3. iterator[0] = first
    BY DEF IteratorsOf
  <2> HIDE DEF first
  <2>4. SeenBy(p, f, first) = {first.address}
    BY <2>1, <2>2 DEF SeenBy, At
  <2>5. Phase(p, f, 0, first)
    BY <2>1 DEF Phase
  <2>6. SeenUpTo(iterator, 0) = {iterator[0].address}
    BY DEF SeenUpTo
  <2> QED
    BY <2>3, <2>4, <2>5, <2>6 DEF PhaseSeen
<1>2. ASSUME NEW k \in Nat, k + 1 <= p, InOrder(k) PROVE InOrder(k + 1)
  <2>0. /\ Phase(p, f, k, iterator[k])
        /\ k < p - 1 => SeenBy(p, f, iterator[k]) = SeenUpTo(iterator, k)
    BY <1>2 DEF PhaseSeen
  <2>1. Sees(p, f, k, iterator[k])
    BY <1>2, <2>0, NextPhase
  <2>2. iterator[k + 1] = NextAddress(iterator[k])
    <3>1. k + 1 \in 1..p /\ (k + 1) - 1 = k
      BY <1>2
    <3> QED
      BY <3>1 DEF IteratorsOf
  <2>3. Phase(p, f, k + 1, iterator[k + 1])
    BY <2>1, <2>2 DEF Sees
  <2>4. ASSUME k + 1 < p - 1
        PROVE  SeenBy(p, f, iterator[k + 1]) = SeenUpTo(iterator, k + 1)
    <3>1. iterator[k + 1].state # "end"
      BY <2>3, <2>4, PhaseEnds
    <3>2. k < p - 1
      BY <2>4
    <3>3. SeenBy(p, f, iterator[k + 1])
             = SeenUpTo(iterator, k) \cup {iterator[k + 1].address}
      BY <1>2, <2>0, <2>1, <2>2, <3>1, <3>2 DEF Sees
    <3>4. 0..(k + 1) = 0..k \cup {k + 1}
      OBVIOUS
    <3> QED
      BY <3>3, <3>4 DEF SeenUpTo
  <2> QED
    BY <2>3, <2>4 DEF PhaseSeen
<1>3. 0 \in P
  BY <1>1
<1>4. ASSUME NEW k \in P PROVE k + 1 \in P
  <2> SUFFICES ASSUME k + 1 <= p PROVE InOrder(k + 1)
    OBVIOUS
  <2>1. InOrder(k)
    OBVIOUS
  <2> HIDE DEF InOrder
  <2> QED
    BY <1>2, <2>1
<1>5. P = Nat
  <2> HIDE DEF P
  <2> QED
    BY <1>3, <1>4, InductiveSet DEF P
<1> QED
  BY <1>5

(* A node at any position of a tree of any fan-out visits every node before *)
(* it once, its parent first (tree_hierarchy_iterator.hh).  It is proved    *)
(* for all numbers, where the runs evaluate it for small ones.              *)
THEOREM VisitsAll ==
    ASSUME NEW f \in Nat \ {0}, NEW p \in Nat \ {0}
    PROVE  VisitsAllBefore(p, f)
<1> DEFINE Live(iterator) == {k \in 0..p : iterator[k].state # "end"}
           D(iterator) == {j + 1 : j \in Live(iterator)}
<1>1. PICK iterator : /\ IteratorsOf(p, f, iterator)
                      /\ Addresses(p, f) = [i \in D(iterator) |-> iterator[i - 1].address]
  BY AddressesTakenApart
<1> DEFINE a == Addresses(p, f)
           live == Live(iterator)
<1>2. DOMAIN a = {j + 1 : j \in live} /\ \A i \in DOMAIN a : a[i] = iterator[i - 1].address
  BY <1>1
<1>3. CASE PositionInTree(p, f).layer = 0
  <2>1. p = 1
    <3>1. /\ PositionInTree(p, f) \in Positions(f) /\ ToAddress(PositionInTree(p, f), f) = p
          /\ NumNodes(0, f) = 1 /\ NodesAbove(0, f) = 0
      BY PositionFound, LayerSizes, LayerStarts
    <3> QED
      BY <1>3, <3>1 DEF ToAddress, Positions
  <2>2. iterator[0].state = "end" /\ iterator[1] = NextAddress(iterator[0])
    BY <1>1, <1>3, <2>1, FirstAddress DEF IteratorsOf
  <2>3. iterator[1].state = "end"
    BY <2>2, EndIsLast
  <2>4. live = {}
    BY <2>1, <2>2, <2>3
  <2> HIDE DEF live
  <2>5. DOMAIN a = {} /\ {a[i] : i \in DOMAIN a} = {} /\ 1..(p - 1) = {}
    BY <1>2, <2>1, <2>4
  <2> QED
    BY <2>1, <2>5 DEF VisitsAllBefore
<1>4. CASE PositionInTree(p, f).layer # 0
  <2>1. p >= 2
    <3>1. /\ p = NodesAbove(PositionInTree(p, f).layer, f) + PositionInTree(p, f).offset + 1
          /\ NodesAbove(PositionInTree(p, f).layer, f) \in Nat \ {0}
          /\ PositionInTree(p, f).offset \in Nat
      BY <1>4, BelowRoot
    <3> QED
      BY <3>1
  <2>2. ASSUME NEW i \in Nat, i <= p
        PROVE  /\ (iterator[i].state # "end") <=> i < p - 1
               /\ i + 1 = p - 1 => SeenUpTo(iterator, i) = 1..(p - 1)
    <3>1. /\ Phase(p, f, i, iterator[i])
          /\ i < p - 1 => SeenBy(p, f, iterator[i]) = SeenUpTo(iterator, i)
      <4>1. IteratorsOf(p, f, iterator) /\ i \in Nat /\ i <= p
        BY <1>1, <2>2
      <4> QED
        BY <1>4, <4>1, PhasesInOrder DEF PhaseSeen
    <3>2. /\ (iterator[i].state # "end") <=> i < p - 1
          /\ i + 1 = p - 1 => SeenBy(p, f, iterator[i]) = 1..(p - 1)
      <4>1. Phase(p, f, i, iterator[i])
        BY <3>1
      <4> QED
        BY <1>4, <2>2, <4>1, PhaseEnds
    <3>3. i + 1 = p - 1 => i < p - 1
      OBVIOUS
    <3> QED
      BY <3>1, <3>2, <3>3, Zenon
  <2>3. live = 0..(p - 2)
    BY <2>1, <2>2
  <2>4. {iterator[j].address : j \in 0..(p - 2)} = 1..(p - 1)
    <3>1. p - 2 \in Nat /\ p - 2 <= p /\ (p - 2) + 1 = p - 1
      BY <2>1
    <3> QED
      BY <2>2, <3>1 DEF SeenUpTo
  <2> HIDE DEF live, a
  <2>5. DOMAIN a = 1..(p - 1)
    <3>1. {j + 1 : j \in 0..(p - 2)} = 1..(p - 1)
      <4>1. ASSUME NEW x \in 1..(p - 1) PROVE x - 1 \in 0..(p - 2) /\ (x - 1) + 1 = x
        OBVIOUS
      <4> QED
        BY <4>1
    <3> QED
      BY <1>2, <2>3, <3>1
  <2>6. {a[i] : i \in DOMAIN a} = 1..(p - 1)
    <3>1. {a[i] : i \in DOMAIN a} = {iterator[j].address : j \in 0..(p - 2)}
      <4>1. ASSUME NEW j \in 0..(p - 2) PROVE j + 1 \in 1..(p - 1) /\ (j + 1) - 1 = j
        OBVIOUS
      <4>2. ASSUME NEW i \in 1..(p - 1) PROVE i - 1 \in 0..(p - 2)
        OBVIOUS
      <4>3. ASSUME NEW i \in DOMAIN a
            PROVE  \E j \in 0..(p - 2) : a[i] = iterator[j].address
        BY <1>2, <2>5, <4>2
      <4>4. ASSUME NEW j \in 0..(p - 2)
            PROVE  \E i \in DOMAIN a : a[i] = iterator[j].address
        <5>1. j + 1 \in DOMAIN a /\ a[j + 1] = iterator[(j + 1) - 1].address
          BY <1>2, <2>5, <4>1
        <5> QED
          BY <4>1, <5>1
      <4> QED
        BY <4>3, <4>4
    <3> QED
      BY <2>4, <3>1
  <2>7. a[1] = ParentAddress(p, f)
    <3>1. a[1] = iterator[0].address
      <4>1. 1 \in 1..(p - 1) /\ 1 - 1 = 0
        BY <2>1
      <4> QED
        BY <1>2, <2>5, <4>1
    <3>2. /\ iterator[0] = At(p, f, ParentOf(p, f), "traversing_parent_node",
                              "traversing_upper_layers")
          /\ ToAddress(ParentOf(p, f), f) = ParentAddress(p, f)
      BY <1>1, <1>4, FirstAddress DEF IteratorsOf
    <3> QED
      BY <3>1, <3>2 DEF At
  <2> QED
    BY <2>5, <2>6, <2>7 DEF VisitsAllBefore, a
<1> QED
  BY <1>3, <1>4

-----------------------------------------------------------------------------
(***************************************************************************)
(* Queues: what is left of them, and how many messages of a type they      *)
(* hold.                                                                   *)
(***************************************************************************)

(* Only(seq, kept), built up element by element.                            *)
LEMMA OnlyTakenApart ==
    ASSUME NEW S, NEW seq \in Seq(S), NEW kept
    PROVE  \E part \in [0..Len(seq) -> Seq(S \cap kept)] :
              /\ part[0] = <<>>
              /\ \A i \in 1..Len(seq) :
                    part[i] = IF seq[i] \in kept THEN Append(part[i - 1], seq[i])
                                                 ELSE part[i - 1]
              /\ Only(seq, kept) = part[Len(seq)]
<1> DEFINE D == Seq(S \cap kept)
           n == Len(seq)
           grown(i, y) == IF seq[i] \in kept THEN Append(y, seq[i]) ELSE y
           g == [e \in Nat \X D |-> IF e[1] \in 1..n THEN grown(e[1], e[2]) ELSE e[2]]
           IsPart(h) == h = [i \in 0..Len(seq) |->
                                IF i = 0 THEN <<>>
                                ELSE IF seq[i] \in kept THEN Append(h[i - 1], seq[i])
                                                        ELSE h[i - 1]]
           part == CHOOSE h : IsPart(h)
<1>1. n \in Nat /\ <<>> \in D
  OBVIOUS
<1>2. ASSUME NEW i \in 1..n, NEW y \in D PROVE grown(i, y) \in D
  <2>1. seq[i] \in S
    OBVIOUS
  <2> QED
    BY <2>1
<1> HIDE DEF grown, D
<1>3. StepIn(g, D)
  BY <1>2 DEF StepIn
<1>4. PICK h \in [0..n -> D] : Follows(h, <<>>, g, n)
  <2> HIDE DEF g, n
  <2> QED
    BY <1>1, <1>3, RecursionOnInterval
<1>5. ASSUME NEW i \in 1..n PROVE h[i] = grown(i, h[i - 1])
  <2>1. i - 1 \in 0..n /\ i \in Nat
    BY <1>1
  <2>2. h[i - 1] \in D
    BY <1>4, <2>1
  <2>3. h[i] = g[<<i, h[i - 1]>>]
    <3> HIDE DEF g
    <3> QED
      BY <1>4 DEF Follows
  <2> QED
    BY <2>1, <2>2, <2>3
<1>6. IsPart(h)
  <2>1. h[0] = <<>>
    BY <1>4 DEF Follows
  <2>2. \A i \in 0..n : h[i] = IF i = 0 THEN <<>> ELSE grown(i, h[i - 1])
    BY <1>5, <2>1
  <2> QED
    BY <1>4, <2>2 DEF grown
<1>7. IsPart(part)
  <2> HIDE DEF IsPart
  <2> QED
    BY <1>6
<1>8. Only(seq, kept) = part[n]
  BY DEF Only
<1> HIDE DEF part
<1>9. part = h
  <2>1. DOMAIN part = 0..n /\ part[0] = <<>>
    BY <1>1, <1>7
  <2>2. ASSUME NEW i \in 1..n PROVE part[i] = grown(i, part[i - 1])
    <3>1. i \in 0..Len(seq) /\ i # 0
      BY <1>1
    <3> QED
      BY <1>7, <3>1 DEF grown
  <2> DEFINE P == {i \in Nat : i <= n => part[i] = h[i]}
  <2>3. 0 \in P
    BY <2>1, <1>4 DEF Follows
  <2>4. ASSUME NEW i \in P PROVE i + 1 \in P
    <3> SUFFICES ASSUME i + 1 <= n PROVE part[i + 1] = h[i + 1]
      OBVIOUS
    <3>1. i + 1 \in 1..n /\ (i + 1) - 1 = i /\ part[i] = h[i]
      BY <1>1
    <3> QED
      BY <3>1, <2>2, <1>5
  <2>5. P = Nat
    <3> HIDE DEF P
    <3> QED
      BY <2>3, <2>4, InductiveSet DEF P
  <2>6. \A i \in 0..n : part[i] = h[i]
    BY <2>5
  <2>7. part = [i \in 0..n |-> part[i]]
    BY <1>7
  <2>8. h = [i \in 0..n |-> h[i]]
    BY <1>4
  <2> QED
    BY <2>6, <2>7, <2>8
<1> QED
  BY <1>4, <1>5, <1>8, <1>9 DEF Follows, D, grown

(* The elements of a sequence that are in a set make a sequence over that   *)
(* set.                                                                     *)
LEMMA OnlyInSet ==
    ASSUME NEW S, NEW seq \in Seq(S), NEW kept
    PROVE  Only(seq, kept) \in Seq(S \cap kept)
<1>1. Len(seq) \in 0..Len(seq)
  OBVIOUS
<1> QED
  BY <1>1, OnlyTakenApart

(* The addresses a node probes are before its own.                          *)
LEMMA ProbesBefore ==
    ASSUME NEW n \in Nodes
    PROVE  Probes[n] \in Seq({m \in Nodes : m < n})
<1>1. n \in Nat \ {0} /\ Fanout \in Nat \ {0}
  BY DiscoveryAssumption
<1>2. VisitsAllBefore(n, Fanout)
  BY <1>1, VisitsAll
<1> DEFINE a == Addresses(n, Fanout)
<1>3. /\ DOMAIN a = 1..(n - 1) /\ \A i \in DOMAIN a : a[i] \in 1..(n - 1)
      /\ a = [i \in DOMAIN a |-> a[i]]
  <2>1. DOMAIN a = 1..(n - 1) /\ {a[i] : i \in DOMAIN a} = 1..(n - 1)
    BY <1>2 DEF VisitsAllBefore
  <2>2. a = [i \in DOMAIN a |-> a[i]]
    <3>1. PICK iterator :
            a = [i \in {j + 1 : j \in {k \in 0..n : iterator[k].state # "end"}} |->
                        iterator[i - 1].address]
      BY <1>1, AddressesTakenApart
    <3> QED
      BY <3>1
  <2> HIDE DEF a
  <2> QED
    BY <2>1, <2>2
<1> HIDE DEF a
<1>4. a \in Seq(1..(n - 1))
  <2>1. a \in [1..(n - 1) -> 1..(n - 1)] /\ n - 1 \in Nat
    BY <1>1, <1>3
  <2> HIDE DEF a
  <2> QED
    BY <2>1, SeqDef
<1>5. Only(a, Nodes) \in Seq((1..(n - 1)) \cap Nodes)
  BY <1>4, OnlyInSet
<1>6. (1..(n - 1)) \cap Nodes \subseteq {m \in Nodes : m < n}
  BY <1>1
<1>7. Probes[n] = Only(a, Nodes)
  BY DEF Probes, a
<1> QED
  BY <1>5, <1>6, <1>7

(* The places of a type in a sequence.                                      *)
Places(seq, type) == {i \in DOMAIN seq : seq[i].type = type}

(* The number of messages of a type in a queue is that of its places in it. *)
LEMMA CountType ==
    ASSUME NEW S, NEW seq \in Seq(S), NEW type
    PROVE  /\ Count(seq, type) = Cardinality(Places(seq, type))
           /\ IsFiniteSet(Places(seq, type))
           /\ Count(seq, type) \in Nat
<1>1. DOMAIN seq = 1..Len(seq) /\ Len(seq) \in Nat
  OBVIOUS
<1>2. IsFiniteSet(1..Len(seq))
  BY <1>1, FS_Interval
<1>3. IsFiniteSet(Places(seq, type))
  BY <1>1, <1>2, FS_Subset DEF Places
<1> QED
  BY <1>3, FS_CardinalityType DEF Count, Places

(* There is nothing in an empty queue.                                      *)
LEMMA CountEmpty ==
    ASSUME NEW type
    PROVE  Count(<<>>, type) = 0
<1>1. {i \in DOMAIN <<>> : <<>>[i].type = type} = {}
  OBVIOUS
<1> QED
  BY <1>1, FS_EmptySet DEF Count

(* A message at the end of a queue adds one to its type.                    *)
LEMMA CountAppend ==
    ASSUME NEW S, NEW seq \in Seq(S), NEW e \in S, NEW type
    PROVE  Count(Append(seq, e), type) = Count(seq, type) + (IF e.type = type THEN 1 ELSE 0)
<1> DEFINE n == Len(seq)
           longer == Append(seq, e)
<1>1. /\ longer \in Seq(S) /\ DOMAIN longer = 1..(n + 1) /\ DOMAIN seq = 1..n /\ n \in Nat
      /\ \A i \in 1..n : longer[i] = seq[i]
      /\ longer[n + 1] = e
  OBVIOUS
<1> HIDE DEF longer, n
<1>2. /\ Count(longer, type) = Cardinality(Places(longer, type))
      /\ Count(seq, type) = Cardinality(Places(seq, type))
      /\ IsFiniteSet(Places(seq, type)) /\ Count(seq, type) \in Nat
  BY <1>1, CountType
<1>3. CASE e.type = type
  <2>1. Places(longer, type) = Places(seq, type) \cup {n + 1} /\ n + 1 \notin Places(seq, type)
    BY <1>1, <1>3 DEF Places
  <2> QED
    BY <1>2, <1>3, <2>1, FS_AddElement DEF longer
<1>4. CASE e.type # type
  <2>1. Places(longer, type) = Places(seq, type)
    BY <1>1, <1>4 DEF Places
  <2> QED
    BY <1>2, <1>4, <2>1 DEF longer
<1> QED
  BY <1>3, <1>4

(* A set of naturals that is moved has as many elements.                    *)
LEMMA MovedSet ==
    ASSUME NEW T \in SUBSET Nat, IsFiniteSet(T), NEW k \in Nat
    PROVE  LET U == {i + k : i \in T} IN IsFiniteSet(U) /\ Cardinality(U) = Cardinality(T)
<1> DEFINE U == {i + k : i \in T}
           f == [i \in T |-> i + k]
<1>1. f \in Bijection(T, U)
  <2>1. f \in [T -> U]
    OBVIOUS
  <2>2. \A x, y \in T : f[x] = f[y] => x = y
    OBVIOUS
  <2>3. \A u \in U : \E x \in T : f[x] = u
    OBVIOUS
  <2> HIDE DEF f, U
  <2> QED
    BY <2>1, <2>2, <2>3 DEF Bijection, Injection, Surjection, IsInjective
<1>2. ExistsBijection(T, U)
  BY <1>1 DEF ExistsBijection
<1> HIDE DEF U
<1> QED
  BY <1>2, FS_Bijection DEF U

(* The messages of two queues, one after the other, add up.                 *)
LEMMA CountConcat ==
    ASSUME NEW S, NEW q \in Seq(S), NEW r \in Seq(S), NEW type
    PROVE  Count(q \o r, type) = Count(q, type) + Count(r, type)
<1> DEFINE both == q \o r
           k == Len(q)
           U == {i + k : i \in Places(r, type)}
<1>1. /\ both \in Seq(S) /\ k \in Nat /\ Len(r) \in Nat
      /\ DOMAIN both = 1..(k + Len(r)) /\ DOMAIN q = 1..k /\ DOMAIN r = 1..Len(r)
  BY ConcatProperties
<1>2. /\ \A i \in 1..k : both[i] = q[i]
      /\ \A i \in 1..Len(r) : both[i + k] = r[i]
  BY <1>1, ConcatProperties
<1> HIDE DEF both, k
<1>3. Places(both, type) = Places(q, type) \cup U
  <2>1. ASSUME NEW i \in Places(both, type) PROVE i \in Places(q, type) \cup U
    <3>1. CASE i <= k
      BY <1>1, <1>2, <3>1 DEF Places
    <3>2. CASE ~(i <= k)
      <4>1. i - k \in 1..Len(r) /\ (i - k) + k = i
        BY <1>1, <3>2 DEF Places
      <4>2. i - k \in Places(r, type)
        BY <1>1, <1>2, <4>1 DEF Places
      <4> QED
        BY <4>1, <4>2
    <3> QED
      BY <3>1, <3>2
  <2>2. ASSUME NEW i \in Places(q, type) PROVE i \in Places(both, type)
    BY <1>1, <1>2 DEF Places
  <2>3. ASSUME NEW i \in Places(r, type) PROVE i + k \in Places(both, type)
    BY <1>1, <1>2 DEF Places
  <2> QED
    BY <2>1, <2>2, <2>3
<1>4. Places(q, type) \cap U = {}
  BY <1>1 DEF Places
<1>5. /\ IsFiniteSet(Places(q, type)) /\ IsFiniteSet(Places(r, type))
      /\ Count(q, type) = Cardinality(Places(q, type))
      /\ Count(r, type) = Cardinality(Places(r, type))
      /\ Count(both, type) = Cardinality(Places(both, type))
      /\ Count(q, type) \in Nat /\ Count(r, type) \in Nat
  BY <1>1, CountType
<1>6. IsFiniteSet(U) /\ Cardinality(U) = Cardinality(Places(r, type))
  <2>1. Places(r, type) \in SUBSET Nat
    BY <1>1 DEF Places
  <2> QED
    BY <1>1, <1>5, <2>1, MovedSet
<1> HIDE DEF U
<1>7. Cardinality(Places(q, type) \cup U) = Cardinality(Places(q, type)) + Cardinality(U)
  <2> DEFINE P == Places(q, type)
  <2>1. Cardinality(P \cup U) = Cardinality(P) + Cardinality(U) - Cardinality(P \cap U)
    BY <1>5, <1>6, FS_Union
  <2>2. Cardinality(P \cap U) = 0
    BY <1>4, FS_EmptySet
  <2>3. Cardinality(P) \in Nat /\ Cardinality(U) \in Nat
    BY <1>5, <1>6
  <2> HIDE DEF P
  <2>4. Cardinality(P \cup U) = Cardinality(P) + Cardinality(U)
    BY <2>1, <2>2, <2>3
  <2> QED
    BY <2>4 DEF P
<1> QED
  BY <1>3, <1>5, <1>6, <1>7 DEF both

(* A queue without one of its elements.                                     *)
LEMMA RemoveAtParts ==
    ASSUME NEW S, NEW q \in Seq(S), NEW i \in DOMAIN q
    PROVE  \E a \in Seq(S), b \in Seq(S) :
              q = Append(a, q[i]) \o b /\ RemoveAt(q, i) = a \o b /\ q[i] \in S
<1> DEFINE a == SubSeq(q, 1, i - 1)
           b == SubSeq(q, i + 1, Len(q))
           joined == Append(a, q[i]) \o b
<1>1. i \in 1..Len(q) /\ Len(q) \in Nat /\ q[i] \in S
  OBVIOUS
<1>2. a \in Seq(S) /\ Len(a) = i - 1 /\ \A j \in 1..(i - 1) : a[j] = q[j]
  BY <1>1, SubSeqProperties
<1>3. /\ b \in Seq(S) /\ Len(b) = Len(q) - i
      /\ \A j \in 1..(Len(q) - i) : b[j] = q[i + j]
  BY <1>1, SubSeqProperties
<1> HIDE DEF a, b
<1>4. /\ Append(a, q[i]) \in Seq(S) /\ Len(Append(a, q[i])) = i
      /\ \A j \in 1..i : Append(a, q[i])[j] = q[j]
  BY <1>1, <1>2
<1>5. /\ joined \in Seq(S) /\ Len(joined) = Len(q)
      /\ \A j \in 1..Len(q) :
            joined[j] = IF j <= i THEN Append(a, q[i])[j] ELSE b[j - i]
  BY <1>1, <1>3, <1>4, ConcatProperties
<1> HIDE DEF joined
<1>6. ASSUME NEW j \in 1..Len(q) PROVE joined[j] = q[j]
  <2>1. CASE j <= i
    BY <1>1, <1>4, <1>5, <2>1
  <2>2. CASE ~(j <= i)
    <3>1. j - i \in 1..(Len(q) - i) /\ i + (j - i) = j
      BY <1>1, <2>2
    <3> QED
      BY <1>3, <1>5, <2>2, <3>1
  <2> QED
    BY <2>1, <2>2
<1>7. joined = q
  BY <1>5, <1>6
<1>8. RemoveAt(q, i) = a \o b
  BY DEF RemoveAt, a, b
<1> QED
  BY <1>1, <1>2, <1>3, <1>7, <1>8 DEF joined

(* A message that is taken from the middle of a queue, as the handlers do   *)
(* when more than one thread runs them, takes one from its type only.       *)
LEMMA RemoveAtProperties ==
    ASSUME NEW S, NEW q \in Seq(S), NEW i \in DOMAIN q, NEW type
    PROVE  /\ RemoveAt(q, i) \in Seq(S)
           /\ Count(q, type) = Count(RemoveAt(q, i), type) + (IF q[i].type = type THEN 1 ELSE 0)
<1>1. PICK a \in Seq(S), b \in Seq(S) :
         q = Append(a, q[i]) \o b /\ RemoveAt(q, i) = a \o b /\ q[i] \in S
  BY RemoveAtParts
<1>2. RemoveAt(q, i) \in Seq(S)
  BY <1>1
<1>3. Append(a, q[i]) \in Seq(S)
  BY <1>1
<1>4. /\ Count(Append(a, q[i]) \o b, type) = Count(Append(a, q[i]), type) + Count(b, type)
      /\ Count(a \o b, type) = Count(a, type) + Count(b, type)
  BY <1>3, CountConcat
<1>5. Count(Append(a, q[i]), type) = Count(a, type) + (IF q[i].type = type THEN 1 ELSE 0)
  BY <1>1, CountAppend
<1>6. Count(a, type) \in Nat /\ Count(b, type) \in Nat
  BY CountType
<1>7. Count(q, type) = Count(Append(a, q[i]) \o b, type)
  BY <1>1
<1>8. Count(RemoveAt(q, i), type) = Count(a \o b, type)
  BY <1>1
<1> QED
  BY <1>2, <1>4, <1>5, <1>6, <1>7, <1>8

(* Only keeps all elements of a type whose elements are kept.               *)
LEMMA CountOnly ==
    ASSUME NEW S, NEW seq \in Seq(S), NEW kept, NEW type,
           \A e \in S : e.type = type => e \in kept
    PROVE  Count(Only(seq, kept), type) = Count(seq, type)
<1> DEFINE n == Len(seq)
           Before(i) == {j \in 1..i : seq[j].type = type}
<1>1. PICK part \in [0..n -> Seq(S \cap kept)] :
         /\ part[0] = <<>>
         /\ \A i \in 1..n : part[i] = IF seq[i] \in kept THEN Append(part[i - 1], seq[i])
                                                         ELSE part[i - 1]
         /\ Only(seq, kept) = part[n]
  BY OnlyTakenApart
<1>2. n \in Nat /\ \A i \in 1..n : seq[i] \in S
  OBVIOUS
<1>3. DOMAIN seq = 1..n
  OBVIOUS
<1> HIDE DEF n
<1>4. ASSUME NEW i \in Nat PROVE IsFiniteSet(Before(i)) /\ Cardinality(Before(i)) \in Nat
  <2>1. IsFiniteSet(1..i)
    BY FS_Interval
  <2> QED
    BY <2>1, FS_Subset, FS_CardinalityType
<1> DEFINE P == {i \in Nat : i <= n => Count(part[i], type) = Cardinality(Before(i))}
<1>5. 0 \in P
  <2>1. Before(0) = {}
    OBVIOUS
  <2> QED
    BY <1>1, <2>1, CountEmpty, FS_EmptySet
<1>6. ASSUME NEW i \in P PROVE i + 1 \in P
  <2> SUFFICES ASSUME i + 1 <= n PROVE Count(part[i + 1], type) = Cardinality(Before(i + 1))
    OBVIOUS
  <2>1. i + 1 \in 1..n /\ (i + 1) - 1 = i /\ i \in 0..n /\ i \in Nat
    BY <1>2
  <2>2. Count(part[i], type) = Cardinality(Before(i))
    BY <2>1
  <2>3. part[i] \in Seq(S \cap kept)
    BY <1>1, <2>1
  <2>4. part[i + 1] = IF seq[i + 1] \in kept THEN Append(part[i], seq[i + 1]) ELSE part[i]
    BY <1>1, <2>1
  <2>5. Cardinality(Before(i + 1)) = Cardinality(Before(i)) +
                                        (IF seq[i + 1].type = type THEN 1 ELSE 0)
    <3>1. CASE seq[i + 1].type = type
      <4>1. Before(i + 1) = Before(i) \cup {i + 1} /\ i + 1 \notin Before(i)
        BY <2>1, <3>1
      <4> HIDE DEF Before
      <4> QED
        BY <2>1, <3>1, <4>1, <1>4, FS_AddElement
    <3>2. CASE seq[i + 1].type # type
      <4>1. Before(i + 1) = Before(i)
        BY <2>1, <3>2
      <4> HIDE DEF Before
      <4> QED
        BY <2>1, <3>2, <4>1, <1>4
    <3> QED
      BY <3>1, <3>2
  <2>6. seq[i + 1] \in S /\ (seq[i + 1] \notin kept => seq[i + 1].type # type)
    BY <1>2, <2>1
  <2> HIDE DEF Before
  <2>7. CASE seq[i + 1] \in kept
    <3>1. Count(Append(part[i], seq[i + 1]), type) =
             Count(part[i], type) + (IF seq[i + 1].type = type THEN 1 ELSE 0)
      BY <2>3, <2>6, <2>7, CountAppend
    <3> QED
      BY <2>2, <2>4, <2>5, <2>7, <3>1
  <2>8. CASE seq[i + 1] \notin kept
    <3>1. Cardinality(Before(i)) \in Nat
      BY <1>4, <2>1
    <3> QED
      BY <2>2, <2>4, <2>5, <2>6, <2>8, <3>1
  <2> QED
    BY <2>7, <2>8
<1>7. P = Nat
  <2> HIDE DEF P
  <2> QED
    BY <1>5, <1>6, InductiveSet DEF P
<1>8. Count(part[n], type) = Cardinality(Before(n))
  <2> HIDE DEF Before
  <2> QED
    BY <1>2, <1>7, SMTT(30)
<1>9. Count(seq, type) = Cardinality(Before(n))
  BY <1>3 DEF Count
<1> QED
  BY <1>1, <1>8, <1>9

(* Failed probes, and the end of a connection.                              *)
LEMMA CountFailed ==
    ASSUME NEW k \in Nat, NEW S, FailedProbe \in S
    PROVE  Failed(k) \in Seq(S) /\ Count(Failed(k), "failed") = k
<1>1. Failed(k) \in [1..k -> S]
  BY DEF Failed
<1>2. Failed(k) \in Seq(S)
  BY <1>1, SeqDef
<1>3. {i \in DOMAIN Failed(k) : Failed(k)[i].type = "failed"} = 1..k
  BY DEF Failed, FailedProbe
<1>4. Cardinality(1..k) = k
  BY FS_Interval
<1> QED
  BY <1>2, <1>3, <1>4 DEF Count

(* The end of a connection adds no probe.                                   *)
LEMMA CountEnded ==
    ASSUME NEW S, NEW q \in Seq(S), RemoveClient \in S
    PROVE  Ended(q) \in Seq(S) /\ Count(Ended(q), "failed") = Count(q, "failed")
<1>1. Append(q, RemoveClient) \in Seq(S)
  OBVIOUS
<1>2. RemoveClient.type # "failed"
  BY DEF RemoveClient
<1>3. Count(Append(q, RemoveClient), "failed") = Count(q, "failed")
  <2>1. Count(Append(q, RemoveClient), "failed") =
           Count(q, "failed") + (IF RemoveClient.type = "failed" THEN 1 ELSE 0)
    BY CountAppend
  <2>2. Count(q, "failed") \in Nat
    BY CountType
  <2> QED
    BY <1>2, <2>1, <2>2
<1> QED
  BY <1>1, <1>3 DEF Ended

(* The total of counts is the sum over the nodes.                           *)
LEMMA TotalIsSum ==
    ASSUME NEW counts
    PROVE  Total(counts) = SumOver(counts, Nodes)
BY DEF Total, SumOver

-----------------------------------------------------------------------------
(***************************************************************************)
(* Records and hierarchies that are not ahead of given versions, and in    *)
(* which superiors have smaller addresses.                                 *)
(***************************************************************************)

(* The records of nodes below their superiors whose versions are at most v. *)
Versions == [Nodes -> Nat]

RecordsUpTo(v) ==
    {a \in Records : /\ a.version <= v[a.address]
                     /\ a.superior \in Nodes => a.superior < a.address}

Tables(v) == UNION {[K -> RecordsUpTo(v)] : K \in SUBSET Nodes}

HierarchiesOf(n, v) ==
    {h \in [this : RecordsUpTo(v), nodes : Tables(v)] :
        /\ h.this.address = n
        /\ n \notin Known(h)
        /\ \A m \in Known(h) : h.nodes[m].address = m}

(* The fields of the record of a node (hierarchy_node.hh).                  *)
LEMMA RecordTyped ==
    ASSUME NEW a \in Records
    PROVE  /\ a = [address |-> a.address, superior |-> a.superior, version |-> a.version]
           /\ a.address \in Nodes /\ a.superior \in Nodes \cup {NoNode} /\ a.version \in Nat
BY DEF Records

(* A record made of its fields.                                             *)
LEMMA RecordMade ==
    ASSUME NEW v \in Versions, NEW m \in Nodes, NEW sup \in Nodes \cup {NoNode}, NEW k \in Nat,
           sup \in Nodes => sup < m, k <= v[m]
    PROVE  [address |-> m, superior |-> sup, version |-> k] \in RecordsUpTo(v)
BY DEF RecordsUpTo, Records

(* The nodes of a hierarchy are filed under some addresses.                 *)
LEMMA TableTyped ==
    ASSUME NEW v, NEW t \in Tables(v)
    PROVE  /\ DOMAIN t \in SUBSET Nodes
           /\ t = [m \in DOMAIN t |-> t[m]]
           /\ \A m \in DOMAIN t : t[m] \in RecordsUpTo(v)
<1>1. PICK K \in SUBSET Nodes : t \in [K -> RecordsUpTo(v)]
  BY DEF Tables
<1> QED
  BY <1>1

(* A function on any set of addresses to records is such a table.           *)
LEMMA TableMade ==
    ASSUME NEW v, NEW K \in SUBSET Nodes, NEW t \in [K -> RecordsUpTo(v)]
    PROVE  t \in Tables(v)
BY DEF Tables

(* The parts of a hierarchy of n: its own record, and those of others under *)
(* their addresses.                                                         *)
LEMMA HierarchyTyped ==
    ASSUME NEW n, NEW v, NEW h \in HierarchiesOf(n, v)
    PROVE  /\ h = [this |-> h.this, nodes |-> h.nodes]
           /\ h.this \in RecordsUpTo(v) /\ h.this.address = n
           /\ h.nodes \in Tables(v)
           /\ Known(h) = DOMAIN h.nodes /\ Known(h) \in SUBSET (Nodes \ {n})
           /\ \A m \in Known(h) : h.nodes[m] \in RecordsUpTo(v) /\ h.nodes[m].address = m
<1>1. h \in [this : RecordsUpTo(v), nodes : Tables(v)]
  BY DEF HierarchiesOf
<1>2. h = [this |-> h.this, nodes |-> h.nodes] /\ h.this \in RecordsUpTo(v) /\ h.nodes \in Tables(v)
  BY <1>1
<1>3. /\ h.this.address = n
      /\ n \notin Known(h)
      /\ \A m \in Known(h) : h.nodes[m].address = m
  BY DEF HierarchiesOf
<1> QED
  BY <1>2, <1>3, TableTyped DEF Known

(* A hierarchy made of its parts.                                           *)
LEMMA HierarchyMade ==
    ASSUME NEW n, NEW v, NEW a \in RecordsUpTo(v), a.address = n,
           NEW K \in SUBSET Nodes, n \notin K,
           NEW t \in [K -> RecordsUpTo(v)], \A m \in K : t[m].address = m
    PROVE  [this |-> a, nodes |-> t] \in HierarchiesOf(n, v)
<1> DEFINE h == [this |-> a, nodes |-> t]
<1>1. t \in Tables(v)
  BY TableMade
<1>2. h.this = a /\ h.nodes = t /\ h \in [this : RecordsUpTo(v), nodes : Tables(v)]
  BY <1>1
<1> HIDE DEF h
<1>3. h \in HierarchiesOf(n, v)
  BY <1>2 DEF HierarchiesOf, Known
<1> QED
  BY <1>3 DEF h

(* The versions may grow.                                                   *)
NotAbove(v, w) == \A m \in Nodes : v[m] <= w[m]

(* A record that is not ahead of some versions is not ahead of higher ones. *)
LEMMA RecordsGrow ==
    ASSUME NEW v \in Versions, NEW w \in Versions, NotAbove(v, w)
    PROVE  RecordsUpTo(v) \subseteq RecordsUpTo(w)
<1> SUFFICES ASSUME NEW a \in RecordsUpTo(v) PROVE a \in RecordsUpTo(w)
  OBVIOUS
<1>1. a \in Records /\ a.address \in Nodes /\ a.version \in Nat
  BY RecordTyped DEF RecordsUpTo
<1>2. a.version <= w[a.address]
  <2>1. a.version <= v[a.address] /\ v[a.address] <= w[a.address]
    BY <1>1 DEF RecordsUpTo, NotAbove
  <2>2. v[a.address] \in Nat /\ w[a.address] \in Nat
    BY <1>1 DEF Versions
  <2> QED
    BY <1>1, <2>1, <2>2
<1> QED
  BY <1>1, <1>2 DEF RecordsUpTo

(* The same for a hierarchy.                                                *)
LEMMA HierarchiesGrow ==
    ASSUME NEW v \in Versions, NEW w \in Versions, NotAbove(v, w), NEW n,
           NEW h \in HierarchiesOf(n, v)
    PROVE  h \in HierarchiesOf(n, w)
<1>1. RecordsUpTo(v) \subseteq RecordsUpTo(w)
  BY RecordsGrow
<1>2. /\ h = [this |-> h.this, nodes |-> h.nodes]
      /\ h.this \in RecordsUpTo(w) /\ h.this.address = n
      /\ Known(h) \in SUBSET Nodes /\ n \notin Known(h)
      /\ \A m \in Known(h) : h.nodes[m] \in RecordsUpTo(w) /\ h.nodes[m].address = m
  BY <1>1, HierarchyTyped
<1>3. h.nodes \in [Known(h) -> RecordsUpTo(w)]
  BY <1>2, HierarchyTyped, TableTyped DEF Known
<1>4. [this |-> h.this, nodes |-> h.nodes] \in HierarchiesOf(n, w)
  BY <1>2, <1>3, HierarchyMade
<1> QED
  BY <1>2, <1>4

(* Records are added.                                                       *)
LEMMA AddNodesKeeps ==
    ASSUME NEW v \in Versions, NEW n \in Nodes, NEW h \in HierarchiesOf(n, v),
           NEW records \in SUBSET RecordsUpTo(v)
    PROVE  LET r == AddNodes(h, records)
           IN  /\ r.h \in HierarchiesOf(n, v) /\ r.h.this = h.this /\ r.changed \in BOOLEAN
<1> DEFINE others == {a \in records : a.address # h.this.address}
           newer  == {a \in others : \/ a.address \notin Known(h)
                                     \/ h.nodes[a.address].version < a.version}
           taken  == [m \in {a.address : a \in newer} |-> CHOOSE a \in newer : a.address = m]
           t == Replaced(h.nodes, taken)
           K == {a.address : a \in newer} \cup Known(h)
           r == AddNodes(h, records)
<1>1. /\ h = [this |-> h.this, nodes |-> h.nodes]
      /\ h.this \in RecordsUpTo(v) /\ h.this.address = n
      /\ Known(h) = DOMAIN h.nodes /\ Known(h) \in SUBSET (Nodes \ {n})
      /\ \A m \in Known(h) : h.nodes[m] \in RecordsUpTo(v) /\ h.nodes[m].address = m
  BY HierarchyTyped
<1>2. newer \subseteq RecordsUpTo(v) /\ \A a \in newer : a.address \in Nodes \ {n}
  BY <1>1 DEF RecordsUpTo, Records
<1>3. r.h = [h EXCEPT !.nodes = t] /\ r.changed = (newer # {})
  BY DEF AddNodes
<1> HIDE DEF newer, r
<1>4. \A m \in DOMAIN taken : taken[m] \in newer /\ taken[m].address = m
  OBVIOUS
<1>5. DOMAIN t = K /\ \A m \in K : t[m] = IF m \in DOMAIN taken THEN taken[m] ELSE h.nodes[m]
  BY <1>1 DEF Replaced
<1>6. t = [m \in K |-> t[m]]
  BY <1>1 DEF Replaced
<1>7. DOMAIN taken \subseteq Nodes \ {n} /\ K \in SUBSET Nodes /\ n \notin K
  BY <1>1, <1>2
<1>8. \A m \in K : t[m] \in RecordsUpTo(v) /\ t[m].address = m
  BY <1>1, <1>2, <1>4, <1>5
<1> HIDE DEF t, K, taken
<1>9. t \in [K -> RecordsUpTo(v)]
  BY <1>6, <1>8
<1>10. r.h = [this |-> h.this, nodes |-> t]
  <2>1. [h EXCEPT !.nodes = t] = [this |-> h.this, nodes |-> t]
    BY <1>1
  <2> QED
    BY <1>3, <2>1
<1>11. r.h \in HierarchiesOf(n, v)
  BY <1>1, <1>7, <1>8, <1>9, <1>10, HierarchyMade
<1>12. r.h.this = h.this
  BY <1>10
<1> QED
  BY <1>3, <1>11, <1>12 DEF r

(* A superior with a smaller address is set (add_superior()): the version   *)
(* of the node grows when the superior changes, and then the hierarchy is   *)
(* said to be changed, so that it is written to the cache.                  *)
LEMMA AddSuperiorKeeps ==
    ASSUME NEW v \in Versions, NEW n \in Nodes, NEW h \in HierarchiesOf(n, v),
           h.this.version = v[n], NEW m \in Nodes, m < n
    PROVE  LET r == AddSuperior(h, m)
               w == [v EXCEPT ![n] = r.h.this.version]
           IN  /\ w \in Versions /\ NotAbove(v, w) /\ r.h \in HierarchiesOf(n, w)
               /\ r.changed \in BOOLEAN /\ (w # v => r.changed)
<1> DEFINE r == AddSuperior(h, m)
           w == [v EXCEPT ![n] = r.h.this.version]
<1>1. /\ h = [this |-> h.this, nodes |-> h.nodes]
      /\ h.this \in RecordsUpTo(v) /\ h.this.address = n
      /\ h.nodes \in Tables(v)
      /\ Known(h) = DOMAIN h.nodes /\ Known(h) \in SUBSET (Nodes \ {n})
      /\ \A k \in Known(h) : h.nodes[k] \in RecordsUpTo(v) /\ h.nodes[k].address = k
  BY HierarchyTyped
<1>2. v \in [Nodes -> Nat]
  BY DEF Versions
<1>3. CASE h.this.superior = m
  <2>1. r.h = h /\ r.changed = FALSE
    BY <1>3 DEF AddSuperior
  <2>2. w = v
    BY <1>2, <2>1
  <2>3. NotAbove(v, v)
    BY <1>2 DEF NotAbove
  <2> HIDE DEF r, w
  <2>4. w \in Versions /\ NotAbove(v, w) /\ r.h \in HierarchiesOf(n, w)
    BY <2>1, <2>2, <2>3
  <2> QED
    BY <2>1, <2>2, <2>4 DEF r, w
<1>4. CASE h.this.superior # m
  <2> DEFINE k == v[n] + 1
             a == [address |-> n, superior |-> m, version |-> k]
             u == [v EXCEPT ![n] = k]
  <2>1. /\ h.this = [address |-> n, superior |-> h.this.superior, version |-> v[n]]
        /\ k \in Nat
    BY <1>1, <1>2, RecordTyped DEF RecordsUpTo
  <2>2. /\ r.h = [h EXCEPT !.this = [address |-> @.address, superior |-> m,
                                      version |-> @.version + 1]]
        /\ r.changed = TRUE
    BY <1>4 DEF AddSuperior
  <2>3. [h EXCEPT !.this = [address |-> @.address, superior |-> m, version |-> @.version + 1]]
           = [this |-> a, nodes |-> h.nodes]
    <3>1. h.this.address = n /\ h.this.version = v[n]
      BY <2>1
    <3> QED
      BY <1>1, <3>1
  <2>4. r.h = [this |-> a, nodes |-> h.nodes]
    BY <2>2, <2>3
  <2> HIDE DEF r
  <2>5. r.h.this.version = k
    BY <2>4
  <2>6. w = u /\ u \in Versions /\ NotAbove(v, u) /\ u[n] = k
    BY <1>2, <2>1, <2>5 DEF Versions, NotAbove
  <2> HIDE DEF w, u, k
  <2>7. a \in RecordsUpTo(u) /\ a.address = n
    BY <2>1, <2>6, RecordMade
  <2>8. h.nodes \in [Known(h) -> RecordsUpTo(u)]
    <3>1. RecordsUpTo(v) \subseteq RecordsUpTo(u)
      BY <2>6, RecordsGrow
    <3> QED
      BY <1>1, <3>1, TableTyped
  <2> HIDE DEF a
  <2>9. [this |-> a, nodes |-> h.nodes] \in HierarchiesOf(n, u)
    BY <1>1, <2>7, <2>8, HierarchyMade
  <2>10. w \in Versions /\ NotAbove(v, w) /\ r.h \in HierarchiesOf(n, w)
    BY <2>4, <2>6, <2>9
  <2> QED
    BY <2>2, <2>10 DEF r, w
<1> QED
  BY <1>3, <1>4

(* A new node sets its resources, which gives its record a version.         *)
LEMMA SetResourcesKeeps ==
    ASSUME NEW v \in Versions, NEW n \in Nodes, NEW h \in HierarchiesOf(n, v),
           h.this.version = v[n]
    PROVE  LET x == SetResources(h)
               w == [v EXCEPT ![n] = x.this.version]
           IN  w \in Versions /\ NotAbove(v, w) /\ x \in HierarchiesOf(n, w)
<1> DEFINE x == SetResources(h)
           w == [v EXCEPT ![n] = x.this.version]
           k == v[n] + 1
           a == [address |-> n, superior |-> h.this.superior, version |-> k]
           u == [v EXCEPT ![n] = k]
<1>1. /\ h = [this |-> h.this, nodes |-> h.nodes]
      /\ h.this \in RecordsUpTo(v) /\ h.this.address = n
      /\ h.nodes \in Tables(v)
      /\ Known(h) = DOMAIN h.nodes /\ Known(h) \in SUBSET (Nodes \ {n})
      /\ \A j \in Known(h) : h.nodes[j] \in RecordsUpTo(v) /\ h.nodes[j].address = j
  BY HierarchyTyped
<1>2. v \in [Nodes -> Nat]
  BY DEF Versions
<1>3. /\ h.this = [address |-> n, superior |-> h.this.superior, version |-> v[n]]
      /\ h.this.superior \in Nodes \cup {NoNode}
      /\ h.this.superior \in Nodes => h.this.superior < n
      /\ k \in Nat
  BY <1>1, <1>2, RecordTyped DEF RecordsUpTo
<1>4. [h EXCEPT !.this.version = @ + 1] = [this |-> a, nodes |-> h.nodes]
  BY <1>1, <1>3
<1>5. x = [this |-> a, nodes |-> h.nodes]
  BY <1>4 DEF SetResources
<1> HIDE DEF x
<1>6. x.this.version = k
  BY <1>5
<1>7. w = u /\ u \in Versions /\ NotAbove(v, u) /\ u[n] = k
  BY <1>2, <1>3, <1>6 DEF Versions, NotAbove
<1> HIDE DEF w, u, k
<1>8. a \in RecordsUpTo(u) /\ a.address = n
  BY <1>3, <1>7, RecordMade
<1>9. h.nodes \in [Known(h) -> RecordsUpTo(u)]
  <2>1. RecordsUpTo(v) \subseteq RecordsUpTo(u)
    BY <1>7, RecordsGrow
  <2> QED
    BY <1>1, <2>1, TableTyped
<1> HIDE DEF a
<1>10. [this |-> a, nodes |-> h.nodes] \in HierarchiesOf(n, u)
  BY <1>1, <1>8, <1>9, HierarchyMade
<1> QED
  BY <1>5, <1>7, <1>10 DEF x, w

(* The record of another node gets another superior.                        *)
LEMMA SuperiorReplaced ==
    ASSUME NEW v \in Versions, NEW n \in Nodes, NEW h \in HierarchiesOf(n, v),
           NEW m \in Nodes, NEW sup \in Nodes \cup {NoNode}, sup \in Nodes => sup < m,
           NEW x, x = [h EXCEPT !.nodes[m].superior = sup]
    PROVE  x \in HierarchiesOf(n, v) /\ x.this = h.this
<1> DEFINE K == Known(h)
           t == [h.nodes EXCEPT ![m].superior = sup]
<1>1. /\ h = [this |-> h.this, nodes |-> h.nodes]
      /\ h.this \in RecordsUpTo(v) /\ h.this.address = n
      /\ K = DOMAIN h.nodes /\ K \in SUBSET (Nodes \ {n})
      /\ \A k \in K : h.nodes[k] \in RecordsUpTo(v) /\ h.nodes[k].address = k
  BY HierarchyTyped
<1>2. x = [this |-> h.this, nodes |-> t]
  BY <1>1
<1>3. DOMAIN t = K /\ t = [k \in K |-> t[k]]
  BY <1>1
<1>4. ASSUME NEW k \in K PROVE t[k] \in RecordsUpTo(v) /\ t[k].address = k
  <2>1. CASE k # m
    BY <1>1, <2>1
  <2>2. CASE k = m
    <3> DEFINE a == h.nodes[m]
    <3>1. /\ a = [address |-> m, superior |-> a.superior, version |-> a.version]
          /\ a.version \in Nat /\ a.version <= v[m]
      BY <1>1, <2>2, RecordTyped DEF RecordsUpTo
    <3>2. t[m] = [a EXCEPT !.superior = sup]
      BY <1>1, <2>2
    <3> HIDE DEF a, t
    <3>3. t[m] = [address |-> m, superior |-> sup, version |-> a.version]
      BY <3>1, <3>2
    <3>4. t[m] \in RecordsUpTo(v)
      BY <3>1, <3>3, RecordMade
    <3> QED
      BY <2>2, <3>3, <3>4
  <2> QED
    BY <2>1, <2>2
<1> HIDE DEF t
<1>5. t \in [K -> RecordsUpTo(v)]
  BY <1>3, <1>4
<1> HIDE DEF K
<1>6. K \in SUBSET Nodes /\ n \notin K /\ \A k \in K : t[k].address = k
  BY <1>1, <1>4
<1>7. [this |-> h.this, nodes |-> t] \in HierarchiesOf(n, v)
  BY <1>1, <1>5, <1>6, HierarchyMade
<1> QED
  BY <1>2, <1>7

(* A node with a greater address becomes a subordinate (add_subordinate()): *)
(* its record changes, and its version does not.                            *)
LEMMA AddSubordinateKeeps ==
    ASSUME NEW v \in Versions, NEW n \in Nodes, NEW h \in HierarchiesOf(n, v),
           NEW m \in Nodes, n < m
    PROVE  LET r == AddSubordinate(h, m)
           IN  /\ r.h \in HierarchiesOf(n, v) /\ r.h.this = h.this /\ r.changed \in BOOLEAN
<1>1. h.this.address = n
  BY HierarchyTyped
<1>2. CASE h.nodes[m].superior = n
  BY <1>1, <1>2 DEF AddSubordinate
<1>3. CASE h.nodes[m].superior # n
  <2> DEFINE x == [h EXCEPT !.nodes[m].superior = n]
  <2>1. x \in HierarchiesOf(n, v) /\ x.this = h.this
    BY SuperiorReplaced
  <2>2. AddSubordinate(h, m) = [h |-> x, changed |-> TRUE]
    BY <1>1, <1>3 DEF AddSubordinate
  <2> HIDE DEF x
  <2> QED
    BY <2>1, <2>2
<1> QED
  BY <1>2, <1>3

(* A node that has lost its superior.                                       *)
LEMMA OrphanKeeps ==
    ASSUME NEW v \in Versions, NEW n \in Nodes, NEW h \in HierarchiesOf(n, v),
           NEW x, x = [h EXCEPT !.this.superior = NoNode]
    PROVE  /\ x \in HierarchiesOf(n, v) /\ x.this.version = h.this.version
           /\ x.nodes = h.nodes /\ x.this.superior = NoNode
<1> DEFINE a == [address |-> n, superior |-> NoNode, version |-> h.this.version]
<1>1. /\ h = [this |-> h.this, nodes |-> h.nodes]
      /\ h.this \in RecordsUpTo(v) /\ h.this.address = n
      /\ h.nodes \in Tables(v)
      /\ Known(h) = DOMAIN h.nodes /\ Known(h) \in SUBSET (Nodes \ {n})
      /\ \A j \in Known(h) : h.nodes[j] \in RecordsUpTo(v) /\ h.nodes[j].address = j
  BY HierarchyTyped
<1>2. /\ h.this = [address |-> n, superior |-> h.this.superior, version |-> h.this.version]
      /\ h.this.version \in Nat /\ h.this.version <= v[n]
  BY <1>1, RecordTyped DEF RecordsUpTo
<1>3. [h EXCEPT !.this.superior = NoNode] = [this |-> a, nodes |-> h.nodes]
  BY <1>1, <1>2
<1>4. a \in RecordsUpTo(v)
  <2>1. NoNode \notin Nodes
    BY DiscoveryAssumption
  <2> QED
    BY <1>2, <2>1, RecordMade
<1>5. a.address = n
  OBVIOUS
<1>6. h.nodes \in [Known(h) -> RecordsUpTo(v)]
  BY <1>1, TableTyped
<1>7. x.this = a /\ x.nodes = h.nodes
  BY <1>3
<1>8. a.version = h.this.version /\ a.superior = NoNode
  OBVIOUS
<1> HIDE DEF a
<1>9. [this |-> a, nodes |-> h.nodes] \in HierarchiesOf(n, v)
  BY <1>1, <1>4, <1>5, <1>6, HierarchyMade
<1> QED
  BY <1>3, <1>7, <1>8, <1>9

(* A node is removed (remove_node()): it is no longer the superior, and the *)
(* version stays.                                                           *)
LEMMA RemoveNodeKeeps ==
    ASSUME NEW v \in Versions, NEW n \in Nodes, NEW h \in HierarchiesOf(n, v),
           NEW m \in Nodes
    PROVE  LET r == RemoveNode(h, m)
           IN  /\ r.h \in HierarchiesOf(n, v) /\ r.h.this.version = h.this.version
               /\ r.changed \in BOOLEAN /\ r.h.this.superior # m
<1> DEFINE orphan == IF h.this.superior = m THEN [h EXCEPT !.this.superior = NoNode] ELSE h
           isSubordinate == m \in Known(h) /\ h.nodes[m].superior = h.this.address
           x == [orphan EXCEPT !.nodes[m].superior = NoNode]
           r == RemoveNode(h, m)
<1>1. NoNode \notin Nodes
  BY DiscoveryAssumption
<1>2. /\ orphan \in HierarchiesOf(n, v) /\ orphan.this.version = h.this.version
      /\ orphan.this.superior # m
  BY <1>1, OrphanKeeps
<1>3. r = [h |-> IF isSubordinate THEN x ELSE orphan,
           changed |-> m \in Known(h) /\ (h.this.superior = m \/ isSubordinate)]
  BY DEF RemoveNode
<1> HIDE DEF orphan, isSubordinate
<1>4. x \in HierarchiesOf(n, v) /\ x.this = orphan.this
  BY <1>1, <1>2, SuperiorReplaced
<1> HIDE DEF x
<1>5. /\ r.h \in HierarchiesOf(n, v) /\ r.h.this.version = h.this.version
      /\ r.h.this.superior # m
  BY <1>2, <1>3, <1>4
<1>6. r.changed \in BOOLEAN
  BY <1>3
<1> QED
  BY <1>5, <1>6 DEF r

-----------------------------------------------------------------------------
(***************************************************************************)
(* Walks through a hierarchy.                                              *)
(***************************************************************************)

(* Layers that are made one from another by next.                           *)
Layered(l, x, n, next) == l[0] = x /\ \A i \in 1..n : l[i] = next[l[i - 1]]

(* A function can be applied n times.                                       *)
LEMMA LayersExist ==
    ASSUME NEW D, NEW x \in D, NEW n \in Nat, NEW next \in [D -> D]
    PROVE  \E l \in [0..n -> D] : Layered(l, x, n, next)
<1> DEFINE g == [e \in Nat \X D |-> next[e[2]]]
<1>1. StepIn(g, D)
  BY DEF StepIn
<1>2. PICK f \in [0..n -> D] : Follows(f, x, g, n)
  <2> HIDE DEF g
  <2> QED
    BY <1>1, RecursionOnInterval
<1>3. ASSUME NEW i \in 1..n PROVE f[i] = next[f[i - 1]]
  <2>1. i - 1 \in 0..n /\ i \in Nat
    OBVIOUS
  <2>2. f[i - 1] \in D
    BY <1>2, <2>1
  <2>3. f[i] = g[<<i, f[i - 1]>>]
    <3> HIDE DEF g
    <3> QED
      BY <1>2 DEF Follows
  <2> QED
    BY <2>1, <2>2, <2>3
<1> QED
  BY <1>2, <1>3 DEF Follows, Layered

(* What is made by applying a function n times is in the domain it maps to  *)
(* itself.                                                                  *)
LEMMA LayersStay ==
    ASSUME NEW D, NEW x \in D, NEW n \in Nat, NEW next \in [D -> D], NEW l,
           l[0] = x, \A i \in 1..n : l[i - 1] \in D => l[i] = next[l[i - 1]]
    PROVE  l[n] \in D
<1> DEFINE P == {i \in Nat : i <= n => l[i] \in D}
<1>1. 0 \in P
  OBVIOUS
<1>2. ASSUME NEW i \in P PROVE i + 1 \in P
  <2> SUFFICES ASSUME i + 1 <= n PROVE l[i + 1] \in D
    OBVIOUS
  <2>1. i + 1 \in 1..n /\ (i + 1) - 1 = i /\ l[i] \in D
    OBVIOUS
  <2>2. l[i + 1] = next[l[i]]
    BY <2>1
  <2> QED
    BY <2>1, <2>2
<1>3. P = Nat
  <2> HIDE DEF P
  <2> QED
    BY <1>1, <1>2, InductiveSet DEF P
<1> QED
  BY <1>3

(* The traversals of a hierarchy find records of it.                        *)
LEMMA BelowWithin ==
    ASSUME NEW R, NEW h, Range(h.nodes) \subseteq R, NEW from \in R, NEW depth \in Nat
    PROVE  Below(h, from, depth) \in SUBSET R
<1> DEFINE D == SUBSET R
           one(y) == y \cup {b \in Range(h.nodes) : \E a \in y : b.superior = a.address}
           next == [y \in D |-> one(y)]
           Is(l) == l = [i \in 0..depth |-> IF i = 0 THEN {from} ELSE one(l[i - 1])]
           layer == CHOOSE l : Is(l)
<1>1. {from} \in D /\ next \in [D -> D]
  OBVIOUS
<1>2. \A y \in D : next[y] = one(y)
  OBVIOUS
<1>3. Below(h, from, depth) = layer[depth]
  BY DEF Below
<1> HIDE DEF next, one, D
<1>4. PICK f \in [0..depth -> D] : Layered(f, {from}, depth, next)
  BY <1>1, LayersExist
<1>5. ASSUME NEW i \in 0..depth
      PROVE  f[i] = IF i = 0 THEN {from} ELSE one(f[i - 1])
  <2>1. CASE i = 0
    BY <1>4, <2>1 DEF Layered
  <2>2. CASE i # 0
    <3>1. i \in 1..depth /\ i - 1 \in 0..depth
      BY <2>2
    <3>2. f[i] = next[f[i - 1]] /\ f[i - 1] \in D
      BY <1>4, <3>1 DEF Layered
    <3> QED
      BY <1>2, <2>2, <3>2
  <2> QED
    BY <2>1, <2>2
<1>6. Is(f)
  BY <1>4, <1>5
<1>7. Is(layer)
  <2> HIDE DEF Is
  <2> QED
    BY <1>6
<1> HIDE DEF layer
<1>8. \A i \in 0..depth : layer[i] = IF i = 0 THEN {from} ELSE one(layer[i - 1])
  BY <1>7
<1>9. layer[0] = {from}
  BY <1>8
<1>10. ASSUME NEW i \in 1..depth, layer[i - 1] \in D PROVE layer[i] = next[layer[i - 1]]
  <2>1. i \in 0..depth /\ i # 0
    OBVIOUS
  <2>2. layer[i] = one(layer[i - 1])
    BY <1>8, <2>1
  <2> QED
    BY <1>2, <1>10, <2>2
<1>11. layer[depth] \in D
  <2> HIDE DEF Is
  <2> QED
    BY <1>1, <1>9, <1>10, LayersStay
<1> QED
  BY <1>3, <1>11 DEF D

(* A walk up the hierarchy of any depth finds records of it.                *)
LEMMA AboveWithin ==
    ASSUME NEW R, NEW h, Range(h.nodes) \subseteq R, NEW from \in R, NEW depth \in Nat
    PROVE  Above(h, from, depth) \in SUBSET R
<1> DEFINE D == SUBSET R
           one(y) == y \cup {b \in Range(h.nodes) : /\ \E a \in y : a.superior = b.address
                                                    /\ \A x \in y : x.address # b.address}
           next == [y \in D |-> one(y)]
           Is(l) == l = [i \in 0..depth |-> IF i = 0 THEN {from} ELSE one(l[i - 1])]
           layer == CHOOSE l : Is(l)
<1>1. {from} \in D /\ next \in [D -> D]
  OBVIOUS
<1>2. \A y \in D : next[y] = one(y)
  OBVIOUS
<1>3. Above(h, from, depth) = layer[depth]
  BY DEF Above
<1> HIDE DEF next, one, D
<1>4. PICK f \in [0..depth -> D] : Layered(f, {from}, depth, next)
  BY <1>1, LayersExist
<1>5. ASSUME NEW i \in 0..depth
      PROVE  f[i] = IF i = 0 THEN {from} ELSE one(f[i - 1])
  <2>1. CASE i = 0
    BY <1>4, <2>1 DEF Layered
  <2>2. CASE i # 0
    <3>1. i \in 1..depth /\ i - 1 \in 0..depth
      BY <2>2
    <3>2. f[i] = next[f[i - 1]] /\ f[i - 1] \in D
      BY <1>4, <3>1 DEF Layered
    <3> QED
      BY <1>2, <2>2, <3>2
  <2> QED
    BY <2>1, <2>2
<1>6. Is(f)
  BY <1>4, <1>5
<1>7. Is(layer)
  <2> HIDE DEF Is
  <2> QED
    BY <1>6
<1> HIDE DEF layer
<1>8. \A i \in 0..depth : layer[i] = IF i = 0 THEN {from} ELSE one(layer[i - 1])
  BY <1>7
<1>9. layer[0] = {from}
  BY <1>8
<1>10. ASSUME NEW i \in 1..depth, layer[i - 1] \in D PROVE layer[i] = next[layer[i - 1]]
  <2>1. i \in 0..depth /\ i # 0
    OBVIOUS
  <2>2. layer[i] = one(layer[i - 1])
    BY <1>8, <2>1
  <2> QED
    BY <1>2, <1>10, <2>2
<1>11. layer[depth] \in D
  <2> HIDE DEF Is
  <2> QED
    BY <1>1, <1>9, <1>10, LayersStay
<1> QED
  BY <1>3, <1>11 DEF D

(* The records that a node sends are those of its hierarchy (hierarchy.hh,  *)
(* traverse()), and as little ahead as they are.                            *)
LEMMA NodesWithinKnown ==
    ASSUME NEW n, NEW v, NEW h \in HierarchiesOf(n, v)
    PROVE  NodesWithin(h, MaxRadius) \in SUBSET RecordsUpTo(v)
<1>1. h.this \in RecordsUpTo(v) /\ \A m \in DOMAIN h.nodes : h.nodes[m] \in RecordsUpTo(v)
  BY HierarchyTyped
<1>2. Range(h.nodes) \subseteq RecordsUpTo(v)
  BY <1>1 DEF Range
<1>3. MaxRadius \in Nat
  BY DiscoveryAssumption
<1>4. /\ Below(h, h.this, MaxRadius) \in SUBSET RecordsUpTo(v)
      /\ Above(h, h.this, MaxRadius) \in SUBSET RecordsUpTo(v)
  BY <1>1, <1>2, <1>3, BelowWithin, AboveWithin
<1> QED
  BY <1>4 DEF NodesWithin

(* Where superiors have smaller addresses nobody is above itself.           *)
LEMMA NoCycle ==
    ASSUME NEW h, IsFiniteSet(Range(h.nodes)),
           \A a \in Range(h.nodes) \cup {h.this} :
              /\ a.address \in Nodes \cup {NoNode} /\ a.superior \in Nodes \cup {NoNode}
              /\ a.address \in Nodes /\ a.superior \in Nodes => a.superior < a.address
    PROVE  Acyclic(h)
<1> DEFINE all == Range(h.nodes) \cup {h.this}
           S == Nodes \cup {NoNode}
           D == {y \in SUBSET (S \X S) :
                   \A p \in y : p[1] \in Nodes /\ p[2] \in Nodes => p[2] < p[1]}
           edge == {<<a.address, a.superior>> : a \in all}
           one(y) == {p \in Nodes \X Nodes :
                        \/ p \in y
                        \/ \E z \in Nodes : <<p[1], z>> \in y /\ <<z, p[2]>> \in edge}
           next == [y \in D |-> one(y)]
           n == Cardinality(all)
           Is(l) == l = [i \in 0..n |-> IF i = 0 THEN edge ELSE one(l[i - 1])]
           step == CHOOSE l : Is(l)
<1>1. n \in Nat
  <2>1. IsFiniteSet(all)
    BY FS_AddElement
  <2> QED
    BY <2>1, FS_CardinalityType
<1>2. Acyclic(h) = (\A m \in Nodes : <<m, m>> \notin step[n])
  BY DEF Acyclic
<1>3. edge \in D
  OBVIOUS
<1>4. Nodes \subseteq Nat /\ \A a, b, c \in Nodes : a < b /\ b < c => a < c
  BY DiscoveryAssumption
<1> HIDE DEF edge
<1>5. ASSUME NEW y \in D PROVE one(y) \in D
  <2>1. ASSUME NEW p \in one(y) PROVE p \in S \X S /\ p[1] \in Nodes /\ p[2] \in Nodes /\ p[2] < p[1]
    <3>1. p \in Nodes \X Nodes /\ p[1] \in Nodes /\ p[2] \in Nodes /\ p \in S \X S
      OBVIOUS
    <3>2. CASE p \in y
      BY <3>1, <3>2
    <3>3. CASE p \notin y
      <4>1. PICK z \in Nodes : <<p[1], z>> \in y /\ <<z, p[2]>> \in edge
        BY <3>3
      <4>2. z < p[1]
        BY <3>1, <4>1
      <4>3. p[2] < z
        BY <1>3, <3>1, <4>1
      <4> QED
        BY <1>4, <3>1, <4>2, <4>3, Zenon
    <3> QED
      BY <3>2, <3>3
  <2> HIDE DEF one
  <2> QED
    BY <2>1
<1>6. next \in [D -> D] /\ \A y \in D : next[y] = one(y)
  <2> HIDE DEF one, D
  <2> QED
    BY <1>5
<1> HIDE DEF next, one, n, D
<1>7. PICK f \in [0..n -> D] : Layered(f, edge, n, next)
  BY <1>1, <1>3, <1>6, LayersExist
<1>8. ASSUME NEW i \in 0..n
      PROVE  f[i] = IF i = 0 THEN edge ELSE one(f[i - 1])
  <2>1. CASE i = 0
    BY <1>7, <2>1 DEF Layered
  <2>2. CASE i # 0
    <3>1. i \in 1..n /\ i - 1 \in 0..n
      BY <1>1, <2>2
    <3>2. f[i] = next[f[i - 1]] /\ f[i - 1] \in D
      BY <1>7, <3>1 DEF Layered
    <3> QED
      BY <1>6, <2>2, <3>2
  <2> QED
    BY <2>1, <2>2
<1>9. Is(f)
  BY <1>7, <1>8
<1>10. Is(step)
  <2> HIDE DEF Is
  <2> QED
    BY <1>9
<1> HIDE DEF step
<1>11. step[0] = edge
  BY <1>1, <1>10
<1>12. ASSUME NEW i \in 1..n, step[i - 1] \in D PROVE step[i] = next[step[i - 1]]
  <2>1. i \in 0..n /\ i # 0
    BY <1>1
  <2>2. step[i] = one(step[i - 1])
    BY <1>10, <2>1
  <2> QED
    BY <1>6, <1>12, <2>2
<1>13. step[n] \in D
  <2> HIDE DEF Is
  <2> QED
    BY <1>1, <1>3, <1>6, <1>11, <1>12, LayersStay
<1>14. ASSUME NEW m \in Nodes PROVE <<m, m>> \notin step[n]
  <2>1. ~(m < m)
    BY <1>4
  <2> QED
    BY <1>13, <2>1 DEF D
<1> QED
  BY <1>2, <1>14

-----------------------------------------------------------------------------
(***************************************************************************)
(* Messages, events and the network: no probe is lost and none is doubled  *)
(* when a connection ends, a client is refused or a handler stops one.     *)
(***************************************************************************)

(* The messages that n may get from m, when the versions are at most v, and *)
(* all it may have to handle of m.                                          *)
ProbesOf(n, m, v) ==
    {e \in [type : {"probe"}, old : Nodes \cup {NoNode}, new : Nodes,
            records : SUBSET RecordsUpTo(v)] :
        n < m /\ (e.old \in Nodes => e.old < m)}

RepliesOf(n, m, v) ==
    {e \in [type : {"reply"}, old : Nodes \cup {NoNode}, new : Nodes, front : Records,
            records : SUBSET RecordsUpTo(v)] :
        m < n /\ e.front.address = m /\ (e.old \in Nodes => e.old < n)}

MessagesOf(n, m, v) ==
    ProbesOf(n, m, v) \cup RepliesOf(n, m, v)
      \cup [type : {"hierarchy"}, records : SUBSET RecordsUpTo(v)]

EventsOf(n, m, v) == MessagesOf(n, m, v) \cup {RemoveClient, FailedProbe}

(* What an event may hold, by its type.                                     *)
LEMMA EventKinds ==
    ASSUME NEW n, NEW m, NEW v, NEW e \in EventsOf(n, m, v)
    PROVE  /\ e.type = "probe" => e \in ProbesOf(n, m, v)
           /\ e.type = "reply" => e \in RepliesOf(n, m, v)
           /\ e.type = "hierarchy" => e.records \in SUBSET RecordsUpTo(v)
           /\ e.type = "failed" => e = FailedProbe
           /\ e.type \in {"probe", "hierarchy", "reply"} => e.records \in SUBSET RecordsUpTo(v)
<1>1. e \in ProbesOf(n, m, v) => e.type = "probe" /\ e.records \in SUBSET RecordsUpTo(v)
  BY DEF ProbesOf
<1>2. e \in RepliesOf(n, m, v) => e.type = "reply" /\ e.records \in SUBSET RecordsUpTo(v)
  BY DEF RepliesOf
<1>3. e \in [type : {"hierarchy"}, records : SUBSET RecordsUpTo(v)] =>
         e.type = "hierarchy" /\ e.records \in SUBSET RecordsUpTo(v)
  OBVIOUS
<1>4. RemoveClient.type = "remove_client" /\ FailedProbe.type = "failed"
  BY DEF RemoveClient, FailedProbe
<1> QED
  BY <1>1, <1>2, <1>3, <1>4 DEF EventsOf, MessagesOf

(* A message is none of the events that come from the end of a connection.  *)
LEMMA MessageKinds ==
    ASSUME NEW n, NEW m, NEW v, NEW e \in MessagesOf(n, m, v)
    PROVE  e.type # "failed" /\ e.type # "remove_client"
<1>1. e \in ProbesOf(n, m, v) => e.type = "probe"
  BY DEF ProbesOf
<1>2. e \in RepliesOf(n, m, v) => e.type = "reply"
  BY DEF RepliesOf
<1>3. e \in [type : {"hierarchy"}, records : SUBSET RecordsUpTo(v)] => e.type = "hierarchy"
  OBVIOUS
<1> QED
  BY <1>1, <1>2, <1>3 DEF MessagesOf

(* What may be sent may be sent when the versions have grown.               *)
LEMMA EventsGrow ==
    ASSUME NEW v \in Versions, NEW w \in Versions, NotAbove(v, w), NEW n, NEW m
    PROVE  EventsOf(n, m, v) \subseteq EventsOf(n, m, w) /\ MessagesOf(n, m, v) \subseteq MessagesOf(n, m, w)
<1>1. RecordsUpTo(v) \subseteq RecordsUpTo(w)
  BY RecordsGrow
<1>2. ProbesOf(n, m, v) \subseteq ProbesOf(n, m, w)
  BY <1>1 DEF ProbesOf
<1>3. RepliesOf(n, m, v) \subseteq RepliesOf(n, m, w)
  BY <1>1 DEF RepliesOf
<1>4. [type : {"hierarchy"}, records : SUBSET RecordsUpTo(v)]
         \subseteq [type : {"hierarchy"}, records : SUBSET RecordsUpTo(w)]
  BY <1>1
<1> QED
  BY <1>2, <1>3, <1>4 DEF EventsOf, MessagesOf

(* No failed probe is among the messages.                                   *)
LEMMA CountMessages ==
    ASSUME NEW n, NEW m, NEW v, NEW q \in Seq(MessagesOf(n, m, v))
    PROVE  Count(q, "failed") = 0 /\ q \in Seq(EventsOf(n, m, v))
<1>1. \A i \in DOMAIN q : q[i] \in MessagesOf(n, m, v)
  OBVIOUS
<1>2. {i \in DOMAIN q : q[i].type = "failed"} = {}
  BY <1>1, MessageKinds
<1>3. Count(q, "failed") = 0
  BY <1>2, FS_EmptySet DEF Count
<1>4. \A i \in DOMAIN q : q[i] \in EventsOf(n, m, v)
  BY <1>1 DEF EventsOf
<1>5. q \in [1..Len(q) -> EventsOf(n, m, v)] /\ Len(q) \in Nat
  BY <1>4
<1> QED
  BY <1>3, <1>5, SeqDef

(* A network in which everything that is on its way may be there, and only  *)
(* what is up has connections, events and probes.                           *)
Queues(v) == UNION {Seq(EventsOf(p[1], p[2], v)) : p \in Nodes \X Nodes}

Networks(v) == [links : SUBSET SUBSET Nodes, events : [Nodes -> [Nodes -> Queues(v)]],
                asked : [Nodes -> [Nodes -> Nat]]]

QueuesOK(events, asked, v) ==
    \A x, y \in Nodes : events[x][y] \in Seq(EventsOf(x, y, v)) /\ asked[x][y] \in Nat

DownSilent(events, asked, up) ==
    \A x, y \in Nodes : x \notin up => events[x][y] = <<>> /\ asked[x][y] = 0

LinksOK(links, up) == \A l \in links : \E a, b \in up : a # b /\ l = {a, b}

NetworkOK(w, v, up) ==
    /\ w \in Networks(v)
    /\ QueuesOK(w.events, w.asked, v) /\ DownSilent(w.events, w.asked, up)
    /\ LinksOK(w.links, up)

IsTable(t) == t = [x \in Nodes |-> [y \in Nodes |-> t[x][y]]]

(* A network made of its parts.                                             *)
LEMMA NetworkMade ==
    ASSUME NEW v, NEW up \in SUBSET Nodes, NEW links, LinksOK(links, up),
           NEW events, IsTable(events), NEW asked, IsTable(asked),
           QueuesOK(events, asked, v), DownSilent(events, asked, up)
    PROVE  NetworkOK([links |-> links, events |-> events, asked |-> asked], v, up)
<1> DEFINE w == [links |-> links, events |-> events, asked |-> asked]
<1>1. w.links = links /\ w.events = events /\ w.asked = asked
  OBVIOUS
<1>2. links \in SUBSET SUBSET Nodes
  <2>1. ASSUME NEW l \in links PROVE l \in SUBSET Nodes
    <3>1. PICK a \in up, b \in up : l = {a, b}
      BY DEF LinksOK
    <3> QED
      BY <3>1
  <2> QED
    BY <2>1
<1>3. events \in [Nodes -> [Nodes -> Queues(v)]]
  <2>1. ASSUME NEW x \in Nodes, NEW y \in Nodes PROVE events[x][y] \in Queues(v)
    <3>1. <<x, y>> \in Nodes \X Nodes /\ <<x, y>>[1] = x /\ <<x, y>>[2] = y
      OBVIOUS
    <3>2. events[x][y] \in Seq(EventsOf(<<x, y>>[1], <<x, y>>[2], v))
      BY <3>1 DEF QueuesOK
    <3> QED
      BY <3>1, <3>2 DEF Queues
  <2> QED
    BY <2>1 DEF IsTable
<1>4. asked \in [Nodes -> [Nodes -> Nat]]
  BY DEF IsTable, QueuesOK
<1>5. w \in Networks(v)
  BY <1>2, <1>3, <1>4 DEF Networks
<1> HIDE DEF w
<1>6. NetworkOK(w, v, up)
  BY <1>1, <1>5 DEF NetworkOK
<1> QED
  BY <1>6 DEF w

(* The parts of a network.                                                  *)
LEMMA NetworkTyped ==
    ASSUME NEW v, NEW up, NEW w, NetworkOK(w, v, up)
    PROVE  /\ w = [links |-> w.links, events |-> w.events, asked |-> w.asked]
           /\ IsTable(w.events) /\ IsTable(w.asked)
           /\ QueuesOK(w.events, w.asked, v) /\ DownSilent(w.events, w.asked, up)
           /\ LinksOK(w.links, up)
<1>1. w \in Networks(v)
  BY DEF NetworkOK
<1>2. w = [links |-> w.links, events |-> w.events, asked |-> w.asked]
  BY <1>1 DEF Networks
<1>3. w.events \in [Nodes -> [Nodes -> Queues(v)]] /\ w.asked \in [Nodes -> [Nodes -> Nat]]
  BY <1>1 DEF Networks
<1>4. IsTable(w.events) /\ IsTable(w.asked)
  BY <1>3 DEF IsTable
<1> QED
  BY <1>2, <1>4 DEF NetworkOK

(* One end of a connection that ends: no probe is lost.                     *)
ReadBy(q, lost) == IF lost THEN Only(q, {RemoveClient, FailedProbe}) ELSE q

AnsweredBy(q, a, lost) == Min({a, Count(ReadBy(q, lost), "reply")})

EndedBy(q, a, lost) == Ended(ReadBy(q, lost) \o Failed(a - AnsweredBy(q, a, lost)))

(* A connection ends (socket_pipeline.cc, remove_client()): every probe     *)
(* that was kept has come back as an answer that had been read before, or   *)
(* comes back as failed.  None is lost and none is doubled.                 *)
LEMMA EndOfQueue ==
    ASSUME NEW x, NEW y, NEW v, NEW q \in Seq(EventsOf(x, y, v)), NEW a \in Nat, NEW lost
    PROVE  /\ EndedBy(q, a, lost) \in Seq(EventsOf(x, y, v)) /\ AnsweredBy(q, a, lost) \in Nat
           /\ AnsweredBy(q, a, lost) + Count(EndedBy(q, a, lost), "failed")
                = a + Count(q, "failed")
<1> DEFINE S == EventsOf(x, y, v)
           read == ReadBy(q, lost)
           answered == AnsweredBy(q, a, lost)
           joined == read \o Failed(a - answered)
<1>0. read = (IF lost THEN Only(q, {RemoveClient, FailedProbe}) ELSE q)
      /\ answered = Min({a, Count(read, "reply")}) /\ EndedBy(q, a, lost) = Ended(joined)
  BY DEF ReadBy, AnsweredBy, EndedBy
<1> HIDE DEF read, answered
<1>1. RemoveClient \in S /\ FailedProbe \in S
  BY DEF EventsOf
<1>2. \A e \in S : e.type = "failed" => e = FailedProbe
  BY EventKinds
<1> HIDE DEF S
<1>3. read \in Seq(S) /\ Count(read, "failed") = Count(q, "failed")
  <2> DEFINE kept == {RemoveClient, FailedProbe}
             part == Only(q, kept)
  <2>1. q \in Seq(S)
    BY DEF S
  <2>2. part \in Seq(S \cap kept)
    BY <2>1, OnlyInSet
  <2>3. \A e \in S : e.type = "failed" => e \in kept
    BY <1>2
  <2>4. Count(part, "failed") = Count(q, "failed")
    <3> HIDE DEF kept
    <3> QED
      BY <2>1, <2>3, CountOnly
  <2> HIDE DEF part, kept
  <2>5. part \in Seq(S)
    <3>1. \A i \in DOMAIN part : part[i] \in S
      BY <2>2
    <3>2. part \in [1..Len(part) -> S] /\ Len(part) \in Nat
      BY <2>2, <3>1
    <3> QED
      BY <3>2, SeqDef
  <2> QED
    BY <1>0, <2>1, <2>4, <2>5 DEF part, kept
<1>4. Count(read, "reply") \in Nat /\ Count(q, "failed") \in Nat /\ Count(read, "failed") \in Nat
  <2>1. q \in Seq(S)
    BY DEF S
  <2> QED
    BY <1>3, <2>1, CountType
<1>5. answered \in Nat /\ answered <= a
  <2> DEFINE T == {a, Count(read, "reply")}
  <2>1. T \in SUBSET Nat /\ T # {} /\ a \in T
    BY <1>4
  <2> HIDE DEF T
  <2>2. Min(T) \in T /\ Min(T) <= a
    BY <2>1, MinProperty
  <2>3. answered = Min(T)
    BY <1>0 DEF T
  <2> QED
    BY <2>1, <2>2, <2>3
<1>6. a - answered \in Nat
  BY <1>5
<1>7. Failed(a - answered) \in Seq(S) /\ Count(Failed(a - answered), "failed") = a - answered
  BY <1>1, <1>6, CountFailed
<1>8. joined \in Seq(S) /\ Count(joined, "failed") = Count(q, "failed") + (a - answered)
  BY <1>3, <1>7, CountConcat
<1> HIDE DEF joined
<1>9. Ended(joined) \in Seq(S) /\ Count(Ended(joined), "failed") = Count(joined, "failed")
  BY <1>1, <1>8, CountEnded
<1>10. answered + Count(Ended(joined), "failed") = a + Count(q, "failed")
  BY <1>4, <1>5, <1>8, <1>9
<1> QED
  BY <1>0, <1>5, <1>9, <1>10 DEF read, answered, S

(* Connections end.                                                         *)
(* The connections with the clients have ended, and nobody waits for more   *)
(* or less.                                                                 *)
Unlinked(w, u, n, clients) == u.links = w.links \ {{n, m} : m \in clients}

SameWaits(w, u) == \A x \in Nodes : Waited(u, x) = Waited(w, x)

(* The connections of n to some of its clients end: the nodes at both ends  *)
(* wait for as many probes as before.                                       *)
LEMMA EndLinksKeeps ==
    ASSUME NEW v, NEW up \in SUBSET Nodes, NEW w, NetworkOK(w, v, up), NEW n \in Nodes,
           NEW clients \in SUBSET Nodes, \A m \in clients : {n, m} \in w.links,
           NEW lost
    PROVE  LET u == EndLinks(w, n, clients, lost)
           IN  /\ NetworkOK(u, v, up) /\ SameWaits(w, u)
               /\ Unlinked(w, u, n, clients)
<1>2. /\ QueuesOK(w.events, w.asked, v) /\ DownSilent(w.events, w.asked, up)
      /\ LinksOK(w.links, up)
  BY NetworkTyped
<1> DEFINE ends(x, y) == \/ x = n /\ y \in clients
                         \/ y = n /\ x \in clients
           answered(x, y) == AnsweredBy(w.events[x][y], w.asked[x][y], lost)
           queue(x, y) == EndedBy(w.events[x][y], w.asked[x][y], lost)
           links == w.links \ {{n, m} : m \in clients}
           events == [x \in Nodes |-> [y \in Nodes |->
                         IF ends(x, y) THEN queue(x, y) ELSE w.events[x][y]]]
           asked == [x \in Nodes |-> [y \in Nodes |->
                         IF ends(x, y) THEN answered(x, y) ELSE w.asked[x][y]]]
           u == EndLinks(w, n, clients, lost)
<1>1. u = [links |-> links, events |-> events, asked |-> asked]
  BY DEF EndLinks, ReadBy, AnsweredBy, EndedBy
<1>3. ASSUME NEW x \in Nodes, NEW y \in Nodes
      PROVE  /\ queue(x, y) \in Seq(EventsOf(x, y, v)) /\ answered(x, y) \in Nat
             /\ answered(x, y) + Count(queue(x, y), "failed")
                  = w.asked[x][y] + Count(w.events[x][y], "failed")
  <2>1. w.events[x][y] \in Seq(EventsOf(x, y, v)) /\ w.asked[x][y] \in Nat
    BY <1>2 DEF QueuesOK
  <2> QED
    BY <2>1, EndOfQueue
<1>4. ASSUME NEW x \in Nodes, NEW y \in Nodes, ends(x, y) PROVE x \in up
  <2>1. PICK m \in clients : x = n \/ x = m
    BY <1>4
  <2>2. PICK a \in up, b \in up : {n, m} = {a, b}
    BY <1>2, <2>1 DEF LinksOK
  <2> QED
    BY <2>1, <2>2
<1>5. \A x, y \in Nodes : /\ events[x][y] = IF ends(x, y) THEN queue(x, y) ELSE w.events[x][y]
                          /\ asked[x][y] = IF ends(x, y) THEN answered(x, y) ELSE w.asked[x][y]
  OBVIOUS
<1> HIDE DEF queue, ends, answered
<1>6. IsTable(events) /\ IsTable(asked)
  BY DEF IsTable
<1> HIDE DEF events, asked
<1>7. QueuesOK(events, asked, v)
  <2>1. ASSUME NEW x \in Nodes, NEW y \in Nodes
        PROVE  events[x][y] \in Seq(EventsOf(x, y, v)) /\ asked[x][y] \in Nat
    <3>1. /\ queue(x, y) \in Seq(EventsOf(x, y, v)) /\ answered(x, y) \in Nat
          /\ w.events[x][y] \in Seq(EventsOf(x, y, v)) /\ w.asked[x][y] \in Nat
      BY <1>2, <1>3 DEF QueuesOK
    <3> QED
      BY <1>5, <3>1
  <2> QED
    BY <2>1 DEF QueuesOK
<1>8. DownSilent(events, asked, up)
  BY <1>2, <1>4, <1>5 DEF DownSilent
<1>9. LinksOK(links, up)
  BY <1>2 DEF LinksOK
<1> HIDE DEF links
<1>10. NetworkOK([links |-> links, events |-> events, asked |-> asked], v, up)
  BY <1>6, <1>7, <1>8, <1>9, NetworkMade
<1>11. NetworkOK(u, v, up) /\ u.events = events /\ u.asked = asked /\ u.links = links
  BY <1>1, <1>10
<1> HIDE DEF u
<1>12. ASSUME NEW x \in Nodes PROVE Waited(u, x) = Waited(w, x)
  <2>1. ASSUME NEW y \in Nodes
        PROVE  u.asked[x][y] + Count(u.events[x][y], "failed")
                 = w.asked[x][y] + Count(w.events[x][y], "failed")
    BY <1>3, <1>5, <1>11
  <2> QED
    BY <2>1 DEF Waited
<1> QED
  BY <1>11, <1>12 DEF u, links, SameWaits, Unlinked

(* What a handler of n may send.                                            *)
OutOK(out, n, v) ==
    /\ \A m \in Nodes : out[m] \in Seq(MessagesOf(m, n, v))
    /\ out[n] = <<>>

(* The queue that n has of a node that is not there.                        *)
RefusedBy(q, k) == Ended(q \o Failed(k))

(* A client that cannot be connected to gives back all it was sent.         *)
LEMMA RefusedQueue ==
    ASSUME NEW x, NEW y, NEW v, NEW q \in Seq(EventsOf(x, y, v)), NEW k, k \in Nat
    PROVE  /\ RefusedBy(q, k) \in Seq(EventsOf(x, y, v))
           /\ Count(RefusedBy(q, k), "failed") = Count(q, "failed") + k
<1> DEFINE S == EventsOf(x, y, v)
           joined == q \o Failed(k)
<1>1. RemoveClient \in S /\ FailedProbe \in S
  BY DEF EventsOf
<1>2. q \in Seq(S)
  OBVIOUS
<1> HIDE DEF S
<1>3. Failed(k) \in Seq(S) /\ Count(Failed(k), "failed") = k
  BY <1>1, CountFailed
<1>4. joined \in Seq(S) /\ Count(joined, "failed") = Count(q, "failed") + k
  BY <1>2, <1>3, CountConcat
<1> HIDE DEF joined
<1>5. Ended(joined) \in Seq(S) /\ Count(Ended(joined), "failed") = Count(joined, "failed")
  BY <1>1, <1>4, CountEnded
<1> QED
  BY <1>4, <1>5 DEF joined, S, RefusedBy

(* The queue that a node has of n after messages.                           *)
LEMMA LongerQueue ==
    ASSUME NEW x, NEW y, NEW v, NEW q \in Seq(EventsOf(x, y, v)),
           NEW r \in Seq(MessagesOf(x, y, v))
    PROVE  q \o r \in Seq(EventsOf(x, y, v)) /\ Count(q \o r, "failed") = Count(q, "failed")
<1>1. r \in Seq(EventsOf(x, y, v)) /\ Count(r, "failed") = 0
  BY CountMessages
<1>2. q \o r \in Seq(EventsOf(x, y, v))
  BY <1>1, ConcatProperties
<1>3. Count(q \o r, "failed") = Count(q, "failed") + Count(r, "failed")
  BY <1>1, CountConcat
<1>4. Count(q, "failed") \in Nat
  BY CountType
<1> QED
  BY <1>1, <1>2, <1>3, <1>4

(* The probes sent by n are the ones it waits for.                          *)
Asking(w, u, n, out) ==
    /\ \A x \in Nodes \ {n} : Waited(u, x) = Waited(w, x)
    /\ \A y \in Nodes : Waited(u, n)[y] = Waited(w, n)[y] + Count(out[y], "probe")

(* n sends its messages and connects to its clients: it waits for as many   *)
(* more probes as it has sent to them, and nobody else waits for more or    *)
(* less.                                                                    *)
LEMMA TransmitKeeps ==
    ASSUME NEW v, NEW n \in Nodes, NEW w, NetworkOK(w, v, Up \cup {n}),
           NEW out, OutOK(out, n, v), NEW connect \in SUBSET (Nodes \ {n})
    PROVE  LET u == Transmit(w, n, out, connect)
           IN  NetworkOK(u, v, Up \cup {n}) /\ Asking(w, u, n, out)
<1> DEFINE up      == Up \cup {n}
           dest    == {m \in Nodes : out[m] # <<>>} \cup connect
           reached == dest \cap up
           refused == dest \ reached
           links   == w.links \cup {{n, m} : m \in reached}
           events  == [x \in Nodes |-> [y \in Nodes |->
                         IF y = n /\ x \in reached THEN w.events[x][y] \o out[x]
                         ELSE IF x = n /\ y \in refused
                              THEN Ended(w.events[x][y] \o Failed(Count(out[y], "probe")))
                         ELSE w.events[x][y]]]
           asked   == [x \in Nodes |-> [y \in Nodes |->
                         IF x = n /\ y \in reached THEN w.asked[x][y] + Count(out[y], "probe")
                         ELSE w.asked[x][y]]]
           u       == Transmit(w, n, out, connect)
<1>1. u = [links |-> links, events |-> events, asked |-> asked]
  BY DEF Transmit
<1>2. /\ QueuesOK(w.events, w.asked, v) /\ DownSilent(w.events, w.asked, up)
      /\ LinksOK(w.links, up)
  BY NetworkTyped
<1>3. up \in SUBSET Nodes /\ n \in up
  BY DEF Up
<1>4. n \notin dest
  BY DEF OutOK
<1>5. /\ reached \subseteq up /\ reached \subseteq Nodes /\ n \notin reached /\ n \notin refused
      /\ \A y \in Nodes : y \notin reached /\ y \notin refused => out[y] = <<>>
  BY <1>3, <1>4
<1>6. ASSUME NEW y \in Nodes PROVE out[y] \in Seq(MessagesOf(y, n, v)) /\ Count(out[y], "probe") \in Nat
  BY CountType DEF OutOK
<1> HIDE DEF up, reached, refused, dest
<1>7. ASSUME NEW x \in Nodes, NEW y \in Nodes
      PROVE  /\ events[x][y] = IF y = n /\ x \in reached THEN w.events[x][y] \o out[x]
                               ELSE IF x = n /\ y \in refused
                                    THEN Ended(w.events[x][y] \o Failed(Count(out[y], "probe")))
                               ELSE w.events[x][y]
             /\ asked[x][y] = IF x = n /\ y \in reached
                              THEN w.asked[x][y] + Count(out[y], "probe") ELSE w.asked[x][y]
  OBVIOUS
<1>8. IsTable(events) /\ IsTable(asked)
  BY DEF IsTable
<1> HIDE DEF events, asked
<1>9. ASSUME NEW x \in Nodes, NEW y \in Nodes
      PROVE  /\ events[x][y] \in Seq(EventsOf(x, y, v)) /\ asked[x][y] \in Nat
             /\ asked[x][y] + Count(events[x][y], "failed")
                  = w.asked[x][y] + Count(w.events[x][y], "failed")
                      + (IF x = n THEN Count(out[y], "probe") ELSE 0)
  <2> DEFINE q == w.events[x][y]
             a == w.asked[x][y]
             k == Count(out[y], "probe")
  <2>1. q \in Seq(EventsOf(x, y, v)) /\ a \in Nat
    BY <1>2 DEF QueuesOK
  <2>2. Count(q, "failed") \in Nat /\ k \in Nat
    BY <1>6, <2>1, CountType
  <2>3. CASE y = n /\ x \in reached
    <3>1. events[x][y] = q \o out[x] /\ asked[x][y] = a /\ x # n
      BY <1>5, <1>7, <2>3
    <3>2. out[x] \in Seq(MessagesOf(x, y, v))
      BY <1>6, <2>3
    <3> HIDE DEF q, a, k
    <3>3. q \o out[x] \in Seq(EventsOf(x, y, v)) /\ Count(q \o out[x], "failed") = Count(q, "failed")
      BY <2>1, <3>2, LongerQueue
    <3>4. asked[x][y] + Count(events[x][y], "failed") = a + Count(q, "failed") + 0
      BY <2>1, <2>2, <3>1, <3>3
    <3> QED
      BY <2>1, <3>1, <3>3, <3>4 DEF q, a, k
  <2>4. CASE x = n /\ y \in refused /\ ~(y = n /\ x \in reached)
    <3>1. events[x][y] = RefusedBy(q, k) /\ asked[x][y] = a
      BY <1>7, <2>4 DEF refused, RefusedBy
    <3> HIDE DEF q, a, k
    <3>2. /\ RefusedBy(q, k) \in Seq(EventsOf(x, y, v))
          /\ Count(RefusedBy(q, k), "failed") = Count(q, "failed") + k
      <4>1. RefusedBy(q, k) \in Seq(EventsOf(x, y, v))
        BY <2>1, <2>2, RefusedQueue
      <4>2. Count(RefusedBy(q, k), "failed") = Count(q, "failed") + k
        BY <2>1, <2>2, RefusedQueue
      <4> QED
        BY <4>1, <4>2
    <3>3. asked[x][y] + Count(events[x][y], "failed") = a + Count(q, "failed") + k
      BY <2>1, <2>2, <3>1, <3>2
    <3> QED
      BY <2>1, <2>4, <3>1, <3>2, <3>3 DEF q, a, k
  <2>5. CASE ~(x = n /\ y \in refused) /\ ~(y = n /\ x \in reached)
    <3>1. events[x][y] = q
      BY <1>7, <2>5
    <3>2. asked[x][y] = IF x = n /\ y \in reached THEN a + k ELSE a
      BY <1>7
    <3>3. x = n /\ y \notin reached => k = 0
      BY <1>5, <2>5, CountEmpty
    <3> HIDE DEF q, a, k
    <3>4. asked[x][y] \in Nat /\ asked[x][y] = a + (IF x = n THEN k ELSE 0)
      BY <2>1, <2>2, <3>2, <3>3
    <3>5. asked[x][y] + Count(events[x][y], "failed")
             = a + Count(q, "failed") + (IF x = n THEN k ELSE 0)
      BY <2>1, <2>2, <3>1, <3>4
    <3> QED
      BY <2>1, <3>1, <3>4, <3>5 DEF q, a, k
  <2> QED
    BY <2>3, <2>4, <2>5
<1>10. QueuesOK(events, asked, v)
  BY <1>9 DEF QueuesOK
<1>11. DownSilent(events, asked, up)
  <2>1. ASSUME NEW x \in Nodes, NEW y \in Nodes, x \notin up
        PROVE  events[x][y] = <<>> /\ asked[x][y] = 0
    <3>1. x # n /\ x \notin reached
      BY <1>3, <1>5, <2>1
    <3>2. events[x][y] = w.events[x][y] /\ asked[x][y] = w.asked[x][y]
      BY <1>7, <3>1
    <3> QED
      BY <1>2, <2>1, <3>2 DEF DownSilent
  <2> QED
    BY <2>1 DEF DownSilent
<1>12. LinksOK(links, up)
  <2>1. \A m \in reached : m \in up /\ n \in up /\ n # m
    BY <1>3, <1>5
  <2> QED
    BY <1>2, <2>1 DEF LinksOK
<1> HIDE DEF links
<1>13. NetworkOK([links |-> links, events |-> events, asked |-> asked], v, up)
  BY <1>3, <1>8, <1>10, <1>11, <1>12, NetworkMade
<1>14. NetworkOK(u, v, up) /\ u.events = events /\ u.asked = asked
  BY <1>1, <1>13
<1> HIDE DEF u
<1>15. ASSUME NEW x \in Nodes \ {n} PROVE Waited(u, x) = Waited(w, x)
  <2>1. ASSUME NEW y \in Nodes
        PROVE  u.asked[x][y] + Count(u.events[x][y], "failed")
                 = w.asked[x][y] + Count(w.events[x][y], "failed")
    <3>1. w.asked[x][y] \in Nat /\ Count(w.events[x][y], "failed") \in Nat
      <4>1. w.events[x][y] \in Seq(EventsOf(x, y, v)) /\ w.asked[x][y] \in Nat
        BY <1>2 DEF QueuesOK
      <4> QED
        BY <4>1, CountType
    <3> QED
      BY <1>9, <1>14, <3>1
  <2> QED
    BY <2>1 DEF Waited
<1>16. ASSUME NEW y \in Nodes
       PROVE  Waited(u, n)[y] = Waited(w, n)[y] + Count(out[y], "probe")
  BY <1>9, <1>14 DEF Waited
<1> QED
  BY <1>14, <1>15, <1>16 DEF up, u, Asking

(* Probes to clients that are stopped fail.                                 *)
Failing(w, n, out, stopped) ==
    [w EXCEPT !.events = [x \in Nodes |-> [y \in Nodes |->
        IF x = n /\ y \in stopped
        THEN @[x][y] \o Failed(Count(out[y], "probe")) ELSE @[x][y]]]]

FailedOnly(w, u, n, out, stopped) ==
    /\ u.links = w.links
    /\ \A x \in Nodes \ {n} : Waited(u, x) = Waited(w, x)
    /\ \A y \in Nodes : Waited(u, n)[y] =
          Waited(w, n)[y] + (IF y \in stopped THEN Count(out[y], "probe") ELSE 0)

(* What n has sent to clients that it had stopped comes back as failed.     *)
LEMMA FailingKeeps ==
    ASSUME NEW v, NEW up \in SUBSET Nodes, NEW n \in up, NEW w, NetworkOK(w, v, up),
           NEW out, OutOK(out, n, v), NEW stopped \in SUBSET Nodes
    PROVE  /\ NetworkOK(Failing(w, n, out, stopped), v, up)
           /\ FailedOnly(w, Failing(w, n, out, stopped), n, out, stopped)
<1> DEFINE events == [x \in Nodes |-> [y \in Nodes |->
                        IF x = n /\ y \in stopped
                        THEN w.events[x][y] \o Failed(Count(out[y], "probe"))
                        ELSE w.events[x][y]]]
           u == Failing(w, n, out, stopped)
<1>1. /\ w = [links |-> w.links, events |-> w.events, asked |-> w.asked]
      /\ IsTable(w.asked)
      /\ QueuesOK(w.events, w.asked, v) /\ DownSilent(w.events, w.asked, up)
      /\ LinksOK(w.links, up)
  BY NetworkTyped
<1>2. u = [links |-> w.links, events |-> events, asked |-> w.asked]
  <2>1. u = [w EXCEPT !.events = events]
    BY DEF Failing
  <2> HIDE DEF u, events
  <2> QED
    BY <1>1, <2>1
<1> HIDE DEF u
<1>3. ASSUME NEW y \in Nodes PROVE Count(out[y], "probe") \in Nat
  BY CountType DEF OutOK
<1>4. \A x, y \in Nodes : events[x][y] = IF x = n /\ y \in stopped
                                        THEN w.events[x][y] \o Failed(Count(out[y], "probe"))
                                        ELSE w.events[x][y]
  OBVIOUS
<1>5. IsTable(events)
  BY DEF IsTable
<1> HIDE DEF events
<1>6. ASSUME NEW x \in Nodes, NEW y \in Nodes
      PROVE  /\ events[x][y] \in Seq(EventsOf(x, y, v))
             /\ Count(w.events[x][y], "failed") \in Nat /\ w.asked[x][y] \in Nat
             /\ Count(events[x][y], "failed") = Count(w.events[x][y], "failed")
                  + (IF x = n /\ y \in stopped THEN Count(out[y], "probe") ELSE 0)
  <2> DEFINE q == w.events[x][y]
             k == Count(out[y], "probe")
             S == EventsOf(x, y, v)
  <2>1. q \in Seq(S) /\ FailedProbe \in S /\ w.asked[x][y] \in Nat
    BY <1>1 DEF QueuesOK, EventsOf
  <2> HIDE DEF S
  <2>2. k \in Nat /\ Count(q, "failed") \in Nat
    BY <1>3, <2>1, CountType
  <2>3. Failed(k) \in Seq(S) /\ Count(Failed(k), "failed") = k
    BY <2>1, <2>2, CountFailed
  <2>4. q \o Failed(k) \in Seq(S)
    BY <2>1, <2>3, ConcatProperties
  <2>5. Count(q \o Failed(k), "failed") = Count(q, "failed") + k
    BY <2>1, <2>3, CountConcat
  <2>6. events[x][y] = IF x = n /\ y \in stopped THEN q \o Failed(k) ELSE q
    BY <1>4
  <2> HIDE DEF q, k
  <2>7. events[x][y] \in Seq(S)
    BY <2>1, <2>4, <2>6
  <2>8. Count(events[x][y], "failed") = Count(q, "failed")
                                          + (IF x = n /\ y \in stopped THEN k ELSE 0)
    BY <2>2, <2>5, <2>6
  <2> QED
    BY <2>1, <2>2, <2>7, <2>8 DEF q, k, S
<1>7. QueuesOK(events, w.asked, v)
  BY <1>6 DEF QueuesOK
<1>8. DownSilent(events, w.asked, up)
  BY <1>1, <1>4 DEF DownSilent
<1>9. NetworkOK([links |-> w.links, events |-> events, asked |-> w.asked], v, up)
  BY <1>1, <1>5, <1>7, <1>8, NetworkMade
<1>10. NetworkOK(u, v, up) /\ u.links = w.links /\ u.events = events /\ u.asked = w.asked
  BY <1>2, <1>9
<1>11. ASSUME NEW x \in Nodes \ {n} PROVE Waited(u, x) = Waited(w, x)
  <2>1. ASSUME NEW y \in Nodes
        PROVE  u.asked[x][y] + Count(u.events[x][y], "failed")
                 = w.asked[x][y] + Count(w.events[x][y], "failed")
    <3>1. Count(events[x][y], "failed") = Count(w.events[x][y], "failed") + 0
      BY <1>6
    <3> QED
      BY <1>6, <1>10, <3>1
  <2> QED
    BY <2>1 DEF Waited
<1>12. ASSUME NEW y \in Nodes
       PROVE  Waited(u, n)[y] = Waited(w, n)[y]
                                  + (IF y \in stopped THEN Count(out[y], "probe") ELSE 0)
  <2>1. /\ Waited(u, n)[y] = w.asked[n][y] + Count(events[n][y], "failed")
        /\ Waited(w, n)[y] = w.asked[n][y] + Count(w.events[n][y], "failed")
    BY <1>10 DEF Waited
  <2>2. /\ Count(events[n][y], "failed") = Count(w.events[n][y], "failed")
             + (IF y \in stopped THEN Count(out[y], "probe") ELSE 0)
        /\ Count(w.events[n][y], "failed") \in Nat /\ w.asked[n][y] \in Nat
    BY <1>6
  <2> QED
    BY <1>3, <2>1, <2>2
<1> QED
  BY <1>10, <1>11, <1>12 DEF FailedOnly, u

(* Whatever becomes of the messages of a handler.                           *)
LEMMA SentKeeps ==
    ASSUME NEW v, NEW n \in Nodes, NEW w, NetworkOK(w, v, Up \cup {n}),
           NEW s, OutOK(s.out, n, v), s.added \in SUBSET (Nodes \ {n}),
           s.stopped \in SUBSET Nodes, NEW u \in Sent(n, s, w)
    PROVE  NetworkOK(u, v, Up \cup {n}) /\ Asking(w, u, n, s.out)
<1> DEFINE up == Up \cup {n}
           stopped == {m \in s.stopped : Linked(w, n, m)}
           late == [m \in Nodes |-> IF m \in stopped THEN <<>> ELSE s.out[m]]
           failing == Failing(w, n, s.out, stopped)
<1>1. up \in SUBSET Nodes /\ n \in up
  BY DEF Up
<1>2. CASE stopped = {}
  <2>1. u = Transmit(w, n, s.out, s.added)
    BY <1>2 DEF Sent
  <2> QED
    BY <2>1, TransmitKeeps
<1>3. CASE stopped # {}
  <2>1. PICK lost : \/ u = Transmit(EndLinks(w, n, stopped, lost), n, s.out, s.added)
                    \/ u = Transmit(EndLinks(failing, n, stopped, lost), n, late, s.added)
    <3>1. u \in UNION {{Transmit(EndLinks(w, n, stopped, lost), n, s.out, s.added),
                        Transmit(EndLinks(failing, n, stopped, lost), n, late, s.added)} :
                          lost \in BOOLEAN}
      BY <1>3 DEF Sent, Failing
    <3> HIDE DEF stopped, late, failing
    <3> QED
      BY <3>1
  <2>2. stopped \in SUBSET Nodes /\ \A m \in stopped : {n, m} \in w.links
    BY DEF Linked
  <2> DEFINE ended == EndLinks(w, n, stopped, lost)
             mixed == EndLinks(failing, n, stopped, lost)
  <2>3. ASSUME u = Transmit(ended, n, s.out, s.added)
        PROVE  NetworkOK(u, v, up) /\ Asking(w, u, n, s.out)
    <3> HIDE DEF stopped, ended
    <3>1. NetworkOK(ended, v, up) /\ SameWaits(w, ended)
      BY <1>1, <2>2, EndLinksKeeps DEF ended
    <3>2. NetworkOK(u, v, up) /\ Asking(ended, u, n, s.out)
      BY <2>3, <3>1, TransmitKeeps
    <3> QED
      BY <3>1, <3>2 DEF Asking, SameWaits
  <2>4. ASSUME u = Transmit(mixed, n, late, s.added)
        PROVE  NetworkOK(u, v, up) /\ Asking(w, u, n, s.out)
    <3>1. OutOK(late, n, v)
      BY DEF OutOK
    <3>2. \A y \in Nodes : Count(late[y], "probe") =
                             IF y \in stopped THEN 0 ELSE Count(s.out[y], "probe")
      BY CountEmpty
    <3> HIDE DEF stopped, mixed, late
    <3>3. NetworkOK(failing, v, up) /\ FailedOnly(w, failing, n, s.out, stopped)
      BY <1>1, <2>2, FailingKeeps
    <3> HIDE DEF failing
    <3>4. NetworkOK(mixed, v, up) /\ SameWaits(failing, mixed)
      <4>1. \A m \in stopped : {n, m} \in failing.links
        BY <2>2, <3>3 DEF FailedOnly
      <4> QED
        BY <1>1, <2>2, <3>3, <4>1, EndLinksKeeps DEF mixed
    <3>5. NetworkOK(u, v, up) /\ Asking(mixed, u, n, late)
      BY <2>4, <3>1, <3>4, TransmitKeeps
    <3>6. \A x \in Nodes \ {n} : Waited(u, x) = Waited(w, x)
      BY <3>3, <3>4, <3>5 DEF Asking, SameWaits, FailedOnly
    <3>7. ASSUME NEW y \in Nodes
          PROVE  Waited(u, n)[y] = Waited(w, n)[y] + Count(s.out[y], "probe")
      <4>1. Waited(u, n)[y] = Waited(mixed, n)[y] + Count(late[y], "probe")
        BY <3>5 DEF Asking
      <4>2. Waited(mixed, n)[y] =
               Waited(w, n)[y] + (IF y \in stopped THEN Count(s.out[y], "probe") ELSE 0)
        BY <3>3, <3>4 DEF SameWaits, FailedOnly
      <4>3. Waited(w, n)[y] \in Nat /\ Count(s.out[y], "probe") \in Nat
        <5>1. w.events[n][y] \in Seq(EventsOf(n, y, v)) /\ w.asked[n][y] \in Nat
          <6>1. QueuesOK(w.events, w.asked, v)
            BY NetworkTyped
          <6> QED
            BY <6>1 DEF QueuesOK
        <5>2. Count(w.events[n][y], "failed") \in Nat
          BY <5>1, CountType
        <5>3. Count(s.out[y], "probe") \in Nat
          BY CountType DEF OutOK
        <5> QED
          BY <5>1, <5>2, <5>3 DEF Waited
      <4> QED
        BY <3>2, <4>1, <4>2, <4>3
    <3> QED
      BY <3>5, <3>6, <3>7 DEF Asking
  <2> HIDE DEF ended, mixed
  <2> QED
    BY <2>1, <2>3, <2>4 DEF ended, mixed
<1> QED
  BY <1>2, <1>3

-----------------------------------------------------------------------------
(***************************************************************************)
(* Totals of what a node waits for.                                        *)
(***************************************************************************)

(* Sums of sums.                                                            *)
LEMMA SumBoth ==
    ASSUME NEW S, IsFiniteSet(S), NEW v, \A x \in S : v[x] \in Nat,
           NEW w, \A x \in S : w[x] \in Nat,
           NEW u, \A x \in S : u[x] = v[x] + w[x]
    PROVE  SumOver(u, S) = SumOver(v, S) + SumOver(w, S)
<1> DEFINE P == {n \in Nat : \A s \in Small(S, n) :
                               SumOver(u, s) = SumOver(v, s) + SumOver(w, s)}
<1>1. 0 \in P
  <2>1. SumOver(u, {}) = 0 /\ SumOver(v, {}) = 0 /\ SumOver(w, {}) = 0 /\ Small(S, 0) = {{}}
    BY SmallZero, SumEmpty
  <2>2. ASSUME NEW s \in Small(S, 0) PROVE SumOver(u, s) = SumOver(v, s) + SumOver(w, s)
    <3>1. s = {}
      BY <2>1
    <3> QED
      BY <2>1, <3>1
  <2> QED
    BY <2>2
<1>2. ASSUME NEW n \in P PROVE n + 1 \in P
  <2>1. ASSUME NEW s \in Small(S, n + 1)
        PROVE  SumOver(u, s) = SumOver(v, s) + SumOver(w, s)
    <3>1. CASE s = {}
      BY <3>1, SumEmpty
    <3>2. CASE s # {}
      <4>1. PICK x \in s : TRUE
        BY <3>2
      <4>2. s \ {x} \in Small(S, n) /\ IsFiniteSet(s) /\ s \in SUBSET S
        BY <4>1, SmallRest DEF Small
      <4>3. SumOver(u, s \ {x}) = SumOver(v, s \ {x}) + SumOver(w, s \ {x})
        BY <4>2
      <4>4. \A y \in s : u[y] \in Nat /\ v[y] \in Nat /\ w[y] \in Nat
        BY <4>2
      <4>5. /\ SumOver(u, s) = SumOver(u, s \ {x}) + u[x]
            /\ SumOver(v, s) = SumOver(v, s \ {x}) + v[x]
            /\ SumOver(w, s) = SumOver(w, s \ {x}) + w[x]
        BY <4>2, <4>4, SumRemove
      <4>6. IsFiniteSet(s \ {x})
        BY <4>2, FS_RemoveElement
      <4>7. SumOver(v, s \ {x}) \in Nat /\ SumOver(w, s \ {x}) \in Nat
        BY <4>4, <4>6, SumType
      <4>8. u[x] = v[x] + w[x] /\ v[x] \in Nat /\ w[x] \in Nat
        BY <4>2, <4>4
      <4> QED
        BY <4>3, <4>5, <4>7, <4>8
    <3> QED
      BY <3>1, <3>2
  <2> QED
    BY <2>1
<1>3. P = Nat
  BY <1>1, <1>2, InductiveSet
<1> HIDE DEF P
<1>4. Cardinality(S) \in P /\ S \in Small(S, Cardinality(S))
  BY <1>3, SmallAll
<1> QED
  BY <1>4 DEF P

(* Totals of counts that are added are added.                               *)
LEMMA TotalBoth ==
    ASSUME NEW v, \A x \in Nodes : v[x] \in Nat, NEW w, \A x \in Nodes : w[x] \in Nat,
           NEW u, \A x \in Nodes : u[x] = v[x] + w[x]
    PROVE  Total(u) = Total(v) + Total(w)
BY TotalIsSum, SumBoth, DiscoveryAssumption

(* The total of numbers is a number.                                        *)
LEMMA TotalType ==
    ASSUME NEW v, \A x \in Nodes : v[x] \in Nat
    PROVE  Total(v) \in Nat
BY TotalIsSum, SumType, DiscoveryAssumption

(* The same counts have the same total.                                     *)
LEMMA TotalSame ==
    ASSUME NEW v, \A x \in Nodes : v[x] \in Nat, NEW w, \A x \in Nodes : v[x] = w[x]
    PROVE  Total(v) = Total(w)
BY TotalIsSum, SumSame, DiscoveryAssumption DEF Alike

(* The total after one count has grown by one.                              *)
LEMMA TotalMore ==
    ASSUME NEW v, \A x \in Nodes : v[x] \in Nat, NEW m \in Nodes,
           NEW w, \A x \in Nodes : w[x] = v[x] + (IF x = m THEN 1 ELSE 0)
    PROVE  Total(w) = Total(v) + 1
<1> DEFINE T == Nodes \ {m}
<1>1. \A x \in Nodes : w[x] \in Nat /\ (x # m => w[x] = v[x])
  OBVIOUS
<1>2. SumOver(w, Nodes) = SumOver(w, T) + w[m] /\ SumOver(v, Nodes) = SumOver(v, T) + v[m]
  <2>1. IsFiniteSet(Nodes)
    BY DiscoveryAssumption
  <2>2. SumOver(w, Nodes) = SumOver(w, Nodes \ {m}) + w[m]
    BY <1>1, <2>1, SumRemove
  <2>3. SumOver(v, Nodes) = SumOver(v, Nodes \ {m}) + v[m]
    BY <2>1, SumRemove
  <2> QED
    BY <2>2, <2>3
<1>3. IsFiniteSet(T) /\ \A x \in T : w[x] \in Nat /\ v[x] \in Nat /\ w[x] = v[x]
  BY <1>1, FS_RemoveElement, DiscoveryAssumption
<1> HIDE DEF T
<1>4. SumOver(w, T) = SumOver(v, T) /\ SumOver(v, T) \in Nat
  BY <1>3, SumSame, SumType DEF Alike
<1>5. w[m] = v[m] + 1 /\ v[m] \in Nat
  OBVIOUS
<1>6. SumOver(w, Nodes) = SumOver(v, Nodes) + 1
  BY <1>2, <1>4, <1>5
<1> QED
  BY <1>6, TotalIsSum

(* Nothing but zeros makes zero.                                            *)
LEMMA TotalZero ==
    ASSUME NEW v, \A x \in Nodes : v[x] = 0
    PROVE  Total(v) = 0
<1>1. \A x \in Nodes : v[x] \in Nat /\ v[x] = v[x] + v[x]
  OBVIOUS
<1>2. Total(v) = Total(v) + Total(v) /\ Total(v) \in Nat
  BY <1>1, TotalBoth, TotalType
<1> DEFINE k == Total(v)
<1> HIDE DEF k
<1>3. k = k + k /\ k \in Nat
  BY <1>2 DEF k
<1>4. k = 0
  BY <1>3
<1> QED
  BY <1>4 DEF k

-----------------------------------------------------------------------------
(***************************************************************************)
(* The parts of the handlers.  Each says how many things more a node has   *)
(* to wait for.                                                            *)
(***************************************************************************)

(* A discoverer in the middle of a handler, when the versions are at most v *)
(* and its own is the one there is of it.                                   *)
Outs(n, v) ==
    {out \in [Nodes -> UNION {Seq(MessagesOf(m, n, v)) : m \in Nodes}] : OutOK(out, n, v)}

States(n, v) ==
    [state : {"initial", "waiting"}, hier : HierarchiesOf(n, v),
     next : 1..Len(Probes[n]) + 1, attempts : 0..MaxAttempts - 1, timers : Nat,
     out : Outs(n, v), added : SUBSET (Nodes \ {n}), stopped : SUBSET Nodes,
     written : BOOLEAN]

Good(n, s, v) ==
    /\ s \in States(n, v)
    /\ s.timers > 0 => s.state = "waiting"
    /\ s.hier.this.version = v[n]

(* The probes that s has sent, and with its timers all that it waits for.   *)
Asked(s) == [y \in Nodes |-> Count(s.out[y], "probe")]

Pending(s) == s.timers + Total(Asked(s))

(* The fields of a discoverer in the middle of a handler.                   *)
LEMMA StateTyped ==
    ASSUME NEW n, NEW v, NEW s \in States(n, v)
    PROVE  /\ s.state \in {"initial", "waiting"} /\ s.hier \in HierarchiesOf(n, v)
           /\ s.next \in 1..Len(Probes[n]) + 1 /\ s.attempts \in 0..MaxAttempts - 1
           /\ s.timers \in Nat /\ s.out \in Outs(n, v) /\ s.added \in SUBSET (Nodes \ {n})
           /\ s.stopped \in SUBSET Nodes /\ s.written \in BOOLEAN
BY DEF States

(* Messages by their receivers.                                             *)
LEMMA OutMade ==
    ASSUME NEW n, NEW v, NEW out, out = [m \in Nodes |-> out[m]], OutOK(out, n, v)
    PROVE  out \in Outs(n, v)
<1>1. \A m \in Nodes : out[m] \in UNION {Seq(MessagesOf(k, n, v)) : k \in Nodes}
  BY DEF OutOK
<1>2. out \in [Nodes -> UNION {Seq(MessagesOf(m, n, v)) : m \in Nodes}]
  BY <1>1
<1> QED
  BY <1>2 DEF Outs

(* The same, read.                                                          *)
LEMMA OutTyped ==
    ASSUME NEW n, NEW v, NEW out \in Outs(n, v)
    PROVE  out = [m \in Nodes |-> out[m]] /\ OutOK(out, n, v)
BY DEF Outs

(* How many probes a handler has sent to each node.                         *)
LEMMA AskedType ==
    ASSUME NEW n, NEW v, NEW s, s.out \in Outs(n, v)
    PROVE  \A y \in Nodes : Asked(s)[y] = Count(s.out[y], "probe") /\ Asked(s)[y] \in Nat
<1>1. ASSUME NEW y \in Nodes PROVE Count(s.out[y], "probe") \in Nat
  <2>1. s.out[y] \in Seq(MessagesOf(y, n, v))
    BY OutTyped DEF OutOK
  <2> QED
    BY <2>1, CountType
<1> QED
  BY <1>1 DEF Asked

(* A handler starts.                                                        *)
LEMMA NobodyOut ==
    ASSUME NEW n \in Nodes, NEW v
    PROVE  Nobody \in Outs(n, v)
<1>1. Nobody = [m \in Nodes |-> Nobody[m]] /\ \A m \in Nodes : Nobody[m] = <<>>
  BY DEF Nobody
<1>2. \A m \in Nodes : <<>> \in Seq(MessagesOf(m, n, v))
  OBVIOUS
<1>3. OutOK(Nobody, n, v)
  BY <1>1, <1>2 DEF OutOK
<1> QED
  BY <1>1, <1>3, OutMade

(* A discoverer between two handlers.                                       *)
Discoverers(n, v) ==
    {d \in [state : {"initial", "waiting"}, hier : HierarchiesOf(n, v),
            next : 1..Len(Probes[n]) + 1, attempts : 0..MaxAttempts - 1,
            timers : 0..MaxTimers] :
        /\ d.timers > 0 => d.state = "waiting"
        /\ d.hier.this.version = v[n]}

(* A handler starts with a discoverer as it was left, and has sent nothing. *)
LEMMA EnteredGood ==
    ASSUME NEW n \in Nodes, NEW v, NEW d \in Discoverers(n, v)
    PROVE  /\ Good(n, Entered(d), v) /\ Pending(Entered(d)) = d.timers
           /\ Entered(d).hier = d.hier /\ ~Entered(d).written
<1> DEFINE s == Entered(d)
<1>1. /\ d.state \in {"initial", "waiting"} /\ d.hier \in HierarchiesOf(n, v)
      /\ d.next \in 1..Len(Probes[n]) + 1 /\ d.attempts \in 0..MaxAttempts - 1
      /\ d.timers \in 0..MaxTimers
      /\ d.timers > 0 => d.state = "waiting"
      /\ d.hier.this.version = v[n]
  BY DEF Discoverers
<1>2. d.timers \in Nat
  BY <1>1, DiscoveryAssumption
<1>3. s \in States(n, v)
  BY <1>1, <1>2, NobodyOut DEF States, Entered
<1>4. /\ s.timers = d.timers /\ s.state = d.state /\ s.hier = d.hier /\ s.out = Nobody
      /\ s.written = FALSE
  BY DEF Entered
<1> HIDE DEF s
<1>5. Good(n, s, v)
  BY <1>1, <1>3, <1>4 DEF Good
<1>6. Total(Asked(s)) = 0
  <2>1. ASSUME NEW y \in Nodes PROVE Asked(s)[y] = 0
    BY <1>4, CountEmpty DEF Asked, Nobody
  <2> QED
    BY <2>1, TotalZero
<1>7. Pending(s) = d.timers
  BY <1>2, <1>4, <1>6 DEF Pending
<1> QED
  BY <1>4, <1>5, <1>7 DEF s

(* Two states that have sent the same.                                      *)
LEMMA SamePending ==
    ASSUME NEW s, NEW t, s.out = t.out, s.timers = t.timers
    PROVE  Pending(s) = Pending(t)
BY DEF Pending, Asked

(* What a handler waits for when it ends is a number.                       *)
LEMMA PendingType ==
    ASSUME NEW n, NEW v, NEW s \in States(n, v)
    PROVE  Total(Asked(s)) \in Nat /\ Pending(s) \in Nat /\ Pending(s) = s.timers + Total(Asked(s))
BY StateTyped, AskedType, TotalType DEF Pending

(* discover_later() sets one timer.                                         *)
LEMMA DiscoverLaterGood ==
    ASSUME NEW n \in Nodes, NEW v, NEW s, Good(n, s, v)
    PROVE  LET u == DiscoverLater(s)
           IN  /\ Good(n, u, v) /\ Pending(u) = Pending(s) + 1 /\ u.written = s.written
<1> DEFINE u == DiscoverLater(s)
<1>1. s \in States(n, v) /\ s.hier.this.version = v[n]
  BY DEF Good
<1>2. u \in States(n, v)
  <2> DEFINE t == [s EXCEPT !.state = "waiting"]
  <2>1. t \in States(n, v)
    BY <1>1 DEF States
  <2>2. u = [t EXCEPT !.timers = s.timers + 1] /\ s.timers + 1 \in Nat
    BY <1>1, StateTyped DEF DiscoverLater
  <2> HIDE DEF t, u
  <2>3. [t EXCEPT !.timers = s.timers + 1] \in States(n, v)
    BY <2>1, <2>2 DEF States
  <2> QED
    BY <2>2, <2>3
<1>3. /\ u.state = "waiting" /\ u.timers = s.timers + 1 /\ u.out = s.out /\ u.hier = s.hier
      /\ u.written = s.written
  BY <1>1 DEF DiscoverLater, States
<1> HIDE DEF u
<1>4. Good(n, u, v)
  BY <1>1, <1>2, <1>3 DEF Good
<1>5. Pending(u) = Pending(s) + 1
  <2>1. Asked(u) = Asked(s)
    BY <1>3 DEF Asked
  <2>2. s.timers \in Nat /\ Total(Asked(s)) \in Nat
    BY <1>1, PendingType, StateTyped
  <2> QED
    BY <1>3, <2>1, <2>2 DEF Pending
<1> QED
  BY <1>3, <1>4, <1>5 DEF u

(* The iterator starts over.                                                *)
LEMMA RestartGood ==
    ASSUME NEW n \in Nodes, NEW v, NEW s, Good(n, s, v)
    PROVE  LET u == [s EXCEPT !.next = 1]
           IN  /\ Good(n, u, v) /\ Pending(u) = Pending(s) /\ u.written = s.written
<1> DEFINE u == [s EXCEPT !.next = 1]
<1>1. s \in States(n, v) /\ s.hier.this.version = v[n] /\ (s.timers > 0 => s.state = "waiting")
  BY DEF Good
<1>0. 1 \in 1..Len(Probes[n]) + 1
  <2>1. Len(Probes[n]) \in Nat
    BY ProbesBefore
  <2> QED
    BY <2>1
<1>2. u \in States(n, v)
  BY <1>0, <1>1 DEF States
<1>3. /\ u.state = s.state /\ u.timers = s.timers /\ u.out = s.out /\ u.hier = s.hier
      /\ u.written = s.written
  BY <1>1 DEF States
<1> HIDE DEF u
<1>4. Good(n, u, v)
  BY <1>1, <1>2, <1>3 DEF Good
<1> QED
  BY <1>3, <1>4, SamePending DEF u

(* A message is sent.                                                       *)
LEMMA SendToGood ==
    ASSUME NEW n \in Nodes, NEW v, NEW s, Good(n, s, v), NEW m \in Nodes \ {n},
           NEW msg \in MessagesOf(m, n, v)
    PROVE  LET u == SendTo(s, m, msg)
           IN  /\ Good(n, u, v) /\ u.hier = s.hier /\ u.written = s.written
               /\ Pending(u) = Pending(s) + (IF msg.type = "probe" THEN 1 ELSE 0)
<1> DEFINE u == SendTo(s, m, msg)
           out == [s.out EXCEPT ![m] = Append(@, msg)]
<1>1. s \in States(n, v) /\ s.hier.this.version = v[n] /\ (s.timers > 0 => s.state = "waiting")
  BY DEF Good
<1>2. s.out = [x \in Nodes |-> s.out[x]] /\ OutOK(s.out, n, v)
  BY <1>1, StateTyped, OutTyped
<1>3. out = [x \in Nodes |-> IF x = m THEN Append(s.out[m], msg) ELSE s.out[x]]
  BY <1>2
<1>4. u = [s EXCEPT !.out = out]
  BY DEF SendTo
<1> HIDE DEF out, u
<1>5. \A x \in Nodes : out[x] = IF x = m THEN Append(s.out[m], msg) ELSE s.out[x]
  BY <1>3
<1>6. out = [x \in Nodes |-> out[x]]
  BY <1>3
<1>7. s.out[m] \in Seq(MessagesOf(m, n, v))
  BY <1>2 DEF OutOK
<1>8. Append(s.out[m], msg) \in Seq(MessagesOf(m, n, v))
  BY <1>7, AppendProperties
<1>9. OutOK(out, n, v)
  BY <1>2, <1>5, <1>8 DEF OutOK
<1>10. out \in Outs(n, v)
  BY <1>6, <1>9, OutMade
<1>11. u \in States(n, v)
  BY <1>1, <1>4, <1>10 DEF States
<1>12. /\ u.out = out /\ u.timers = s.timers /\ u.state = s.state /\ u.hier = s.hier
       /\ u.written = s.written
  BY <1>1, <1>4 DEF States
<1>13. Good(n, u, v)
  BY <1>1, <1>11, <1>12 DEF Good
<1> DEFINE k == IF msg.type = "probe" THEN 1 ELSE 0
<1>14. ASSUME NEW y \in Nodes
       PROVE  Asked(u)[y] = Asked(s)[y] + (IF y = m THEN k ELSE 0) /\ Asked(s)[y] \in Nat
  <2>1. Asked(s)[y] = Count(s.out[y], "probe") /\ Asked(s)[y] \in Nat
    BY <1>1, StateTyped, AskedType
  <2>2. Asked(u)[y] = Count(out[y], "probe")
    BY <1>12 DEF Asked
  <2>3. Count(Append(s.out[m], msg), "probe") = Count(s.out[m], "probe") + k
    BY <1>7, CountAppend
  <2> HIDE DEF k
  <2> QED
    BY <1>5, <2>1, <2>2, <2>3
<1>15. Total(Asked(u)) = Total(Asked(s)) + k
  <2>1. CASE msg.type = "probe"
    BY <1>14, <2>1, TotalMore
  <2>2. CASE msg.type # "probe"
    <3>1. Total(Asked(s)) = Total(Asked(u))
      BY <1>14, <2>2, TotalSame
    <3>2. Total(Asked(s)) \in Nat
      BY <1>1, PendingType
    <3> QED
      BY <2>2, <3>1, <3>2
  <2> QED
    BY <2>1, <2>2
<1>16. s.timers \in Nat /\ Total(Asked(s)) \in Nat
  BY <1>1, PendingType, StateTyped
<1>17. Pending(u) = Pending(s) + k
  BY <1>12, <1>15, <1>16 DEF Pending
<1> QED
  BY <1>12, <1>13, <1>17 DEF u

(* A probe is due.                                                          *)
LEMMA ProbeMade ==
    ASSUME NEW n \in Nodes, NEW m \in Nodes, m < n, NEW v,
           NEW old \in Nodes \cup {NoNode}, old \in Nodes => old < n,
           NEW new \in Nodes, NEW records \in SUBSET RecordsUpTo(v)
    PROVE  ProbeMessage(old, new, records) \in MessagesOf(m, n, v)
BY DEF ProbeMessage, MessagesOf, ProbesOf

(* discover() sends one probe, or sets one timer when all addresses have    *)
(* been tried: either way there is one thing more to wait for.              *)
LEMMA DiscoverGood ==
    ASSUME NEW n \in Nodes, NEW v, NEW s, Good(n, s, v)
    PROVE  LET u == Discover(n, s)
           IN  Good(n, u, v) /\ Pending(u) = Pending(s) + 1 /\ u.written = s.written
<1>1. s \in States(n, v) /\ s.hier.this.version = v[n] /\ (s.timers > 0 => s.state = "waiting")
  BY DEF Good
<1>2. /\ s.hier \in HierarchiesOf(n, v) /\ s.next \in 1..Len(Probes[n]) + 1
      /\ s.attempts \in 0..MaxAttempts - 1
  BY <1>1, StateTyped
<1>3. CASE s.next > Len(Probes[n])
  <2> DEFINE t == [s EXCEPT !.next = 1]
  <2>1. Good(n, t, v) /\ Pending(t) = Pending(s) /\ t.written = s.written
    BY RestartGood
  <2> HIDE DEF t
  <2>2. /\ Good(n, DiscoverLater(t), v) /\ Pending(DiscoverLater(t)) = Pending(t) + 1
        /\ DiscoverLater(t).written = t.written
    BY <2>1, DiscoverLaterGood
  <2>3. Discover(n, s) = DiscoverLater(t)
    BY <1>3 DEF Discover, t
  <2> QED
    BY <2>1, <2>2, <2>3
<1>4. CASE ~(s.next > Len(Probes[n]))
  <2> DEFINE target == Probes[n][s.next]
             msg == ProbeMessage(s.hier.this.superior, target, {s.hier.this})
             sent == SendTo(s, target, msg)
             u == Discover(n, s)
  <2>1. Len(Probes[n]) \in Nat /\ s.next \in 1..Len(Probes[n])
    BY <1>2, <1>4, ProbesBefore
  <2>2. target \in Nodes /\ target < n
    <3>1. target \in {m \in Nodes : m < n}
      BY <2>1, ProbesBefore, ElementOfSeq
    <3> QED
      BY <3>1
  <2>3. target \in Nodes \ {n}
    BY <2>2, DiscoveryAssumption
  <2>4. /\ s.hier.this \in RecordsUpTo(v) /\ s.hier.this.superior \in Nodes \cup {NoNode}
        /\ s.hier.this.superior \in Nodes => s.hier.this.superior < n
    <3>1. s.hier.this \in RecordsUpTo(v) /\ s.hier.this.address = n
      BY <1>2, HierarchyTyped
    <3>2. /\ s.hier.this \in Records
          /\ s.hier.this.superior \in Nodes => s.hier.this.superior < s.hier.this.address
      BY <3>1 DEF RecordsUpTo
    <3>3. s.hier.this.superior \in Nodes \cup {NoNode}
      BY <3>2, RecordTyped
    <3> QED
      BY <3>1, <3>2, <3>3
  <2> HIDE DEF target
  <2>5. msg \in MessagesOf(target, n, v)
    BY <2>2, <2>4, ProbeMade
  <2>6. msg.type = "probe"
    BY DEF ProbeMessage
  <2>7. u = IF s.attempts + 1 >= MaxAttempts
            THEN [sent EXCEPT !.attempts = 0, !.next = @ + 1]
            ELSE [sent EXCEPT !.attempts = @ + 1]
    BY <1>4 DEF Discover, target
  <2> HIDE DEF msg
  <2>8. Good(n, sent, v) /\ Pending(sent) = Pending(s) + 1 /\ sent.written = s.written
    BY <2>3, <2>5, <2>6, SendToGood
  <2>9. sent.attempts = s.attempts /\ sent.next = s.next
    BY <1>1 DEF SendTo, States
  <2> HIDE DEF sent, u
  <2>10. /\ sent \in States(n, v) /\ sent.hier.this.version = v[n]
         /\ sent.timers > 0 => sent.state = "waiting"
    BY <2>8 DEF Good
  <2>11. ASSUME NEW t \in States(n, v), t.out = sent.out, t.timers = sent.timers,
                t.state = sent.state, t.hier = sent.hier, t.written = sent.written
         PROVE  Good(n, t, v) /\ Pending(t) = Pending(s) + 1 /\ t.written = s.written
    BY <2>8, <2>10, <2>11, SamePending DEF Good
  <2>12. MaxAttempts \in Nat \ {0} /\ s.attempts \in Nat
    BY <1>2, DiscoveryAssumption
  <2>13. CASE s.attempts + 1 >= MaxAttempts
    <3> DEFINE t == [sent EXCEPT !.attempts = 0]
    <3>1. 0 \in 0..MaxAttempts - 1 /\ s.next + 1 \in 1..Len(Probes[n]) + 1
      BY <2>1, <2>12
    <3>2. t \in States(n, v) /\ t.next = s.next
      BY <2>9, <2>10, <3>1 DEF States
    <3>3. u = [t EXCEPT !.next = s.next + 1]
      BY <2>7, <2>9, <2>13
    <3>4. /\ t.out = sent.out /\ t.timers = sent.timers /\ t.state = sent.state
          /\ t.hier = sent.hier /\ t.written = sent.written
      BY <2>10 DEF States
    <3> HIDE DEF t
    <3>5. u \in States(n, v)
      BY <3>1, <3>2, <3>3 DEF States
    <3>6. /\ u.out = t.out /\ u.timers = t.timers /\ u.state = t.state
          /\ u.hier = t.hier /\ u.written = t.written
      BY <3>2, <3>3 DEF States
    <3>7. Good(n, u, v) /\ Pending(u) = Pending(s) + 1 /\ u.written = s.written
      BY <2>11, <3>4, <3>5, <3>6
    <3> QED
      BY <3>7 DEF u
  <2>14. CASE ~(s.attempts + 1 >= MaxAttempts)
    <3>1. s.attempts + 1 \in 0..MaxAttempts - 1
      BY <2>12, <2>14
    <3>2. u = [sent EXCEPT !.attempts = s.attempts + 1]
      BY <2>7, <2>9, <2>14
    <3>3. u \in States(n, v)
      BY <2>10, <3>1, <3>2 DEF States
    <3>4. /\ u.out = sent.out /\ u.timers = sent.timers /\ u.state = sent.state
          /\ u.hier = sent.hier /\ u.written = sent.written
      BY <2>10, <3>2 DEF States
    <3>5. Good(n, u, v) /\ Pending(u) = Pending(s) + 1 /\ u.written = s.written
      BY <2>11, <3>3, <3>4
    <3> QED
      BY <3>5 DEF u
  <2> QED
    BY <2>13, <2>14
<1> QED
  BY <1>3, <1>4

(* Messages stay messages when the versions grow.                           *)
LEMMA OutsGrow ==
    ASSUME NEW v \in Versions, NEW w \in Versions, NotAbove(v, w), NEW n,
           NEW out \in Outs(n, v)
    PROVE  out \in Outs(n, w)
<1>1. out = [m \in Nodes |-> out[m]] /\ OutOK(out, n, v)
  BY OutTyped
<1>2. ASSUME NEW m \in Nodes PROVE out[m] \in Seq(MessagesOf(m, n, w))
  <2>1. MessagesOf(m, n, v) \subseteq MessagesOf(m, n, w)
    BY EventsGrow
  <2>2. out[m] \in Seq(MessagesOf(m, n, v))
    BY <1>1 DEF OutOK
  <2>3. \A i \in DOMAIN out[m] : out[m][i] \in MessagesOf(m, n, w)
    BY <2>1, <2>2
  <2>4. out[m] \in [1..Len(out[m]) -> MessagesOf(m, n, w)] /\ Len(out[m]) \in Nat
    BY <2>2, <2>3
  <2> QED
    BY <2>4, SeqDef
<1>3. OutOK(out, n, w)
  BY <1>1, <1>2 DEF OutOK
<1> QED
  BY <1>1, <1>3, OutMade

(* The other nodes hear of a change.                                        *)
Told(s, h, ignored) ==
    [m \in Nodes |-> IF m \in Known(h) \ {ignored}
                     THEN Append(s.out[m], HierarchyMessage(NodesWithin(h, MaxRadius)))
                     ELSE s.out[m]]

(* broadcast_hierarchy() sends no probe.                                    *)
LEMMA ToldGood ==
    ASSUME NEW v, NEW n \in Nodes, NEW s \in States(n, v), NEW h, h = s.hier, NEW ignored
    PROVE  /\ Told(s, h, ignored) \in Outs(n, v)
           /\ \A m \in Nodes : Count(Told(s, h, ignored)[m], "probe") = Count(s.out[m], "probe")
<1> DEFINE records == NodesWithin(h, MaxRadius)
           msg == HierarchyMessage(records)
           out == Told(s, h, ignored)
<1>1. h \in HierarchiesOf(n, v) /\ s.out \in Outs(n, v)
  BY StateTyped
<1>2. records \in SUBSET RecordsUpTo(v) /\ n \notin Known(h)
  BY <1>1, NodesWithinKnown, HierarchyTyped
<1> HIDE DEF records
<1>3. \A m \in Nodes : msg \in MessagesOf(m, n, v)
  BY <1>2 DEF HierarchyMessage, MessagesOf
<1>4. msg.type = "hierarchy"
  BY DEF HierarchyMessage
<1> HIDE DEF msg
<1>5. /\ out = [m \in Nodes |-> out[m]]
      /\ \A m \in Nodes : out[m] = IF m \in Known(h) \ {ignored} THEN Append(s.out[m], msg)
                                                                 ELSE s.out[m]
  BY DEF Told, msg, records
<1> HIDE DEF out
<1>6. ASSUME NEW m \in Nodes
      PROVE  /\ out[m] \in Seq(MessagesOf(m, n, v))
             /\ Count(out[m], "probe") = Count(s.out[m], "probe")
  <2>1. s.out[m] \in Seq(MessagesOf(m, n, v))
    BY <1>1, OutTyped DEF OutOK
  <2>2. Append(s.out[m], msg) \in Seq(MessagesOf(m, n, v))
    BY <1>3, <2>1, AppendProperties
  <2>3. Count(Append(s.out[m], msg), "probe") = Count(s.out[m], "probe") + 0
    BY <1>3, <1>4, <2>1, CountAppend
  <2>4. Count(s.out[m], "probe") \in Nat
    BY <2>1, CountType
  <2>5. Count(Append(s.out[m], msg), "probe") = Count(s.out[m], "probe")
    BY <2>3, <2>4
  <2>6. out[m] = Append(s.out[m], msg) \/ out[m] = s.out[m]
    BY <1>5
  <2> QED
    BY <2>1, <2>2, <2>5, <2>6
<1>7. OutOK(out, n, v)
  <2>1. out[n] = <<>>
    BY <1>1, <1>2, <1>5, OutTyped DEF OutOK
  <2> QED
    BY <1>6, <2>1 DEF OutOK
<1>8. out \in Outs(n, v)
  BY <1>5, <1>7, OutMade
<1> QED
  BY <1>6, <1>8 DEF out

(* The hierarchy of a discoverer is replaced, told to the others and        *)
(* written to the cache if it has changed: what it waits for stays.         *)
LEMMA UpdateGood ==
    ASSUME NEW v \in Versions, NEW w \in Versions, NotAbove(v, w), NEW n \in Nodes,
           NEW s, Good(n, s, v), NEW r, r.h \in HierarchiesOf(n, w),
           r.h.this.version = w[n], r.changed \in BOOLEAN, NEW ignored
    PROVE  LET u == Update(s, r, ignored)
           IN  /\ Good(n, u, w) /\ Pending(u) = Pending(s) /\ u.hier = r.h
               /\ r.changed => u.written
               /\ s.written => u.written
<1> DEFINE u == Update(s, r, ignored)
           t == [s EXCEPT !.hier = r.h]
           out == Told(t, t.hier, ignored)
           x == [t EXCEPT !.out = out]
<1>1. s \in States(n, v) /\ (s.timers > 0 => s.state = "waiting")
  BY DEF Good
<1>2. s.out \in Outs(n, w)
  BY <1>1, StateTyped, OutsGrow
<1>3. t \in States(n, w)
  BY <1>1, <1>2 DEF States
<1>4. /\ t.hier = r.h /\ t.out = s.out /\ t.timers = s.timers /\ t.state = s.state
      /\ t.written = s.written
  BY <1>1 DEF States
<1>5. u = IF r.changed THEN [t EXCEPT !.out = out, !.written = TRUE] ELSE t
  BY DEF Update, BroadcastHierarchy, Told
<1> HIDE DEF t, u
<1>6. CASE ~r.changed
  <2>1. u = t
    BY <1>5, <1>6
  <2>2. Good(n, t, w)
    BY <1>1, <1>3, <1>4 DEF Good
  <2>3. Pending(t) = Pending(s)
    BY <1>4, SamePending
  <2> QED
    BY <1>4, <1>6, <2>1, <2>2, <2>3 DEF u
<1>7. CASE r.changed
  <2>1. out \in Outs(n, w) /\ \A m \in Nodes : Count(out[m], "probe") = Count(t.out[m], "probe")
    BY <1>3, ToldGood
  <2> HIDE DEF out
  <2>2. x \in States(n, w)
    BY <1>3, <2>1 DEF States
  <2>3. /\ x.out = out /\ x.hier = t.hier /\ x.timers = t.timers /\ x.state = t.state
    BY <1>3 DEF States
  <2>4. u = [x EXCEPT !.written = TRUE]
    BY <1>5, <1>7
  <2> HIDE DEF x
  <2>5. u \in States(n, w)
    BY <2>2, <2>4 DEF States
  <2>6. /\ u.out = out /\ u.hier = r.h /\ u.timers = s.timers /\ u.state = s.state
        /\ u.written
    BY <1>4, <2>2, <2>3, <2>4 DEF States
  <2>7. Good(n, u, w)
    BY <1>1, <2>5, <2>6 DEF Good
  <2>8. \A m \in Nodes : Asked(s)[m] = Asked(u)[m] /\ Asked(s)[m] \in Nat
    <3>1. \A m \in Nodes : Asked(s)[m] = Count(s.out[m], "probe") /\ Asked(s)[m] \in Nat
      BY <1>1, StateTyped, AskedType
    <3>2. \A m \in Nodes : Asked(u)[m] = Count(out[m], "probe")
      BY <2>6 DEF Asked
    <3> QED
      BY <1>4, <2>1, <3>1, <3>2
  <2>9. Total(Asked(s)) = Total(Asked(u))
    BY <2>8, TotalSame
  <2>10. Pending(u) = Pending(s)
    BY <2>6, <2>9 DEF Pending
  <2> QED
    BY <2>6, <2>7, <2>10 DEF u
<1> QED
  BY <1>6, <1>7

-----------------------------------------------------------------------------
(***************************************************************************)
(* The inductive invariant, and the end of a handler.                      *)
(***************************************************************************)

(* What is on its way stays what it is when the versions grow.              *)
LEMMA NetworkGrows ==
    ASSUME NEW v \in Versions, NEW w \in Versions, NotAbove(v, w), NEW up \in SUBSET Nodes,
           NEW u, NetworkOK(u, v, up)
    PROVE  NetworkOK(u, w, up)
<1>1. /\ u = [links |-> u.links, events |-> u.events, asked |-> u.asked]
      /\ IsTable(u.events) /\ IsTable(u.asked)
      /\ QueuesOK(u.events, u.asked, v) /\ DownSilent(u.events, u.asked, up)
      /\ LinksOK(u.links, up)
  BY NetworkTyped
<1>2. ASSUME NEW x \in Nodes, NEW y \in Nodes
      PROVE  u.events[x][y] \in Seq(EventsOf(x, y, w))
  <2> DEFINE q == u.events[x][y]
  <2>1. q \in Seq(EventsOf(x, y, v))
    BY <1>1 DEF QueuesOK
  <2>2. EventsOf(x, y, v) \subseteq EventsOf(x, y, w)
    BY EventsGrow
  <2> HIDE DEF q
  <2>3. q \in [1..Len(q) -> EventsOf(x, y, w)] /\ Len(q) \in Nat
    BY <2>1, <2>2
  <2>4. q \in Seq(EventsOf(x, y, w))
    BY <2>3, SeqDef
  <2> QED
    BY <2>4 DEF q
<1>3. QueuesOK(u.events, u.asked, w)
  BY <1>1, <1>2 DEF QueuesOK
<1>4. NetworkOK([links |-> u.links, events |-> u.events, asked |-> u.asked], w, up)
  BY <1>1, <1>3, NetworkMade
<1> QED
  BY <1>1, <1>4

(* The invariant.  The version of a node is that in its cache.              *)
OwnVersions == [n \in Nodes |-> cache[n].this.version]

Down(n) == [Discoverer(NewHierarchy(n)) EXCEPT !.state = "down"]

NodesOK ==
    /\ node = [n \in Nodes |-> node[n]]
    /\ \A n \in Nodes : node[n] \in Discoverers(n, OwnVersions) \cup {Down(n)}

CachesOK ==
    /\ cache = [n \in Nodes |-> cache[n]]
    /\ \A n \in Nodes : cache[n] \in HierarchiesOf(n, OwnVersions)

Inv ==
    /\ NodesOK /\ CachesOK /\ NetworkOK(net, OwnVersions, Up)
    /\ started \subseteq Nodes /\ crashes \in 0..MaxCrashes

(* The versions of the nodes are numbers.                                   *)
LEMMA VersionsTyped ==
    ASSUME CachesOK
    PROVE  OwnVersions \in Versions /\ \A n \in Nodes : OwnVersions[n] = cache[n].this.version
<1>1. ASSUME NEW n \in Nodes PROVE cache[n].this.version \in Nat
  <2>1. cache[n] \in HierarchiesOf(n, OwnVersions)
    BY DEF CachesOK
  <2>2. cache[n].this \in RecordsUpTo(OwnVersions)
    BY <2>1, HierarchyTyped
  <2>3. cache[n].this \in Records
    BY <2>2 DEF RecordsUpTo
  <2> QED
    BY <2>3, RecordTyped
<1> QED
  BY <1>1 DEF OwnVersions, Versions

(* A node that is down has a new discoverer, which waits for nothing.       *)
LEMMA DownTyped ==
    ASSUME NEW n \in Nodes
    PROVE  /\ Down(n).state = "down" /\ Down(n).hier = NewHierarchy(n) /\ Down(n).next = 1
           /\ Down(n).attempts = 0 /\ Down(n).timers = 0
BY DEF Down, Discoverer

(* A node is up or down, and what it is then.                               *)
LEMMA UpTyped ==
    ASSUME NodesOK
    PROVE  /\ Up \in SUBSET Nodes
           /\ \A n \in Nodes : n \in Up <=> node[n].state # "down"
           /\ \A n \in Up : node[n] \in Discoverers(n, OwnVersions)
           /\ \A n \in Nodes \ Up : node[n] = Down(n)
<1>1. ASSUME NEW n \in Nodes, node[n] \in Discoverers(n, OwnVersions)
      PROVE  node[n].state # "down"
  BY <1>1 DEF Discoverers
<1>2. \A n \in Nodes : Down(n).state = "down"
  BY DownTyped
<1>3. Up \in SUBSET Nodes /\ \A n \in Nodes : n \in Up <=> node[n].state # "down"
  BY DEF Up
<1> QED
  BY <1>1, <1>2, <1>3 DEF NodesOK

(* A new hierarchy is one, with any versions.                               *)
LEMMA NewHierarchyKnown ==
    ASSUME NEW v \in Versions, NEW n \in Nodes
    PROVE  NewHierarchy(n) \in HierarchiesOf(n, v)
<1> DEFINE a == [address |-> n, superior |-> NoNode, version |-> 0]
           t == [m \in {} |-> NoNode]
<1>1. a \in RecordsUpTo(v)
  <2>1. NoNode \notin Nodes
    BY DiscoveryAssumption
  <2>2. 0 \in Nat /\ 0 <= v[n]
    BY DEF Versions
  <2> QED
    BY <2>1, <2>2, RecordMade
<1>2. a.address = n
  OBVIOUS
<1>3. t \in [{} -> RecordsUpTo(v)] /\ {} \in SUBSET Nodes
  OBVIOUS
<1> HIDE DEF a, t
<1>4. [this |-> a, nodes |-> t] \in HierarchiesOf(n, v)
  BY <1>1, <1>2, <1>3, HierarchyMade
<1> QED
  BY <1>4 DEF NewHierarchy, a, t

(* What a handler of n leads to, when its version becomes w[n].             *)
Outcome(n, s, w) ==
    /\ w \in Versions /\ NotAbove(OwnVersions, w)
    /\ \A m \in Nodes \ {n} : w[m] = OwnVersions[m]
    /\ Good(n, s, w)
    /\ s.written \/ w = OwnVersions

(* A handler leaves a discoverer behind.                                    *)
LEMMA LeftGood ==
    ASSUME NEW n \in Nodes, NEW v, NEW s, Good(n, s, v), s.timers <= MaxTimers
    PROVE  Left(s) \in Discoverers(n, v) /\ Left(s).timers = s.timers
<1>1. /\ s \in States(n, v) /\ s.hier.this.version = v[n]
      /\ s.timers > 0 => s.state = "waiting"
  BY DEF Good
<1>2. /\ s.state \in {"initial", "waiting"} /\ s.hier \in HierarchiesOf(n, v)
      /\ s.next \in 1..Len(Probes[n]) + 1 /\ s.attempts \in 0..MaxAttempts - 1
      /\ s.timers \in Nat
  BY <1>1, StateTyped
<1>3. s.timers \in 0..MaxTimers
  BY <1>2, DiscoveryAssumption
<1> DEFINE d == Left(s)
<1>4. d \in [state : {"initial", "waiting"}, hier : HierarchiesOf(n, v),
             next : 1..Len(Probes[n]) + 1, attempts : 0..MaxAttempts - 1,
             timers : 0..MaxTimers]
  BY <1>2, <1>3 DEF Left
<1>5. d.timers = s.timers /\ d.state = s.state /\ d.hier = s.hier
  BY DEF Left
<1> HIDE DEF d
<1>6. d \in Discoverers(n, v)
  BY <1>1, <1>4, <1>5 DEF Discoverers
<1> QED
  BY <1>5, <1>6 DEF d

(* A discoverer is one when the versions of others grow.                    *)
LEMMA DiscoverersGrow ==
    ASSUME NEW v \in Versions, NEW w \in Versions, NotAbove(v, w), NEW n, v[n] = w[n],
           NEW d \in Discoverers(n, v)
    PROVE  d \in Discoverers(n, w)
<1>1. /\ d \in [state : {"initial", "waiting"}, hier : HierarchiesOf(n, v),
                next : 1..Len(Probes[n]) + 1, attempts : 0..MaxAttempts - 1,
                timers : 0..MaxTimers]
      /\ d.timers > 0 => d.state = "waiting"
      /\ d.hier.this.version = w[n]
  BY DEF Discoverers
<1>2. \A h \in HierarchiesOf(n, v) : h \in HierarchiesOf(n, w)
  BY HierarchiesGrow
<1>3. d \in [state : {"initial", "waiting"}, hier : HierarchiesOf(n, w),
             next : 1..Len(Probes[n]) + 1, attempts : 0..MaxAttempts - 1,
             timers : 0..MaxTimers]
  BY <1>1, <1>2
<1> QED
  BY <1>1, <1>3 DEF Discoverers

(* The end of a handler.                                                    *)
LEMMA CommitKeeps ==
    ASSUME Inv, NEW n \in Nodes, NEW w, NEW s, Outcome(n, s, w),
           NEW u, NetworkOK(u, OwnVersions, Up \cup {n}), Commit(n, s, u),
           started' \subseteq Nodes, crashes' = crashes
    PROVE  /\ Inv' /\ Up' = Up \cup {n}
           /\ node'[n].timers = s.timers
           /\ \A x \in Nodes \ {n} : node'[x] = node[x]
           /\ Asking(u, net', n, s.out)
<1>1. /\ w \in Versions /\ NotAbove(OwnVersions, w)
      /\ \A m \in Nodes \ {n} : w[m] = OwnVersions[m]
      /\ Good(n, s, w) /\ (s.written \/ w = OwnVersions)
  BY DEF Outcome
<1>2. OwnVersions \in Versions /\ \A x \in Nodes : OwnVersions[x] = cache[x].this.version
  BY VersionsTyped DEF Inv
<1>3. /\ s.timers <= MaxTimers
      /\ node' = [node EXCEPT ![n] = Left(s)]
      /\ cache' = IF s.written THEN [cache EXCEPT ![n] = s.hier] ELSE cache
      /\ net' \in Sent(n, s, u)
  BY DEF Commit
<1>4. /\ node = [x \in Nodes |-> node[x]] /\ cache = [x \in Nodes |-> cache[x]]
      /\ \A x \in Nodes : cache[x] \in HierarchiesOf(x, OwnVersions)
  BY DEF Inv, NodesOK, CachesOK
<1>5. node' = [x \in Nodes |-> IF x = n THEN Left(s) ELSE node[x]]
  BY <1>3, <1>4
<1>6. \A x \in Nodes : cache'[x] = IF s.written /\ x = n THEN s.hier ELSE cache[x]
  BY <1>3, <1>4
<1>7. cache' = [x \in Nodes |-> cache'[x]]
  BY <1>3, <1>4
<1>8. s \in States(n, w) /\ s.hier.this.version = w[n] /\ s.hier \in HierarchiesOf(n, w)
  BY <1>1, StateTyped DEF Good
<1>9. OwnVersions' = w
  <2>1. ASSUME NEW x \in Nodes PROVE cache'[x].this.version = w[x]
    BY <1>1, <1>2, <1>6, <1>8
  <2>2. w = [x \in Nodes |-> w[x]]
    BY <1>1 DEF Versions
  <2> QED
    BY <2>1, <2>2 DEF OwnVersions
<1>10. CachesOK'
  <2>1. ASSUME NEW x \in Nodes PROVE cache'[x] \in HierarchiesOf(x, w)
    <3>1. cache[x] \in HierarchiesOf(x, w)
      BY <1>1, <1>2, <1>4, HierarchiesGrow
    <3> QED
      BY <1>6, <1>8, <3>1
  <2> QED
    BY <1>7, <1>9, <2>1 DEF CachesOK
<1>11. Left(s) \in Discoverers(n, w) /\ Left(s).timers = s.timers
  BY <1>1, <1>3, LeftGood
<1>12. ASSUME NEW x \in Nodes PROVE node'[x] \in Discoverers(x, w) \cup {Down(x)}
  <2>1. CASE x = n
    BY <1>5, <1>11, <2>1
  <2>2. CASE x # n
    <3>1. node'[x] = node[x] /\ OwnVersions[x] = w[x]
      BY <1>1, <1>5, <2>2
    <3>2. node[x] \in Discoverers(x, OwnVersions) \cup {Down(x)}
      BY DEF Inv, NodesOK
    <3>3. node[x] \in Discoverers(x, OwnVersions) => node[x] \in Discoverers(x, w)
      BY <1>1, <1>2, <3>1, DiscoverersGrow
    <3> QED
      BY <3>1, <3>2, <3>3
  <2> QED
    BY <2>1, <2>2
<1>13. node' = [x \in Nodes |-> node'[x]]
  BY <1>5
<1>14. NodesOK'
  BY <1>9, <1>12, <1>13 DEF NodesOK
<1>15. Up' = Up \cup {n}
  <2>1. node'[n].state # "down"
    BY <1>5, <1>11 DEF Discoverers
  <2>2. \A x \in Nodes \ {n} : node'[x].state = node[x].state
    BY <1>5
  <2> QED
    BY <2>1, <2>2 DEF Up
<1>16. Up \cup {n} \in SUBSET Nodes
  BY DEF Up
<1>17. NetworkOK(u, w, Up \cup {n})
  BY <1>1, <1>2, <1>16, NetworkGrows
<1>18. OutOK(s.out, n, w) /\ s.added \in SUBSET (Nodes \ {n}) /\ s.stopped \in SUBSET Nodes
  BY <1>8, StateTyped, OutTyped
<1>19. NetworkOK(net', w, Up \cup {n}) /\ Asking(u, net', n, s.out)
  BY <1>3, <1>17, <1>18, SentKeeps
<1>20. Inv'
  BY <1>9, <1>10, <1>14, <1>15, <1>19 DEF Inv
<1> QED
  BY <1>5, <1>11, <1>15, <1>19, <1>20

(* The probes a node waits for are numbers.                                 *)
LEMMA WaitedType ==
    ASSUME NEW v, NEW up, NEW w, NetworkOK(w, v, up), NEW n \in Nodes
    PROVE  \A y \in Nodes : /\ Waited(w, n)[y] = w.asked[n][y] + Count(w.events[n][y], "failed")
                            /\ Waited(w, n)[y] \in Nat /\ w.asked[n][y] \in Nat
                            /\ Count(w.events[n][y], "failed") \in Nat
<1>1. QueuesOK(w.events, w.asked, v)
  BY NetworkTyped
<1>2. ASSUME NEW y \in Nodes
      PROVE  w.asked[n][y] \in Nat /\ Count(w.events[n][y], "failed") \in Nat
  <2>1. w.asked[n][y] \in Nat /\ w.events[n][y] \in Seq(EventsOf(n, y, v))
    BY <1>1 DEF QueuesOK
  <2> QED
    BY <2>1, CountType
<1> QED
  BY <1>2 DEF Waited

(* Nobody but n waits for something else.                                   *)
OthersWait(w, u, n) == \A x \in Nodes \ {n} : Waited(u, x) = Waited(w, x)

(* What the end of a handler means for the searches.                        *)
LEMMA HandlerKeeps ==
    ASSUME Inv, NEW n \in Nodes, NEW w, NEW s, Outcome(n, s, w),
           NEW u, NetworkOK(u, OwnVersions, Up \cup {n}), OthersWait(net, u, n),
           Commit(n, s, u), started' \subseteq Nodes, crashes' = crashes
    PROVE  /\ Inv' /\ Up' = Up \cup {n}
           /\ Searches(n)' = Pending(s) + Total(Waited(u, n))
           /\ \A x \in Nodes \ {n} : Searches(x)' = Searches(x)
<1>1. /\ Inv' /\ Up' = Up \cup {n}
      /\ node'[n].timers = s.timers
      /\ \A x \in Nodes \ {n} : node'[x] = node[x]
      /\ Asking(u, net', n, s.out)
  BY CommitKeeps
<1>2. ASSUME NEW x \in Nodes \ {n} PROVE Searches(x)' = Searches(x)
  <2>1. Waited(net', x) = Waited(net, x)
    BY <1>1 DEF Asking, OthersWait
  <2>2. node'[x].timers = node[x].timers
    BY <1>1
  <2>3. Searches(x)' = node'[x].timers + Total(Waited(net', x))
    BY DEF Searches
  <2>4. Searches(x) = node[x].timers + Total(Waited(net, x))
    BY DEF Searches
  <2> QED
    BY <2>1, <2>2, <2>3, <2>4
<1>3. Searches(n)' = Pending(s) + Total(Waited(u, n))
  <2>1. s \in States(n, w)
    BY DEF Outcome, Good
  <2>2. \A y \in Nodes : Asked(s)[y] = Count(s.out[y], "probe") /\ Asked(s)[y] \in Nat
    BY <2>1, StateTyped, AskedType
  <2>3. \A y \in Nodes : Waited(u, n)[y] \in Nat
    BY WaitedType
  <2>4. \A y \in Nodes : Waited(net', n)[y] = Waited(u, n)[y] + Asked(s)[y]
    BY <1>1, <2>2 DEF Asking
  <2>5. Total(Waited(net', n)) = Total(Waited(u, n)) + Total(Asked(s))
    BY <2>2, <2>3, <2>4, TotalBoth
  <2>6. Total(Waited(u, n)) \in Nat /\ Total(Asked(s)) \in Nat /\ s.timers \in Nat
    BY <2>1, <2>2, <2>3, TotalType, StateTyped
  <2>7. Searches(n)' = s.timers + Total(Waited(net', n))
    BY <1>1 DEF Searches
  <2> QED
    BY <2>5, <2>6, <2>7 DEF Pending
<1> QED
  BY <1>1, <1>2, <1>3

(* n waits for k less, from m.                                              *)
Fewer(w, u, n, m, k) ==
    /\ OthersWait(w, u, n)
    /\ \A y \in Nodes : Waited(w, n)[y] = Waited(u, n)[y] + (IF y = m THEN k ELSE 0)

(* One thing less to wait for, or none, at one client.                      *)
LEMMA FewerTotal ==
    ASSUME NEW v, NEW up, NEW u, NetworkOK(u, v, up), NEW w, NetworkOK(w, v, up),
           NEW n \in Nodes, NEW m \in Nodes, NEW k \in {0, 1}, Fewer(w, u, n, m, k)
    PROVE  /\ Total(Waited(u, n)) \in Nat
           /\ Total(Waited(w, n)) = Total(Waited(u, n)) + k
<1>1. \A y \in Nodes : Waited(u, n)[y] \in Nat /\ Waited(w, n)[y] \in Nat
  BY WaitedType
<1>2. Total(Waited(u, n)) \in Nat
  BY <1>1, TotalType
<1>3. CASE k = 1
  <2>1. \A y \in Nodes : Waited(w, n)[y] = Waited(u, n)[y] + (IF y = m THEN 1 ELSE 0)
    BY <1>3 DEF Fewer
  <2> QED
    BY <1>1, <1>2, <1>3, <2>1, TotalMore
<1>4. CASE k = 0
  <2>1. \A y \in Nodes : Waited(u, n)[y] = Waited(w, n)[y]
    BY <1>1, <1>4 DEF Fewer
  <2>2. Total(Waited(u, n)) = Total(Waited(w, n))
    BY <1>1, <2>1, TotalSame
  <2> QED
    BY <1>2, <1>4, <2>2
<1> QED
  BY <1>3, <1>4

(* An event is taken from its queue.                                        *)
LEMMA HandledKeeps ==
    ASSUME Inv, NEW n \in Up, NEW m \in Nodes, NEW i \in DOMAIN net.events[n][m]
    PROVE  /\ NetworkOK(Handled(n, m, i), OwnVersions, Up)
           /\ Fewer(net, Handled(n, m, i), n, m,
                    IF net.events[n][m][i].type = "failed" THEN 1 ELSE 0)
           /\ Handled(n, m, i).asked = net.asked /\ Handled(n, m, i).links = net.links
<1> DEFINE u == Handled(n, m, i)
           rest == RemoveAt(net.events[n][m], i)
           events == [net.events EXCEPT ![n][m] = rest]
           k == IF net.events[n][m][i].type = "failed" THEN 1 ELSE 0
<1>0. n \in Nodes /\ Up \in SUBSET Nodes
  BY DEF Up
<1>1. NetworkOK(net, OwnVersions, Up)
  BY DEF Inv
<1>2. /\ net = [links |-> net.links, events |-> net.events, asked |-> net.asked]
      /\ IsTable(net.events) /\ IsTable(net.asked)
      /\ QueuesOK(net.events, net.asked, OwnVersions)
      /\ DownSilent(net.events, net.asked, Up) /\ LinksOK(net.links, Up)
  BY <1>1, NetworkTyped
<1>3. u = [links |-> net.links, events |-> events, asked |-> net.asked]
  <2>1. u = [net EXCEPT !.events = events]
    BY <1>0, <1>2 DEF Handled, IsTable
  <2> HIDE DEF u, events
  <2> QED
    BY <1>2, <2>1
<1>4. events = [x \in Nodes |-> [y \in Nodes |-> IF x = n /\ y = m THEN rest
                                                 ELSE net.events[x][y]]]
  BY <1>0, <1>2 DEF IsTable
<1> HIDE DEF u, events
<1>5. \A x, y \in Nodes : events[x][y] = IF x = n /\ y = m THEN rest ELSE net.events[x][y]
  BY <1>4
<1>6. IsTable(events)
  BY <1>4, <1>5 DEF IsTable
<1>7. net.events[n][m] \in Seq(EventsOf(n, m, OwnVersions))
  BY <1>0, <1>2 DEF QueuesOK
<1>8. /\ rest \in Seq(EventsOf(n, m, OwnVersions))
      /\ Count(net.events[n][m], "failed") = Count(rest, "failed") + k
  BY <1>7, RemoveAtProperties
<1>9. QueuesOK(events, net.asked, OwnVersions)
  BY <1>2, <1>5, <1>8 DEF QueuesOK
<1>10. DownSilent(events, net.asked, Up)
  BY <1>0, <1>2, <1>5 DEF DownSilent
<1>11. NetworkOK([links |-> net.links, events |-> events, asked |-> net.asked], OwnVersions, Up)
  BY <1>0, <1>2, <1>6, <1>9, <1>10, NetworkMade
<1>12. NetworkOK(u, OwnVersions, Up)
  BY <1>3, <1>11
<1>13. u.events = events /\ u.asked = net.asked /\ u.links = net.links
  BY <1>3
<1>14. ASSUME NEW x \in Nodes \ {n} PROVE Waited(u, x) = Waited(net, x)
  BY <1>5, <1>13 DEF Waited
<1>15. ASSUME NEW y \in Nodes
       PROVE  Waited(net, n)[y] = Waited(u, n)[y] + (IF y = m THEN k ELSE 0)
  <2>1. /\ Waited(net, n)[y] = net.asked[n][y] + Count(net.events[n][y], "failed")
        /\ Waited(u, n)[y] = net.asked[n][y] + Count(events[n][y], "failed")
        /\ net.asked[n][y] \in Nat /\ Count(events[n][y], "failed") \in Nat
    BY <1>0, <1>1, <1>12, <1>13, WaitedType
  <2>2. y = m => events[n][y] = rest
    BY <1>0, <1>5
  <2>3. y # m => events[n][y] = net.events[n][y]
    BY <1>0, <1>5
  <2>4. k \in Nat
    OBVIOUS
  <2> HIDE DEF k, rest
  <2>5. CASE y = m
    BY <1>8, <2>1, <2>2, <2>4, <2>5
  <2>6. CASE y # m
    BY <2>1, <2>3, <2>6
  <2> QED
    BY <2>5, <2>6
<1> QED
  BY <1>12, <1>13, <1>14, <1>15 DEF Fewer, OthersWait, u

-----------------------------------------------------------------------------
(***************************************************************************)
(* Every action keeps the invariant, and says what becomes of the          *)
(* searches.                                                               *)
(***************************************************************************)

(* A probe that is kept is given up.                                        *)
LEMMA AskedLess ==
    ASSUME NEW v, NEW up \in SUBSET Nodes, NEW n \in Nodes, NEW m \in Nodes,
           NEW u, NetworkOK(u, v, up), u.asked[n][m] # 0
    PROVE  LET w == [u EXCEPT !.asked[n][m] = @ - 1]
           IN  NetworkOK(w, v, up) /\ Fewer(u, w, n, m, 1)
<1> DEFINE w == [u EXCEPT !.asked[n][m] = @ - 1]
           asked == [u.asked EXCEPT ![n][m] = u.asked[n][m] - 1]
<1>2. /\ u = [links |-> u.links, events |-> u.events, asked |-> u.asked]
      /\ IsTable(u.events) /\ IsTable(u.asked)
      /\ QueuesOK(u.events, u.asked, v)
      /\ DownSilent(u.events, u.asked, up) /\ LinksOK(u.links, up)
  BY NetworkTyped
<1>3. w = [links |-> u.links, events |-> u.events, asked |-> asked]
  <2>1. w = [u EXCEPT !.asked = asked]
    BY <1>2 DEF IsTable
  <2> HIDE DEF w, asked
  <2> QED
    BY <1>2, <2>1
<1>4. asked = [x \in Nodes |-> [y \in Nodes |-> IF x = n /\ y = m THEN u.asked[n][m] - 1
                                                ELSE u.asked[x][y]]]
  BY <1>2 DEF IsTable
<1> HIDE DEF w, asked
<1>5. \A x, y \in Nodes : asked[x][y] = IF x = n /\ y = m THEN u.asked[n][m] - 1
                                        ELSE u.asked[x][y]
  BY <1>4
<1>6. IsTable(asked)
  BY <1>4, <1>5 DEF IsTable
<1>7. u.asked[n][m] \in Nat /\ u.asked[n][m] - 1 \in Nat
  BY <1>2 DEF QueuesOK
<1>8. QueuesOK(u.events, asked, v)
  BY <1>2, <1>5, <1>7 DEF QueuesOK
<1>9. DownSilent(u.events, asked, up)
  BY <1>2, <1>5 DEF DownSilent
<1>10. NetworkOK([links |-> u.links, events |-> u.events, asked |-> asked], v, up)
  BY <1>2, <1>6, <1>8, <1>9, NetworkMade
<1>11. NetworkOK(w, v, up)
  BY <1>3, <1>10
<1>12. w.events = u.events /\ w.asked = asked
  BY <1>3
<1>13. ASSUME NEW x \in Nodes \ {n} PROVE Waited(w, x) = Waited(u, x)
  BY <1>5, <1>12 DEF Waited
<1>14. ASSUME NEW y \in Nodes
       PROVE  Waited(u, n)[y] = Waited(w, n)[y] + (IF y = m THEN 1 ELSE 0)
  <2>1. /\ Waited(w, n)[y] = asked[n][y] + Count(u.events[n][y], "failed")
        /\ Waited(u, n)[y] = u.asked[n][y] + Count(u.events[n][y], "failed")
        /\ u.asked[n][y] \in Nat /\ Count(u.events[n][y], "failed") \in Nat
    BY <1>12, WaitedType DEF Waited
  <2>2. CASE y = m
    BY <1>5, <1>7, <2>1, <2>2
  <2>3. CASE y # m
    BY <1>5, <2>1, <2>3
  <2> QED
    BY <2>2, <2>3
<1> QED
  BY <1>11, <1>13, <1>14 DEF Fewer, OthersWait, w

(* A handler that leaves the version of its node alone leaves the versions  *)
(* alone.                                                                   *)
LEMMA OutcomeSame ==
    ASSUME Inv, NEW n \in Nodes, NEW s, Good(n, s, OwnVersions)
    PROVE  Outcome(n, s, OwnVersions)
<1>1. OwnVersions \in Versions
  BY VersionsTyped DEF Inv
<1>2. NotAbove(OwnVersions, OwnVersions)
  BY <1>1 DEF NotAbove, Versions
<1> QED
  BY <1>1, <1>2 DEF Outcome

(* A node that is up, in the invariant.                                     *)
LEMMA UpNode ==
    ASSUME Inv, NEW n \in Nodes, node[n].state # "down"
    PROVE  /\ n \in Up /\ node[n] \in Discoverers(n, OwnVersions) /\ node[n].timers \in Nat
           /\ Up \cup {n} = Up
           /\ node[n].timers > 0 => node[n].state = "waiting"
           /\ node[n].hier \in HierarchiesOf(n, OwnVersions)
           /\ node[n].hier.this.version = OwnVersions[n]
<1>1. n \in Up /\ node[n] \in Discoverers(n, OwnVersions)
  BY UpTyped DEF Inv
<1>2. /\ node[n].timers \in 0..MaxTimers
      /\ node[n].timers > 0 => node[n].state = "waiting"
      /\ node[n].hier \in HierarchiesOf(n, OwnVersions)
      /\ node[n].hier.this.version = OwnVersions[n]
  BY <1>1 DEF Discoverers
<1> QED
  BY <1>1, <1>2, DiscoveryAssumption

(* The timer fires.                                                         *)
LEMMA TimerKeeps ==
    ASSUME Inv, NEW n \in Nodes, OnTimer(n)
    PROVE  Inv' /\ Up' = Up /\ \A x \in Nodes : Searches(x)' = Searches(x)
<1> DEFINE d == node[n]
           e == Entered(d)
           s == [e EXCEPT !.timers = @ - 1]
           superior == s.hier.this.superior
           t == [s EXCEPT !.next = 1]
           r == IF s.state # "waiting" THEN s
                ELSE IF superior = NoNode THEN Discover(n, s)
                ELSE IF superior = Probes[n][1] THEN DiscoverLater(t)
                ELSE Discover(n, t)
<1>1. /\ d.state # "down" /\ d.timers > 0 /\ started' = started /\ crashes' = crashes
      /\ Commit(n, r, net)
  BY DEF OnTimer
<1>2. /\ n \in Up /\ d \in Discoverers(n, OwnVersions) /\ d.timers \in Nat
      /\ d.state = "waiting" /\ Up \cup {n} = Up
  BY <1>1, UpNode
<1>3. Good(n, e, OwnVersions) /\ Pending(e) = d.timers
  BY <1>2, EnteredGood
<1>4. e.timers = d.timers /\ e.state = d.state
  BY DEF Entered
<1> HIDE DEF e
<1>5. Good(n, s, OwnVersions) /\ Pending(s) + 1 = d.timers /\ s.state = "waiting"
  <2>1. e \in States(n, OwnVersions) /\ e.hier.this.version = OwnVersions[n]
    BY <1>3 DEF Good
  <2>2. e.timers - 1 \in Nat
    BY <1>1, <1>2, <1>4
  <2>3. s \in States(n, OwnVersions)
    BY <2>1, <2>2 DEF States
  <2>4. /\ s.state = "waiting" /\ s.hier = e.hier /\ s.timers = e.timers - 1 /\ s.out = e.out
    BY <1>2, <1>4, <2>1 DEF States
  <2> HIDE DEF s
  <2>5. Good(n, s, OwnVersions)
    BY <2>1, <2>3, <2>4 DEF Good
  <2>6. Pending(e) = e.timers + Total(Asked(e)) /\ Total(Asked(e)) \in Nat
    BY <2>1, PendingType
  <2>7. Asked(s) = Asked(e)
    BY <2>4 DEF Asked
  <2>8. Pending(s) = (e.timers - 1) + Total(Asked(e))
    BY <2>4, <2>7 DEF Pending
  <2> DEFINE k == Total(Asked(e))
  <2>9. k \in Nat /\ e.timers \in Nat /\ Pending(s) = (e.timers - 1) + k /\ Pending(e) = e.timers + k
    BY <1>2, <1>4, <2>6, <2>8
  <2> HIDE DEF k
  <2>10. Pending(s) + 1 = Pending(e)
    BY <2>9
  <2> QED
    BY <1>3, <2>4, <2>5, <2>10
<1> HIDE DEF s
<1>6. Good(n, t, OwnVersions) /\ Pending(t) = Pending(s)
  BY <1>5, RestartGood
<1> HIDE DEF t
<1>7. Good(n, r, OwnVersions) /\ Pending(r) = Pending(s) + 1
  <2>1. Good(n, Discover(n, s), OwnVersions) /\ Pending(Discover(n, s)) = Pending(s) + 1
    BY <1>5, DiscoverGood
  <2>2. Good(n, Discover(n, t), OwnVersions) /\ Pending(Discover(n, t)) = Pending(s) + 1
    BY <1>6, DiscoverGood
  <2>3. Good(n, DiscoverLater(t), OwnVersions) /\ Pending(DiscoverLater(t)) = Pending(s) + 1
    BY <1>6, DiscoverLaterGood
  <2>4. r \in {Discover(n, s), Discover(n, t), DiscoverLater(t)}
    BY <1>5
  <2> QED
    BY <2>1, <2>2, <2>3, <2>4
<1> HIDE DEF r
<1>8. Outcome(n, r, OwnVersions)
  BY <1>7, OutcomeSame
<1>9. NetworkOK(net, OwnVersions, Up \cup {n}) /\ OthersWait(net, net, n)
  BY <1>2 DEF Inv, OthersWait
<1>10. started' \subseteq Nodes
  BY <1>1 DEF Inv
<1>11. /\ Inv' /\ Up' = Up \cup {n}
       /\ Searches(n)' = Pending(r) + Total(Waited(net, n))
       /\ \A x \in Nodes \ {n} : Searches(x)' = Searches(x)
  BY <1>1, <1>8, <1>9, <1>10, HandlerKeeps
<1>12. Searches(n)' = Searches(n)
  BY <1>5, <1>7, <1>11 DEF Searches
<1> QED
  BY <1>2, <1>11, <1>12

(* A network is one when more nodes are up.                                 *)
LEMMA NetworkMoreUp ==
    ASSUME NEW v, NEW up \in SUBSET Nodes, NEW more \in SUBSET Nodes, up \subseteq more,
           NEW u, NetworkOK(u, v, up)
    PROVE  NetworkOK(u, v, more)
<1>1. /\ u = [links |-> u.links, events |-> u.events, asked |-> u.asked]
      /\ IsTable(u.events) /\ IsTable(u.asked)
      /\ QueuesOK(u.events, u.asked, v) /\ DownSilent(u.events, u.asked, up)
      /\ LinksOK(u.links, up)
  BY NetworkTyped
<1>2. DownSilent(u.events, u.asked, more)
  BY <1>1 DEF DownSilent
<1>3. LinksOK(u.links, more)
  BY <1>1 DEF LinksOK
<1>4. NetworkOK([links |-> u.links, events |-> u.events, asked |-> u.asked], v, more)
  BY <1>1, <1>2, <1>3, NetworkMade
<1> QED
  BY <1>1, <1>4

(* A discoverer that is new, and one that has read its cache.               *)
LEMMA DiscovererNew ==
    ASSUME NEW n \in Nodes, NEW v, NEW h \in HierarchiesOf(n, v), h.this.version = v[n]
    PROVE  Discoverer(h) \in Discoverers(n, v) /\ Discoverer(h).timers = 0
<1> DEFINE d == Discoverer(h)
<1>1. 1 \in 1..Len(Probes[n]) + 1
  <2>1. Len(Probes[n]) \in Nat
    BY ProbesBefore
  <2> QED
    BY <2>1
<1>2. 0 \in 0..MaxAttempts - 1 /\ 0 \in 0..MaxTimers
  BY DiscoveryAssumption
<1>3. d \in [state : {"initial", "waiting"}, hier : HierarchiesOf(n, v),
             next : 1..Len(Probes[n]) + 1, attempts : 0..MaxAttempts - 1,
             timers : 0..MaxTimers]
  BY <1>1, <1>2 DEF Discoverer
<1>4. d.timers = 0 /\ d.hier = h
  BY DEF Discoverer
<1> HIDE DEF d
<1>5. d \in Discoverers(n, v)
  BY <1>3, <1>4 DEF Discoverers
<1> QED
  BY <1>4, <1>5 DEF d

(* read_cache() sends no probe and sets no timer.                           *)
LEMMA ReadCacheGood ==
    ASSUME NEW n \in Nodes, NEW v, NEW h \in HierarchiesOf(n, v), h.this.version = v[n]
    PROVE  Good(n, ReadCache(h), v) /\ Pending(ReadCache(h)) = 0
<1> DEFINE e == Entered(Discoverer(h))
           u == [e EXCEPT !.added = {h.this.superior} \cap Known(h)]
<1>1. Good(n, e, v) /\ Pending(e) = 0
  BY DiscovererNew, EnteredGood
<1> HIDE DEF e
<1>2. e \in States(n, v) /\ e.hier.this.version = v[n] /\ (e.timers > 0 => e.state = "waiting")
  BY <1>1 DEF Good
<1>3. {h.this.superior} \cap Known(h) \in SUBSET (Nodes \ {n})
  BY HierarchyTyped
<1>4. u \in States(n, v)
  BY <1>2, <1>3 DEF States
<1>5. u.out = e.out /\ u.timers = e.timers /\ u.state = e.state /\ u.hier = e.hier
  BY <1>2 DEF States
<1>6. u = ReadCache(h)
  BY DEF ReadCache, e
<1> HIDE DEF u
<1>7. Good(n, u, v)
  BY <1>2, <1>4, <1>5 DEF Good
<1>8. Pending(u) = 0
  BY <1>1, <1>5, SamePending
<1> QED
  BY <1>6, <1>7, <1>8

(* A node starts.                                                           *)
LEMMA StartKeeps ==
    ASSUME Inv, NEW n \in Nodes, Start(n)
    PROVE  /\ Inv' /\ Up' = Up \cup {n} /\ n \notin Up /\ Searches(n)' = 1
           /\ \A x \in Nodes \ {n} : Searches(x)' = Searches(x)
<1> DEFINE h == cache[n]
           v == OwnVersions
           new == h = NewHierarchy(n)
           r == [h |-> IF new THEN SetResources(h) ELSE h, changed |-> new]
           w == [v EXCEPT ![n] = r.h.this.version]
           s == ReadCache(h)
           t == Update(s, r, NoNode)
           u == Discover(n, t)
<1>1. /\ node[n].state = "down" /\ started' = started \cup {n} /\ crashes' = crashes
      /\ Commit(n, u, net)
  BY DEF Start
<1>2. v \in Versions /\ h \in HierarchiesOf(n, v) /\ h.this.version = v[n]
  BY VersionsTyped DEF Inv, CachesOK
<1>3. n \notin Up /\ Up \in SUBSET Nodes
  BY <1>1 DEF Up
<1>4. Good(n, s, v) /\ Pending(s) = 0
  BY <1>2, ReadCacheGood
<1> HIDE DEF s
<1>5. r.changed \in BOOLEAN /\ r.changed = new /\ r.h = IF new THEN SetResources(h) ELSE h
  OBVIOUS
<1>6. w \in Versions /\ NotAbove(v, w) /\ r.h \in HierarchiesOf(n, w) /\ (~new => w = v)
  <2>1. CASE new
    <3>1. w = [v EXCEPT ![n] = SetResources(h).this.version] /\ r.h = SetResources(h)
      BY <1>5, <2>1
    <3> HIDE DEF w, r, h, v
    <3>2. /\ [v EXCEPT ![n] = SetResources(h).this.version] \in Versions
          /\ NotAbove(v, [v EXCEPT ![n] = SetResources(h).this.version])
      BY <1>2, SetResourcesKeeps
    <3>3. SetResources(h) \in HierarchiesOf(n, [v EXCEPT ![n] = SetResources(h).this.version])
      BY <1>2, SetResourcesKeeps
    <3> QED
      BY <2>1, <3>1, <3>2, <3>3
  <2>2. CASE ~new
    <3>1. r.h = h
      BY <1>5, <2>2
    <3> HIDE DEF r, h, v
    <3>2. w = v
      BY <1>2, <3>1 DEF Versions
    <3>3. NotAbove(v, v)
      BY <1>2 DEF NotAbove, Versions
    <3> QED
      BY <1>2, <3>1, <3>2, <3>3
  <2> QED
    BY <2>1, <2>2
<1>7. w[n] = r.h.this.version /\ \A m \in Nodes \ {n} : w[m] = v[m]
  BY <1>2 DEF Versions
<1> HIDE DEF v, h, new, r, w
<1>8. Good(n, t, w) /\ Pending(t) = 0 /\ (new => t.written)
  BY <1>2, <1>4, <1>5, <1>6, <1>7, UpdateGood
<1> HIDE DEF t
<1>9. Good(n, u, w) /\ Pending(u) = 1 /\ (new => u.written)
  <2>1. Good(n, u, w) /\ Pending(u) = Pending(t) + 1 /\ u.written = t.written
    BY <1>8, DiscoverGood
  <2> QED
    BY <1>8, <2>1
<1> HIDE DEF u
<1>10. Outcome(n, u, w)
  BY <1>6, <1>7, <1>9 DEF Outcome, v
<1>11. NetworkOK(net, OwnVersions, Up \cup {n}) /\ OthersWait(net, net, n)
  <2>1. NetworkOK(net, OwnVersions, Up)
    BY DEF Inv
  <2>2. NetworkOK(net, OwnVersions, Up \cup {n})
    BY <1>3, <2>1, NetworkMoreUp
  <2> QED
    BY <2>2 DEF OthersWait
<1>12. started' \subseteq Nodes
  BY <1>1 DEF Inv
<1>13. /\ Inv' /\ Up' = Up \cup {n}
       /\ Searches(n)' = Pending(u) + Total(Waited(net, n))
       /\ \A x \in Nodes \ {n} : Searches(x)' = Searches(x)
  BY <1>1, <1>10, <1>11, <1>12, HandlerKeeps
<1>14. Total(Waited(net, n)) = 0
  <2>1. NetworkOK(net, OwnVersions, Up)
    BY DEF Inv
  <2>2. DownSilent(net.events, net.asked, Up)
    BY <2>1, NetworkTyped
  <2>3. \A y \in Nodes : net.events[n][y] = <<>> /\ net.asked[n][y] = 0
    BY <1>3, <2>2 DEF DownSilent
  <2>4. \A y \in Nodes : Waited(net, n)[y] = 0
    BY <2>3, CountEmpty DEF Waited
  <2> QED
    BY <2>4, TotalZero
<1> QED
  BY <1>3, <1>9, <1>13, <1>14

(* A handler of an event of m: n waits for k less when it starts, and for   *)
(* k + more once it has sent its probes and set its timers.                 *)
LEMMA HandlingKeeps ==
    ASSUME Inv, NEW n \in Nodes, n \in Up, NEW m \in Nodes, NEW k \in {0, 1},
           NEW more \in {0, 1},
           NEW u, NetworkOK(u, OwnVersions, Up), Fewer(net, u, n, m, k),
           NEW w, NEW s, Outcome(n, s, w), Commit(n, s, u),
           started' = started, crashes' = crashes,
           Pending(s) = node[n].timers + k + more
    PROVE  /\ Inv' /\ Up' = Up /\ Searches(n)' = Searches(n) + more
           /\ \A x \in Nodes \ {n} : Searches(x)' = Searches(x)
<1>1. NetworkOK(u, OwnVersions, Up \cup {n}) /\ Up \cup {n} = Up
  <2>1. Up \cup {n} = Up
    OBVIOUS
  <2> QED
    BY <2>1
<1>2. OthersWait(net, u, n)
  BY DEF Fewer
<1>3. started' \subseteq Nodes
  BY DEF Inv
<1>4. /\ Inv' /\ Up' = Up
      /\ Searches(n)' = Pending(s) + Total(Waited(u, n))
      /\ \A x \in Nodes \ {n} : Searches(x)' = Searches(x)
  BY <1>1, <1>2, <1>3, HandlerKeeps
<1>5. Total(Waited(u, n)) \in Nat /\ Total(Waited(net, n)) = Total(Waited(u, n)) + k
  <2>1. NetworkOK(net, OwnVersions, Up)
    BY DEF Inv
  <2> QED
    BY <2>1, FewerTotal
<1>6. node[n].timers \in Nat
  BY UpTyped, UpNode DEF Inv
<1> DEFINE a == node[n].timers
           b == Total(Waited(u, n))
<1>7. a \in Nat /\ b \in Nat /\ Searches(n) = a + (b + k) /\ Searches(n)' = (a + k + more) + b
  BY <1>4, <1>5, <1>6 DEF Searches
<1> HIDE DEF a, b
<1>8. (a + k + more) + b = (a + (b + k)) + more
  BY <1>7
<1> QED
  BY <1>4, <1>7, <1>8

(* An event in a queue is one there may be.                                 *)
LEMMA EventKnown ==
    ASSUME Inv, NEW n \in Nodes, NEW m \in Nodes, NEW i \in DOMAIN net.events[n][m]
    PROVE  net.events[n][m][i] \in EventsOf(n, m, OwnVersions)
<1>1. QueuesOK(net.events, net.asked, OwnVersions)
  BY NetworkTyped DEF Inv
<1>2. net.events[n][m] \in Seq(EventsOf(n, m, OwnVersions))
  BY <1>1 DEF QueuesOK
<1> QED
  BY <1>2

(* What holds when a handler of an event starts.                            *)
Taken(n, m, i, e, s, u) ==
    /\ Inv /\ n \in Nodes /\ m \in Nodes \ {n} /\ i \in DOMAIN net.events[n][m]
    /\ node[n].state # "down"
    /\ started' = started /\ crashes' = crashes
    /\ e = net.events[n][m][i] /\ s = Entered(node[n]) /\ u = Handled(n, m, i)

(* What a handler of an event starts with: the discoverer entered, the      *)
(* event known, and one failed probe less if it was one.                    *)
LEMMA TakenTyped ==
    ASSUME NEW n, NEW m, NEW i, NEW e, NEW s, NEW u, Taken(n, m, i, e, s, u)
    PROVE  /\ n \in Up /\ OwnVersions \in Versions /\ e \in EventsOf(n, m, OwnVersions)
           /\ Good(n, s, OwnVersions) /\ Pending(s) = node[n].timers
           /\ s.hier \in HierarchiesOf(n, OwnVersions)
           /\ s.hier.this.version = OwnVersions[n]
           /\ node[n].timers \in Nat
           /\ NetworkOK(u, OwnVersions, Up)
           /\ Fewer(net, u, n, m, IF e.type = "failed" THEN 1 ELSE 0)
           /\ u.asked = net.asked
<1>1. /\ Inv /\ n \in Nodes /\ m \in Nodes \ {n} /\ i \in DOMAIN net.events[n][m]
      /\ node[n].state # "down"
      /\ e = net.events[n][m][i] /\ s = Entered(node[n]) /\ u = Handled(n, m, i)
  BY DEF Taken
<1>2. /\ n \in Up /\ node[n] \in Discoverers(n, OwnVersions)
      /\ node[n].timers \in Nat
      /\ node[n].hier \in HierarchiesOf(n, OwnVersions)
      /\ node[n].hier.this.version = OwnVersions[n]
  BY <1>1, UpNode
<1>3. OwnVersions \in Versions
  BY <1>1, VersionsTyped DEF Inv
<1>4. e \in EventsOf(n, m, OwnVersions)
  BY <1>1, EventKnown
<1>5. Good(n, s, OwnVersions) /\ Pending(s) = node[n].timers /\ s.hier = node[n].hier
  BY <1>1, <1>2, EnteredGood
<1>6. /\ NetworkOK(u, OwnVersions, Up)
      /\ Fewer(net, u, n, m, IF e.type = "failed" THEN 1 ELSE 0)
      /\ u.asked = net.asked
  BY <1>1, <1>2, HandledKeeps
<1> QED
  BY <1>2, <1>3, <1>4, <1>5, <1>6

(* The searches of all nodes are the same.                                  *)
SearchesSame == \A x \in Nodes : Searches(x)' = Searches(x)

(* A handler that takes the place of the probe that has failed, and waits   *)
(* for nothing more otherwise, keeps the invariant and the number of        *)
(* searches.                                                                *)
LEMMA TakenKeeps ==
    ASSUME NEW n, NEW m, NEW i, NEW e, NEW s, NEW u, Taken(n, m, i, e, s, u),
           NEW t, Good(n, t, OwnVersions), Commit(n, t, u),
           Pending(t) = node[n].timers + (IF e.type = "failed" THEN 1 ELSE 0)
    PROVE  Inv' /\ Up' = Up /\ SearchesSame
<1> DEFINE k == IF e.type = "failed" THEN 1 ELSE 0
<1>1. Inv /\ n \in Nodes /\ m \in Nodes /\ started' = started /\ crashes' = crashes
  BY DEF Taken
<1>2. /\ n \in Up /\ node[n].timers \in Nat
      /\ NetworkOK(u, OwnVersions, Up) /\ Fewer(net, u, n, m, k)
  BY TakenTyped
<1>3. Outcome(n, t, OwnVersions)
  BY <1>1, OutcomeSame
<1>4. k \in {0, 1} /\ Pending(t) = node[n].timers + k
  OBVIOUS
<1> HIDE DEF k
<1>5. Pending(t) = node[n].timers + k + 0 /\ 0 \in {0, 1}
  BY <1>2, <1>4
<1>6. /\ Inv' /\ Up' = Up /\ Searches(n)' = Searches(n) + 0
      /\ \A x \in Nodes \ {n} : Searches(x)' = Searches(x)
  BY <1>1, <1>2, <1>3, <1>4, <1>5, HandlingKeeps
<1>7. Searches(n) \in Nat
  <2>1. Total(Waited(net, n)) \in Nat
    BY <1>1, WaitedType, TotalType DEF Inv
  <2> QED
    BY <1>2, <2>1 DEF Searches
<1>8. Searches(n)' = Searches(n)
  BY <1>6, <1>7
<1> QED
  BY <1>6, <1>8 DEF SearchesSame

(* Updates by operations that leave the version of the node as it is.       *)
LEMMA UpdateSame ==
    ASSUME NEW v \in Versions, NEW n \in Nodes, NEW s, Good(n, s, v),
           NEW r, r.h \in HierarchiesOf(n, v), r.h.this.version = v[n],
           r.changed \in BOOLEAN, NEW ignored
    PROVE  LET t == Update(s, r, ignored)
           IN  Good(n, t, v) /\ Pending(t) = Pending(s) /\ t.hier = r.h
<1>1. NotAbove(v, v)
  BY DEF NotAbove, Versions
<1> QED
  BY <1>1, UpdateGood

(* Records of others leave the record of the node itself alone.             *)
LEMMA AddNodesSame ==
    ASSUME NEW v \in Versions, NEW n \in Nodes, NEW h \in HierarchiesOf(n, v),
           NEW records \in SUBSET RecordsUpTo(v), NEW k, h.this.version = k
    PROVE  /\ AddNodes(h, records).h \in HierarchiesOf(n, v)
           /\ AddNodes(h, records).h.this.version = k
           /\ AddNodes(h, records).h.this = h.this
           /\ AddNodes(h, records).changed \in BOOLEAN
<1>1. AddNodes(h, records).h.this = h.this
  BY AddNodesKeeps
<1>2. AddNodes(h, records).h \in HierarchiesOf(n, v)
  BY AddNodesKeeps
<1>3. AddNodes(h, records).changed \in BOOLEAN
  BY AddNodesKeeps
<1> QED
  BY <1>1, <1>2, <1>3

(* A hierarchy arrives.                                                     *)
LEMMA HierarchyReceivedKeeps ==
    ASSUME Inv, NEW n \in Nodes, NEW m \in Nodes \ {n}, NEW i \in DOMAIN net.events[n][m],
           node[n].state # "down", started' = started, crashes' = crashes,
           HierarchyReceived(n, m, i)
    PROVE  Inv' /\ Up' = Up /\ SearchesSame
<1> DEFINE e == net.events[n][m][i]
           s == Entered(node[n])
           u == Handled(n, m, i)
           known == AddNodes(s.hier, e.records)
           t == Update(s, known, m)
<1>1. e.type = "hierarchy" /\ Commit(n, t, u)
  BY DEF HierarchyReceived
<1>2. Taken(n, m, i, e, s, u)
  BY DEF Taken
<1> HIDE DEF e, s, u, t
<1>3. /\ OwnVersions \in Versions /\ e \in EventsOf(n, m, OwnVersions)
      /\ Good(n, s, OwnVersions) /\ Pending(s) = node[n].timers /\ node[n].timers \in Nat
      /\ s.hier \in HierarchiesOf(n, OwnVersions)
      /\ s.hier.this.version = OwnVersions[n]
  BY <1>2, TakenTyped
<1>4. e.records \in SUBSET RecordsUpTo(OwnVersions)
  BY <1>1, <1>3, EventKinds
<1>5. /\ known.h \in HierarchiesOf(n, OwnVersions) /\ known.h.this.version = OwnVersions[n]
      /\ known.changed \in BOOLEAN
  BY <1>3, <1>4, AddNodesSame
<1> HIDE DEF known
<1>6. Good(n, t, OwnVersions) /\ Pending(t) = node[n].timers
  BY <1>3, <1>5, UpdateSame DEF t
<1>7. Pending(t) = node[n].timers + (IF e.type = "failed" THEN 1 ELSE 0)
  BY <1>1, <1>3, <1>6
<1> QED
  BY <1>1, <1>2, <1>6, <1>7, TakenKeeps

(* A connection has ended.  The client is not the superior any more when it *)
(* is compared with the superior.                                           *)
LEMMA ClientRemovedKeeps ==
    ASSUME Inv, NEW n \in Nodes, NEW m \in Nodes \ {n}, NEW i \in DOMAIN net.events[n][m],
           node[n].state # "down", started' = started, crashes' = crashes,
           ClientRemoved(n, m, i)
    PROVE  Inv' /\ Up' = Up /\ SearchesSame
<1> DEFINE e == net.events[n][m][i]
           s == Entered(node[n])
           u == Handled(n, m, i)
           removed == RemoveNode(s.hier, m)
           told == Update(s, removed, m)
           t == IF told.hier.this.superior = m THEN Discover(n, told) ELSE told
<1>1. e.type = "remove_client" /\ Commit(n, t, u)
  BY DEF ClientRemoved
<1>2. Taken(n, m, i, e, s, u)
  BY DEF Taken
<1> HIDE DEF e, s, u
<1>3. /\ OwnVersions \in Versions
      /\ Good(n, s, OwnVersions) /\ Pending(s) = node[n].timers /\ node[n].timers \in Nat
      /\ s.hier \in HierarchiesOf(n, OwnVersions)
      /\ s.hier.this.version = OwnVersions[n]
  BY <1>2, TakenTyped
<1>4. /\ removed.h \in HierarchiesOf(n, OwnVersions)
      /\ removed.h.this.version = s.hier.this.version
      /\ removed.changed \in BOOLEAN /\ removed.h.this.superior # m
  BY <1>3, RemoveNodeKeeps
<1>5. removed.h.this.version = OwnVersions[n]
  BY <1>3, <1>4
<1> HIDE DEF removed
<1>6. Good(n, told, OwnVersions) /\ Pending(told) = node[n].timers /\ told.hier = removed.h
  BY <1>3, <1>4, <1>5, UpdateSame
<1> HIDE DEF told
<1>7. t = told
  BY <1>4, <1>6
<1> HIDE DEF t
<1>8. Good(n, t, OwnVersions)
      /\ Pending(t) = node[n].timers + (IF e.type = "failed" THEN 1 ELSE 0)
  BY <1>1, <1>3, <1>6, <1>7
<1> QED
  BY <1>1, <1>2, <1>8, TakenKeeps

(* A probe has failed: the next one, or a timer, takes its place.           *)
LEMMA ProbeFailedKeeps ==
    ASSUME Inv, NEW n \in Nodes, NEW m \in Nodes \ {n}, NEW i \in DOMAIN net.events[n][m],
           node[n].state # "down", started' = started, crashes' = crashes,
           ProbeFailed(n, m, i)
    PROVE  Inv' /\ Up' = Up /\ SearchesSame
<1> DEFINE e == net.events[n][m][i]
           s == Entered(node[n])
           u == Handled(n, m, i)
           t == Discover(n, s)
<1>1. e.type = "failed" /\ Commit(n, t, u)
  BY DEF ProbeFailed
<1>2. Taken(n, m, i, e, s, u)
  BY DEF Taken
<1> HIDE DEF e, s, u
<1>3. Good(n, s, OwnVersions) /\ Pending(s) = node[n].timers
  BY <1>2, TakenTyped
<1>4. Good(n, t, OwnVersions) /\ Pending(t) = Pending(s) + 1
  BY <1>3, DiscoverGood
<1> HIDE DEF t
<1>5. Pending(t) = node[n].timers + (IF e.type = "failed" THEN 1 ELSE 0)
  BY <1>1, <1>3, <1>4
<1> QED
  BY <1>1, <1>2, <1>4, <1>5, TakenKeeps

(* Two operations on a hierarchy one after the other.                       *)
LEMMA BothTyped ==
    ASSUME NEW first, NEW second, first.changed \in BOOLEAN, second.changed \in BOOLEAN
    PROVE  /\ Both(first, second).h = second.h
           /\ Both(first, second).changed = (first.changed \/ second.changed)
           /\ Both(first, second).changed \in BOOLEAN
BY DEF Both

(* What a probe does to the hierarchy.                                      *)
LEMMA AfterProbeKeeps ==
    ASSUME NEW v \in Versions, NEW n \in Nodes, NEW m \in Nodes, n < m,
           NEW known, known.h \in HierarchiesOf(n, v), known.h.this.version = v[n],
           known.changed \in BOOLEAN, NEW result
    PROVE  LET r == AfterProbe(known, m, result)
           IN  /\ r.h \in HierarchiesOf(n, v) /\ r.h.this.version = v[n]
               /\ r.changed \in BOOLEAN
<1> DEFINE h == known.h
           then == CASE result = "add_subordinate"    -> AddSubordinate(h, m)
                     [] result = "remove_subordinate" -> RemoveNode(h, m)
                     [] OTHER                         -> [h |-> h, changed |-> FALSE]
           r == AfterProbe(known, m, result)
<1>1. then.h \in HierarchiesOf(n, v) /\ then.h.this.version = v[n] /\ then.changed \in BOOLEAN
  <2>1. CASE result = "add_subordinate"
    <3>1. then = AddSubordinate(h, m)
      BY <2>1
    <3> HIDE DEF then, h
    <3>2. /\ AddSubordinate(h, m).h \in HierarchiesOf(n, v)
          /\ AddSubordinate(h, m).h.this = h.this
          /\ AddSubordinate(h, m).changed \in BOOLEAN
      BY AddSubordinateKeeps DEF h
    <3> QED
      BY <3>1, <3>2 DEF h
  <2>2. CASE result = "remove_subordinate"
    <3>1. then = RemoveNode(h, m)
      BY <2>2
    <3> HIDE DEF then, h
    <3>2. /\ RemoveNode(h, m).h \in HierarchiesOf(n, v)
          /\ RemoveNode(h, m).h.this.version = h.this.version
          /\ RemoveNode(h, m).changed \in BOOLEAN
      BY RemoveNodeKeeps DEF h
    <3> QED
      BY <3>1, <3>2 DEF h
  <2>3. CASE result # "add_subordinate" /\ result # "remove_subordinate"
    <3>1. then = [h |-> h, changed |-> FALSE]
      BY <2>3
    <3> HIDE DEF then
    <3> QED
      BY <3>1
  <2> QED
    BY <2>1, <2>2, <2>3
<1>2. r = Both(known, then)
  BY DEF AfterProbe
<1> HIDE DEF then, r
<1>3. r.h = then.h /\ r.changed \in BOOLEAN
  BY <1>1, <1>2, BothTyped
<1>4. r.h \in HierarchiesOf(n, v) /\ r.h.this.version = v[n] /\ r.changed \in BOOLEAN
  BY <1>1, <1>3
<1> QED
  BY <1>4 DEF r

(* The answer to a probe is a message to who has sent it.                   *)
LEMMA ReplyMade ==
    ASSUME NEW n \in Nodes, NEW m \in Nodes, n < m, NEW v,
           NEW old \in Nodes \cup {NoNode}, old \in Nodes => old < m,
           NEW new \in Nodes, NEW this \in Records, this.address = n,
           NEW records \in SUBSET RecordsUpTo(v)
    PROVE  /\ Reply(old, new, this, records) \in MessagesOf(m, n, v)
           /\ Reply(old, new, this, records).type = "reply"
BY DEF Reply, MessagesOf, RepliesOf

(* A probe arrives.                                                         *)
LEMMA ProbeReceivedKeeps ==
    ASSUME Inv, NEW n \in Nodes, NEW m \in Nodes \ {n}, NEW i \in DOMAIN net.events[n][m],
           node[n].state # "down", started' = started, crashes' = crashes,
           ProbeReceived(n, m, i)
    PROVE  Inv' /\ Up' = Up /\ SearchesSame
<1> DEFINE e == net.events[n][m][i]
           s == Entered(node[n])
           u == Handled(n, m, i)
           v == OwnVersions
           result == ProbeResult(s.hier, m, e)
           known == AddNodes(s.hier, e.records)
           after == AfterProbe(known, m, result)
           told == IF e.records = {} THEN s ELSE Update(s, after, m)
           msg == Reply(e.old, e.new, told.hier.this, NodesWithin(told.hier, MaxRadius))
           t == SendTo(told, m, msg)
<1>1. e.type = "probe" /\ Commit(n, t, u)
  BY DEF ProbeReceived
<1>2. Taken(n, m, i, e, s, u)
  BY DEF Taken
<1> HIDE DEF e, s, u, result
<1>3. /\ v \in Versions /\ e \in EventsOf(n, m, v)
      /\ Good(n, s, v) /\ Pending(s) = node[n].timers /\ node[n].timers \in Nat
      /\ s.hier \in HierarchiesOf(n, v)
      /\ s.hier.this.version = v[n]
  BY <1>2, TakenTyped
<1> HIDE DEF v
<1>4. e \in ProbesOf(n, m, v)
  BY <1>1, <1>3, EventKinds
<1>5. /\ n < m /\ e.old \in Nodes \cup {NoNode} /\ e.new \in Nodes
      /\ e.old \in Nodes => e.old < m
      /\ e.records \in SUBSET RecordsUpTo(v)
  BY <1>4 DEF ProbesOf
<1>6. /\ known.h \in HierarchiesOf(n, v) /\ known.h.this.version = v[n]
      /\ known.changed \in BOOLEAN
  BY <1>3, <1>5, AddNodesSame
<1> HIDE DEF known
<1>7. /\ after.h \in HierarchiesOf(n, v) /\ after.h.this.version = v[n]
      /\ after.changed \in BOOLEAN
  BY <1>3, <1>5, <1>6, AfterProbeKeeps
<1> HIDE DEF after
<1>8. Good(n, told, v) /\ Pending(told) = node[n].timers
  <2>1. Good(n, Update(s, after, m), v) /\ Pending(Update(s, after, m)) = Pending(s)
    BY <1>3, <1>7, UpdateSame
  <2> QED
    BY <1>3, <2>1
<1> HIDE DEF told
<1>9. told.hier \in HierarchiesOf(n, v)
  BY <1>8, StateTyped DEF Good
<1>10. /\ told.hier.this \in Records /\ told.hier.this.address = n
       /\ NodesWithin(told.hier, MaxRadius) \in SUBSET RecordsUpTo(v)
  BY <1>9, HierarchyTyped, NodesWithinKnown DEF RecordsUpTo
<1>11. msg \in MessagesOf(m, n, v) /\ msg.type = "reply"
  BY <1>5, <1>10, ReplyMade
<1> HIDE DEF msg
<1>12. Good(n, t, v)
  BY <1>8, <1>11, SendToGood
<1>13. Pending(t) = Pending(told) + 0
  <2>1. Pending(t) = Pending(told) + (IF msg.type = "probe" THEN 1 ELSE 0)
    BY <1>8, <1>11, SendToGood
  <2> QED
    BY <1>11, <2>1
<1> HIDE DEF t
<1>14. Pending(t) = node[n].timers + (IF e.type = "failed" THEN 1 ELSE 0)
  BY <1>1, <1>3, <1>8, <1>13
<1> QED
  BY <1>1, <1>2, <1>12, <1>14, TakenKeeps DEF v

(* A client is stopped: nothing is sent and no timer is set.                *)
LEMMA StoppedGood ==
    ASSUME NEW n \in Nodes, NEW v, NEW s, Good(n, s, v), NEW stopped \in SUBSET Nodes
    PROVE  LET u == [s EXCEPT !.stopped = stopped]
           IN  Good(n, u, v) /\ Pending(u) = Pending(s) /\ u.written = s.written
<1> DEFINE u == [s EXCEPT !.stopped = stopped]
<1>1. s \in States(n, v) /\ s.hier.this.version = v[n] /\ (s.timers > 0 => s.state = "waiting")
  BY DEF Good
<1>2. u \in States(n, v)
  BY <1>1 DEF States
<1>3. /\ u.state = s.state /\ u.timers = s.timers /\ u.out = s.out /\ u.hier = s.hier
      /\ u.written = s.written
  BY <1>1 DEF States
<1> HIDE DEF u
<1>4. Good(n, u, v)
  BY <1>1, <1>2, <1>3 DEF Good
<1> QED
  BY <1>3, <1>4, SamePending DEF u

(* A node attaches to m.  If it had another superior it waits for one more. *)
LEMMA AttachedGood ==
    ASSUME NEW v \in Versions, NEW n \in Nodes, NEW m \in Nodes, m < n,
           NEW p \in RepliesOf(n, m, v), NEW s, Good(n, s, v), NEW w, Attached(n, s, p, w)
    PROVE  \E t, u : /\ u \in Versions /\ NotAbove(v, u)
                     /\ \A x \in Nodes \ {n} : u[x] = v[x]
                     /\ Good(n, t, u) /\ (t.written \/ u = v)
                     /\ Commit(n, t, w)
                     /\ Pending(t) = Pending(s) + (IF p.old = NoNode THEN 1 ELSE 2)
<1> DEFINE known == AddNodes(s.hier, p.records)
           added == AddSuperior(known.h, m)
           attached == Both(known, added)
           told == Update(s, attached, m)
           left == [told EXCEPT !.stopped = {p.old} \ {NoNode}]
           msg == ProbeMessage(p.old, p.new, {})
           notified == IF p.old = NoNode THEN left ELSE SendTo(left, p.old, msg)
           t == DiscoverLater(notified)
           u == [v EXCEPT ![n] = added.h.this.version]
<1>1. /\ p.front.address = m /\ p.old \in Nodes \cup {NoNode} /\ p.new \in Nodes
      /\ p.old \in Nodes => p.old < n
      /\ p.records \in SUBSET RecordsUpTo(v)
  BY DEF RepliesOf
<1>2. Commit(n, t, w)
  BY <1>1 DEF Attached
<1>3. s.hier \in HierarchiesOf(n, v) /\ s.hier.this.version = v[n]
  BY StateTyped DEF Good
<1>4. /\ known.h \in HierarchiesOf(n, v) /\ known.h.this.version = v[n]
      /\ known.changed \in BOOLEAN
  BY <1>1, <1>3, AddNodesSame
<1> HIDE DEF known
<1>5. /\ u \in Versions /\ NotAbove(v, u) /\ added.h \in HierarchiesOf(n, u)
      /\ added.changed \in BOOLEAN /\ (u # v => added.changed)
  BY <1>4, AddSuperiorKeeps
<1>6. added.h.this.version = u[n] /\ \A x \in Nodes \ {n} : u[x] = v[x]
  BY DEF Versions
<1> HIDE DEF added, u
<1>7. /\ attached.h = added.h /\ attached.changed \in BOOLEAN
      /\ added.changed => attached.changed
  BY <1>4, <1>5, BothTyped
<1> HIDE DEF attached
<1>8. Good(n, told, u) /\ Pending(told) = Pending(s) /\ (attached.changed => told.written)
  BY <1>5, <1>6, <1>7, UpdateGood
<1> HIDE DEF told
<1>9. Good(n, left, u) /\ Pending(left) = Pending(s) /\ left.written = told.written
  <2>1. {p.old} \ {NoNode} \in SUBSET Nodes
    BY <1>1
  <2> QED
    BY <1>8, <2>1, StoppedGood
<1> HIDE DEF left
<1>10. CASE p.old = NoNode
  <2>1. t = DiscoverLater(left)
    BY <1>10
  <2>2. Good(n, t, u) /\ Pending(t) = Pending(s) + 1 /\ t.written = left.written
    BY <1>9, <2>1, DiscoverLaterGood
  <2> HIDE DEF t
  <2>3. t.written \/ u = v
    BY <1>5, <1>7, <1>8, <1>9, <2>2
  <2>4. Pending(t) = Pending(s) + (IF p.old = NoNode THEN 1 ELSE 2)
    BY <1>10, <2>2
  <2> QED
    BY <1>2, <1>5, <1>6, <2>2, <2>3, <2>4
<1>11. CASE p.old # NoNode
  <2>1. p.old \in Nodes \ {n} /\ p.old < n
    BY <1>1, <1>11, DiscoveryAssumption
  <2>2. msg \in MessagesOf(p.old, n, u)
    <3>1. {} \in SUBSET RecordsUpTo(u)
      OBVIOUS
    <3> QED
      BY <1>1, <2>1, <3>1, ProbeMade
  <2>3. msg.type = "probe"
    BY DEF ProbeMessage
  <2> HIDE DEF msg
  <2> DEFINE x == SendTo(left, p.old, msg)
  <2>4. Good(n, x, u) /\ Pending(x) = Pending(s) + 1 /\ x.written = left.written
    BY <1>9, <2>1, <2>2, <2>3, SendToGood
  <2>5. t = DiscoverLater(x)
    BY <1>11
  <2> HIDE DEF x
  <2>6. Good(n, t, u) /\ Pending(t) = Pending(x) + 1 /\ t.written = x.written
    BY <2>4, <2>5, DiscoverLaterGood
  <2> HIDE DEF t
  <2>7. t.written \/ u = v
    BY <1>5, <1>7, <1>8, <1>9, <2>4, <2>6
  <2>8. Pending(s) \in Nat
    BY PendingType DEF Good
  <2>9. Pending(t) = Pending(s) + 2
    BY <2>4, <2>6, <2>8
  <2>10. Pending(t) = Pending(s) + (IF p.old = NoNode THEN 1 ELSE 2)
    BY <1>11, <2>9
  <2> QED
    BY <1>2, <1>5, <1>6, <2>6, <2>7, <2>10
<1> QED
  BY <1>10, <1>11

(* A probe has come back.                                                   *)
LEMMA ProbeReturnedKeeps ==
    ASSUME Inv, NEW n \in Nodes, NEW m \in Nodes \ {n}, NEW i \in DOMAIN net.events[n][m],
           node[n].state # "down", started' = started, crashes' = crashes,
           ProbeReturned(n, m, i)
    PROVE  /\ Inv' /\ Up' = Up
           /\ \/ SearchesSame
              \/ /\ Moving(n) /\ Searches(n)' = Searches(n) + 1
                 /\ \A x \in Nodes \ {n} : Searches(x)' = Searches(x)
<1> DEFINE e == net.events[n][m][i]
           s == Entered(node[n])
           u == Handled(n, m, i)
           w == [u EXCEPT !.asked[n][m] = @ - 1]
           v == OwnVersions
<1>1. /\ e.type = "reply"
      /\ IF net.asked[n][m] = 0 THEN Commit(n, s, u)
         ELSE IF e.old = e.new THEN Commit(n, DiscoverLater(s), w)
         ELSE Attached(n, s, e, w)
  BY DEF ProbeReturned
<1>2. Taken(n, m, i, e, s, u)
  BY DEF Taken
<1>a. e = net.events[n][m][i]
  OBVIOUS
<1> HIDE DEF e, s, u
<1>3. /\ n \in Up /\ v \in Versions /\ e \in EventsOf(n, m, v)
      /\ Good(n, s, v) /\ Pending(s) = node[n].timers /\ node[n].timers \in Nat
      /\ NetworkOK(u, v, Up)
      /\ Fewer(net, u, n, m, IF e.type = "failed" THEN 1 ELSE 0)
      /\ u.asked = net.asked
  BY <1>2, TakenTyped
<1>4. CASE net.asked[n][m] = 0
  <2>1. Commit(n, s, u) /\ Pending(s) = node[n].timers + (IF e.type = "failed" THEN 1 ELSE 0)
    BY <1>1, <1>3, <1>4
  <2>2. Inv' /\ Up' = Up /\ SearchesSame
    BY <1>2, <1>3, <2>1, TakenKeeps
  <2> QED
    BY <2>2
<1>5. CASE net.asked[n][m] # 0
  <2>1. Fewer(net, u, n, m, 0)
    <3>1. (IF e.type = "failed" THEN 1 ELSE 0) = 0
      BY <1>1
    <3> QED
      BY <1>3, <3>1
  <2>2. NetworkOK(w, v, Up) /\ Fewer(u, w, n, m, 1)
    <3>1. u.asked[n][m] # 0 /\ Up \in SUBSET Nodes
      BY <1>3, <1>5 DEF Up
    <3> QED
      BY <1>3, <3>1, AskedLess
  <2> HIDE DEF w
  <2>3. Fewer(net, w, n, m, 1)
    <3>1. OthersWait(net, w, n)
      BY <2>1, <2>2 DEF Fewer, OthersWait
    <3>2. ASSUME NEW y \in Nodes
          PROVE  Waited(net, n)[y] = Waited(w, n)[y] + (IF y = m THEN 1 ELSE 0)
      <4>1. Waited(net, n)[y] = Waited(u, n)[y] + (IF y = m THEN 0 ELSE 0)
        BY <2>1 DEF Fewer
      <4>2. Waited(u, n)[y] = Waited(w, n)[y] + (IF y = m THEN 1 ELSE 0)
        BY <2>2 DEF Fewer
      <4>3. Waited(u, n)[y] \in Nat
        BY <1>3, WaitedType
      <4>4. Waited(net, n)[y] = Waited(u, n)[y]
        BY <4>1, <4>3
      <4> QED
        BY <4>2, <4>4
    <3> QED
      BY <3>1, <3>2 DEF Fewer
  <2>4. CASE e.old = e.new
    <3> DEFINE t == DiscoverLater(s)
    <3>1. Commit(n, t, w)
      BY <1>1, <1>5, <2>4
    <3>2. Good(n, t, v) /\ Pending(t) = node[n].timers + 1
      BY <1>3, DiscoverLaterGood
    <3> HIDE DEF t, v
    <3>3. Outcome(n, t, OwnVersions)
      BY <3>2, OutcomeSame DEF v
    <3>4. Pending(t) = node[n].timers + 1 + 0 /\ 0 \in {0, 1} /\ 1 \in {0, 1}
      BY <1>3, <3>2
    <3>5. /\ Inv' /\ Up' = Up /\ Searches(n)' = Searches(n) + 0
          /\ \A x \in Nodes \ {n} : Searches(x)' = Searches(x)
      BY <1>3, <2>2, <2>3, <3>1, <3>3, <3>4, HandlingKeeps DEF v
    <3>6. Searches(n) \in Nat
      <4>1. Total(Waited(net, n)) \in Nat
        BY WaitedType, TotalType DEF Inv
      <4> QED
        BY <1>3, <4>1 DEF Searches
    <3> QED
      BY <3>5, <3>6 DEF SearchesSame
  <2>5. CASE e.old # e.new
    <3>1. Attached(n, s, e, w)
      BY <1>1, <1>5, <2>5
    <3>2. e \in RepliesOf(n, m, v)
      BY <1>1, <1>3, EventKinds
    <3>3. m < n
      BY <3>2 DEF RepliesOf
    <3> DEFINE more == IF e.old = NoNode THEN 0 ELSE 1
    <3>4. PICK t, y : /\ y \in Versions /\ NotAbove(v, y)
                      /\ \A x \in Nodes \ {n} : y[x] = v[x]
                      /\ Good(n, t, y) /\ (t.written \/ y = v)
                      /\ Commit(n, t, w)
                      /\ Pending(t) = Pending(s) + (IF e.old = NoNode THEN 1 ELSE 2)
      BY <1>3, <3>1, <3>2, <3>3, AttachedGood
    <3>5. Outcome(n, t, y)
      BY <3>4 DEF Outcome
    <3>6. Pending(t) = node[n].timers + 1 + more
      BY <1>3, <3>4
    <3>7. more \in {0, 1} /\ 1 \in {0, 1}
      OBVIOUS
    <3> HIDE DEF v, more
    <3>8. /\ Inv' /\ Up' = Up /\ Searches(n)' = Searches(n) + more
          /\ \A x \in Nodes \ {n} : Searches(x)' = Searches(x)
      BY <1>3, <2>2, <2>3, <3>4, <3>5, <3>6, <3>7, HandlingKeeps DEF v
    <3>9. Searches(n) \in Nat
      <4>1. Total(Waited(net, n)) \in Nat
        BY WaitedType, TotalType DEF Inv
      <4> QED
        BY <1>3, <4>1 DEF Searches
    <3>10. CASE e.old = NoNode
      <4>1. Searches(n)' = Searches(n)
        BY <3>8, <3>9, <3>10 DEF more
      <4> QED
        BY <3>8, <4>1 DEF SearchesSame
    <3>11. CASE e.old # NoNode
      <4>1. Searches(n)' = Searches(n) + 1
        BY <3>8, <3>11 DEF more
      <4>2. net.asked[n][m] \in Nat /\ net.asked[n][m] > 0
        BY <1>5, WaitedType DEF Inv
      <4>3. Moving(n)
        BY <1>1, <1>a, <2>5, <3>11, <4>2 DEF Moving
      <4> QED
        BY <3>8, <4>1, <4>3
    <3> QED
      BY <3>10, <3>11
  <2> QED
    BY <2>4, <2>5
<1> QED
  BY <1>4, <1>5

(* The network forgets a node that has gone and has no connection.          *)
Silenced(u, n) == [u EXCEPT !.events[n] = Nobody, !.asked[n] = [m \in Nodes |-> 0]]

(* A node that has gone handles nothing and waits for nothing.              *)
LEMMA SilencedKeeps ==
    ASSUME NEW v, NEW up \in SUBSET Nodes, NEW n \in Nodes, NEW u, NetworkOK(u, v, up),
           \A l \in u.links : n \notin l
    PROVE  /\ NetworkOK(Silenced(u, n), v, up \ {n})
           /\ OthersWait(u, Silenced(u, n), n)
<1> DEFINE x == Silenced(u, n)
           silent == [m \in Nodes |-> 0]
           events == [u.events EXCEPT ![n] = Nobody]
           asked == [u.asked EXCEPT ![n] = silent]
<1>1. /\ u = [links |-> u.links, events |-> u.events, asked |-> u.asked]
      /\ IsTable(u.events) /\ IsTable(u.asked)
      /\ QueuesOK(u.events, u.asked, v) /\ DownSilent(u.events, u.asked, up)
      /\ LinksOK(u.links, up)
  BY NetworkTyped
<1>2. x = [links |-> u.links, events |-> events, asked |-> asked]
  <2>1. x = [[u EXCEPT !.events = events] EXCEPT !.asked = asked]
    BY DEF Silenced
  <2> HIDE DEF x, events, asked
  <2>2. [u EXCEPT !.events = events] = [links |-> u.links, events |-> events, asked |-> u.asked]
    BY <1>1
  <2> QED
    BY <2>1, <2>2
<1>3. Nobody = [y \in Nodes |-> <<>>]
  BY DEF Nobody
<1>4. /\ events = [a \in Nodes |-> [b \in Nodes |-> IF a = n THEN <<>> ELSE u.events[a][b]]]
      /\ asked = [a \in Nodes |-> [b \in Nodes |-> IF a = n THEN 0 ELSE u.asked[a][b]]]
  BY <1>1, <1>3 DEF IsTable
<1> HIDE DEF x, events, asked
<1>5. \A a, b \in Nodes : /\ events[a][b] = IF a = n THEN <<>> ELSE u.events[a][b]
                          /\ asked[a][b] = IF a = n THEN 0 ELSE u.asked[a][b]
  BY <1>4
<1>6. IsTable(events) /\ IsTable(asked)
  BY <1>4, <1>5 DEF IsTable
<1>7. QueuesOK(events, asked, v)
  <2>1. ASSUME NEW a \in Nodes, NEW b \in Nodes
        PROVE  events[a][b] \in Seq(EventsOf(a, b, v)) /\ asked[a][b] \in Nat
    <3>1. CASE a = n
      <4>1. events[a][b] = <<>> /\ asked[a][b] = 0
        BY <1>5, <3>1
      <4> QED
        BY <4>1
    <3>2. CASE a # n
      <4>1. events[a][b] = u.events[a][b] /\ asked[a][b] = u.asked[a][b]
        BY <1>5, <3>2
      <4> QED
        BY <1>1, <4>1 DEF QueuesOK
    <3> QED
      BY <3>1, <3>2
  <2> QED
    BY <2>1 DEF QueuesOK
<1>8. DownSilent(events, asked, up \ {n})
  BY <1>1, <1>5 DEF DownSilent
<1>9. LinksOK(u.links, up \ {n})
  BY <1>1 DEF LinksOK
<1>10. up \ {n} \in SUBSET Nodes
  OBVIOUS
<1>11. NetworkOK([links |-> u.links, events |-> events, asked |-> asked], v, up \ {n})
  BY <1>6, <1>7, <1>8, <1>9, <1>10, NetworkMade
<1>12. NetworkOK(x, v, up \ {n})
  BY <1>2, <1>11
<1>13. x.events = events /\ x.asked = asked
  BY <1>2
<1>14. ASSUME NEW a \in Nodes \ {n} PROVE Waited(x, a) = Waited(u, a)
  BY <1>5, <1>13 DEF Waited
<1> QED
  BY <1>12, <1>14 DEF OthersWait, x

(* A node crashes.                                                          *)
LEMMA CrashKeeps ==
    ASSUME Inv, NEW n \in Nodes, Crash(n)
    PROVE  Inv' /\ Up' = Up \ {n} /\ \A x \in Nodes \ {n} : Searches(x)' = Searches(x)
<1> DEFINE clients == {m \in Nodes : Linked(net, n, m)}
<1>1. /\ node[n].state # "down" /\ crashes < MaxCrashes /\ crashes' = crashes + 1
      /\ node' = [node EXCEPT ![n] = Down(n)] /\ cache' = cache /\ started' = started
  BY DEF Crash, Down
<1>2. PICK lost \in BOOLEAN : net' = Silenced(EndLinks(net, n, clients, lost), n)
  BY DEF Crash, Silenced
<1>3. /\ node = [x \in Nodes |-> node[x]] /\ NetworkOK(net, OwnVersions, Up)
      /\ Up \in SUBSET Nodes
  BY UpTyped DEF Inv, NodesOK
<1>4. node' = [x \in Nodes |-> IF x = n THEN Down(n) ELSE node[x]]
  BY <1>1, <1>3
<1>5. OwnVersions' = OwnVersions
  BY <1>1 DEF OwnVersions
<1>6. Up' = Up \ {n}
  <2>1. node'[n].state = "down" /\ \A x \in Nodes \ {n} : node'[x] = node[x]
    BY <1>4, DownTyped
  <2> QED
    BY <2>1 DEF Up
<1>7. clients \in SUBSET Nodes /\ \A m \in clients : {n, m} \in net.links
  BY DEF Linked
<1> DEFINE u == EndLinks(net, n, clients, lost)
<1>8. /\ NetworkOK(u, OwnVersions, Up) /\ SameWaits(net, u)
      /\ Unlinked(net, u, n, clients)
  <2> HIDE DEF clients
  <2> QED
    BY <1>3, <1>7, EndLinksKeeps
<1> HIDE DEF u
<1>9. \A l \in u.links : n \notin l
  <2>1. SUFFICES ASSUME NEW l \in u.links, n \in l PROVE FALSE
    OBVIOUS
  <2>2. l \in net.links
    BY <1>8 DEF Unlinked
  <2>3. LinksOK(net.links, Up)
    BY <1>3, NetworkTyped
  <2>4. PICK a \in Up, b \in Up : l = {a, b}
    BY <2>2, <2>3 DEF LinksOK
  <2>5. PICK m \in Nodes : l = {n, m}
    BY <1>3, <2>1, <2>4
  <2>6. m \in clients
    BY <2>2, <2>5 DEF Linked
  <2> QED
    BY <1>8, <2>1, <2>5, <2>6 DEF Unlinked
<1> HIDE DEF clients
<1>10. NetworkOK(net', OwnVersions, Up \ {n}) /\ OthersWait(u, net', n)
  <2>1. net' = Silenced(u, n)
    BY <1>2 DEF u
  <2> QED
    BY <1>3, <1>8, <1>9, <2>1, SilencedKeeps
<1>11. NodesOK'
  <2>1. ASSUME NEW x \in Nodes PROVE node'[x] \in Discoverers(x, OwnVersions) \cup {Down(x)}
    <3>1. node[x] \in Discoverers(x, OwnVersions) \cup {Down(x)}
      BY DEF Inv, NodesOK
    <3> QED
      BY <1>4, <3>1
  <2>2. node' = [x \in Nodes |-> node'[x]]
    BY <1>4
  <2> QED
    BY <1>5, <2>1, <2>2 DEF NodesOK
<1>12. CachesOK'
  BY <1>1, <1>5 DEF Inv, CachesOK
<1>13. started' \subseteq Nodes /\ crashes' \in 0..MaxCrashes
  BY <1>1, DiscoveryAssumption DEF Inv
<1>14. Inv'
  BY <1>5, <1>6, <1>10, <1>11, <1>12, <1>13 DEF Inv
<1>15. ASSUME NEW x \in Nodes \ {n} PROVE Searches(x)' = Searches(x)
  <2>1. Waited(net', x) = Waited(net, x)
    BY <1>8, <1>10 DEF SameWaits, OthersWait
  <2>2. node'[x] = node[x]
    BY <1>4
  <2> QED
    BY <2>1, <2>2 DEF Searches
<1> QED
  BY <1>6, <1>14, <1>15

-----------------------------------------------------------------------------
(***************************************************************************)
(* The theorems.                                                           *)
(***************************************************************************)

(* No node is up at first, the caches are new and nothing is on its way.    *)
LEMMA InitInv ==
    ASSUME Init
    PROVE  Inv
<1>1. /\ node = [n \in Nodes |-> Down(n)] /\ cache = [n \in Nodes |-> NewHierarchy(n)]
      /\ started = {} /\ crashes = 0
  BY DEF Init, Down
<1> DEFINE events == [n \in Nodes |-> Nobody]
           asked == [n \in Nodes |-> [m \in Nodes |-> 0]]
<1>2. net = [links |-> {}, events |-> events, asked |-> asked]
  BY DEF Init
<1>3. OwnVersions = [n \in Nodes |-> 0]
  BY <1>1 DEF OwnVersions, NewHierarchy
<1>4. OwnVersions \in Versions
  BY <1>3 DEF Versions
<1>5. CachesOK
  <2>1. \A n \in Nodes : NewHierarchy(n) \in HierarchiesOf(n, OwnVersions)
    BY <1>4, NewHierarchyKnown
  <2> QED
    BY <1>1, <2>1 DEF CachesOK
<1>6. NodesOK
  BY <1>1 DEF NodesOK
<1>7. Up = {}
  <2>1. \A n \in Nodes : node[n].state = "down"
    BY <1>1, DownTyped
  <2> QED
    BY <2>1 DEF Up
<1>8. \A x, y \in Nodes : events[x][y] = <<>> /\ asked[x][y] = 0
  BY DEF Nobody
<1>9. IsTable(events) /\ IsTable(asked)
  BY DEF IsTable, Nobody
<1> HIDE DEF events, asked
<1>10. QueuesOK(events, asked, OwnVersions)
  <2>1. \A x, y \in Nodes : <<>> \in Seq(EventsOf(x, y, OwnVersions)) /\ 0 \in Nat
    OBVIOUS
  <2> QED
    BY <1>8, <2>1 DEF QueuesOK
<1>11. DownSilent(events, asked, {}) /\ LinksOK({}, {}) /\ {} \in SUBSET Nodes
  BY <1>8 DEF DownSilent, LinksOK
<1>12. NetworkOK([links |-> {}, events |-> events, asked |-> asked], OwnVersions, {})
  BY <1>9, <1>10, <1>11, NetworkMade
<1>13. NetworkOK(net, OwnVersions, Up)
  BY <1>2, <1>7, <1>12
<1> QED
  BY <1>1, <1>5, <1>6, <1>13, DiscoveryAssumption DEF Inv

(* An event that can be handled is in a queue of a node that is up.         *)
LEMMA ReadyTyped ==
    ASSUME Inv, NEW n \in Nodes, NEW m \in Nodes, NEW i \in Ready(n, m)
    PROVE  i \in DOMAIN net.events[n][m] /\ node[n].state # "down"
BY DEF Ready

(* What a step does to the searches of the nodes that are up after it.      *)
SearchStep ==
    \A n \in Nodes : n \in Up' =>
        \/ Searches(n)' = IF n \in Up THEN Searches(n) ELSE 1
        \/ n \in Up /\ Moving(n) /\ Searches(n)' = Searches(n) + 1

(* Every handler of an event keeps the invariant and the number of          *)
(* searches, except the one that leaves a superior for another.             *)
LEMMA HandleKeeps ==
    ASSUME Inv, NEW n \in Nodes, NEW m \in Nodes \ {n}, Handle(n, m)
    PROVE  Inv' /\ SearchStep
<1>1. started' = started /\ crashes' = crashes
  BY DEF Handle
<1>2. PICK i \in Ready(n, m) : \/ ProbeReceived(n, m, i)
                               \/ ProbeReturned(n, m, i)
                               \/ ProbeFailed(n, m, i)
                               \/ HierarchyReceived(n, m, i)
                               \/ ClientRemoved(n, m, i)
  BY DEF Handle
<1>3. i \in DOMAIN net.events[n][m] /\ node[n].state # "down" /\ n \in Up
  BY ReadyTyped, UpNode
<1>4. CASE ProbeReceived(n, m, i)
  <2>1. Inv' /\ Up' = Up /\ SearchesSame
    BY <1>1, <1>3, <1>4, ProbeReceivedKeeps
  <2> QED
    BY <2>1 DEF SearchStep, SearchesSame
<1>5. CASE ProbeReturned(n, m, i)
  <2>1. /\ Inv' /\ Up' = Up
        /\ \/ SearchesSame
           \/ /\ Moving(n) /\ Searches(n)' = Searches(n) + 1
              /\ \A x \in Nodes \ {n} : Searches(x)' = Searches(x)
    BY <1>1, <1>3, <1>5, ProbeReturnedKeeps
  <2> QED
    BY <1>3, <2>1 DEF SearchStep, SearchesSame
<1>6. CASE ProbeFailed(n, m, i)
  <2>1. Inv' /\ Up' = Up /\ SearchesSame
    BY <1>1, <1>3, <1>6, ProbeFailedKeeps
  <2> QED
    BY <2>1 DEF SearchStep, SearchesSame
<1>7. CASE HierarchyReceived(n, m, i)
  <2>1. Inv' /\ Up' = Up /\ SearchesSame
    BY <1>1, <1>3, <1>7, HierarchyReceivedKeeps
  <2> QED
    BY <2>1 DEF SearchStep, SearchesSame
<1>8. CASE ClientRemoved(n, m, i)
  <2>1. Inv' /\ Up' = Up /\ SearchesSame
    BY <1>1, <1>3, <1>8, ClientRemovedKeeps
  <2> QED
    BY <2>1 DEF SearchStep, SearchesSame
<1> QED
  BY <1>2, <1>4, <1>5, <1>6, <1>7, <1>8

(* Every step does.                                                         *)
LEMMA NextInv ==
    ASSUME Inv, Next
    PROVE  Inv' /\ SearchStep
<1>1. PICK n \in Nodes : \/ Start(n) \/ OnTimer(n) \/ Crash(n)
                         \/ \E m \in Nodes \ {n} : Handle(n, m)
  BY DEF Next
<1>2. CASE Start(n)
  <2>1. /\ Inv' /\ Up' = Up \cup {n} /\ n \notin Up /\ Searches(n)' = 1
        /\ \A x \in Nodes \ {n} : Searches(x)' = Searches(x)
    BY <1>2, StartKeeps
  <2> QED
    BY <2>1 DEF SearchStep
<1>3. CASE OnTimer(n)
  <2>1. Inv' /\ Up' = Up /\ \A x \in Nodes : Searches(x)' = Searches(x)
    BY <1>3, TimerKeeps
  <2> QED
    BY <2>1 DEF SearchStep
<1>4. CASE Crash(n)
  <2>1. Inv' /\ Up' = Up \ {n} /\ \A x \in Nodes \ {n} : Searches(x)' = Searches(x)
    BY <1>4, CrashKeeps
  <2> QED
    BY <2>1 DEF SearchStep
<1>5. CASE \E m \in Nodes \ {n} : Handle(n, m)
  BY <1>5, HandleKeeps
<1> QED
  BY <1>1, <1>2, <1>3, <1>4, <1>5

(* Nothing changes when the variables do not.                               *)
LEMMA StutterInv ==
    ASSUME Inv, UNCHANGED vars
    PROVE  Inv'
<1>1. node' = node /\ cache' = cache /\ started' = started /\ net' = net /\ crashes' = crashes
  BY DEF vars
<1>2. OwnVersions' = OwnVersions /\ Up' = Up
  BY <1>1 DEF OwnVersions, Up
<1>3. NodesOK' /\ CachesOK'
  BY <1>1, <1>2 DEF Inv, NodesOK, CachesOK
<1> QED
  BY <1>1, <1>2, <1>3 DEF Inv

(* The invariant: in all behaviours of the discovery, with any number of    *)
(* nodes that start, crash, restart from their caches and lose each other's *)
(* messages, nobody's records are ahead of the caches of those they are     *)
(* about, superiors have smaller addresses, and probes and timers are where *)
(* they are waited for.                                                     *)
THEOREM InvInvariance == Spec => []Inv
<1>1. Init => Inv
  BY InitInv
<1>2. Inv /\ [Next]_vars => Inv'
  BY NextInv, StutterInv
<1> QED
  BY <1>1, <1>2, PTL DEF Spec

(* OneSearch: a node that is up waits for one timer or one probe to return. *)
(* No failure of a connection, no message and no crash of another node ends *)
(* its search or starts a second one; only where it leaves its superior for *)
(* a better one does one more thing come to be waited for                   *)
(* (discoverer.cc:194).                                                     *)
THEOREM SearchesDoNotMultiply == Spec => OneSearch
<1>1. Inv /\ [Next]_vars => [SearchStep]_vars
  BY NextInv
<1>2. Spec => [][SearchStep]_vars
  BY <1>1, InvInvariance, PTL DEF Spec
<1> QED
  BY <1>2 DEF OneSearch, SearchStep

(* The superiors that a node knows make no cycle.                           *)
LEMMA HierarchyAcyclic ==
    ASSUME NEW v, NEW n, NEW h \in HierarchiesOf(n, v)
    PROVE  Acyclic(h)
<1>1. /\ h.this \in RecordsUpTo(v) /\ h.nodes \in Tables(v)
      /\ Known(h) = DOMAIN h.nodes /\ Known(h) \in SUBSET (Nodes \ {n})
      /\ \A m \in Known(h) : h.nodes[m] \in RecordsUpTo(v)
  BY HierarchyTyped
<1>2. IsFiniteSet(Range(h.nodes))
  <2>1. IsFiniteSet(DOMAIN h.nodes)
    <3>1. IsFiniteSet(Nodes)
      BY DiscoveryAssumption
    <3>2. DOMAIN h.nodes \in SUBSET Nodes
      BY <1>1
    <3> QED
      BY <3>1, <3>2, FS_Subset
  <2>2. h.nodes \in Surjection(DOMAIN h.nodes, Range(h.nodes))
    <3>1. h.nodes = [m \in DOMAIN h.nodes |-> h.nodes[m]]
      BY <1>1, TableTyped
    <3>2. \A m \in DOMAIN h.nodes : h.nodes[m] \in Range(h.nodes)
      BY DEF Range
    <3>3. h.nodes \in [DOMAIN h.nodes -> Range(h.nodes)]
      BY <3>1, <3>2
    <3> QED
      BY <3>3 DEF Range, Surjection
  <2> QED
    BY <2>1, <2>2, FS_Surjection
<1>3. ASSUME NEW a \in Range(h.nodes) \cup {h.this}
      PROVE  /\ a.address \in Nodes \cup {NoNode} /\ a.superior \in Nodes \cup {NoNode}
             /\ a.address \in Nodes /\ a.superior \in Nodes => a.superior < a.address
  <2>1. a \in RecordsUpTo(v)
    BY <1>1 DEF Range
  <2>2. a \in Records /\ (a.superior \in Nodes => a.superior < a.address)
    BY <2>1 DEF RecordsUpTo
  <2> QED
    BY <2>2, RecordTyped
<1> QED
  BY <1>2, <1>3, NoCycle

(* The hierarchy of a node that is up has its version, and that of a node   *)
(* that is down is new.                                                     *)
LEMMA NodeHierarchy ==
    ASSUME Inv, NEW n \in Nodes
    PROVE  /\ node[n].hier \in HierarchiesOf(n, OwnVersions)
           /\ n \in Up => node[n].hier.this.version = OwnVersions[n]
           /\ n \notin Up => node[n].hier = NewHierarchy(n)
<1>1. OwnVersions \in Versions
  BY VersionsTyped DEF Inv
<1>2. CASE n \in Up
  <2>1. node[n] \in Discoverers(n, OwnVersions)
    BY <1>2, UpTyped DEF Inv
  <2> QED
    BY <1>2, <2>1 DEF Discoverers
<1>3. CASE n \notin Up
  <2>1. node[n] = Down(n)
    BY <1>3, UpTyped DEF Inv
  <2> QED
    BY <1>1, <1>3, <2>1, DownTyped, NewHierarchyKnown
<1> QED
  BY <1>2, <1>3

(* Superiors have smaller addresses, so that nobody is above itself.        *)
LEMMA InvForest ==
    ASSUME Inv
    PROVE  Forest
<1> DEFINE top == [address |-> NoNode, superior |-> NoNode, version |-> 0]
           table == [n \in Nodes |-> node[n].hier.this]
           all == [this |-> top, nodes |-> table]
<1>1. ASSUME NEW n \in Nodes PROVE Acyclic(node[n].hier) /\ Acyclic(cache[n])
  <2>1. cache[n] \in HierarchiesOf(n, OwnVersions)
    BY DEF Inv, CachesOK
  <2> QED
    BY <2>1, NodeHierarchy, HierarchyAcyclic
<1>2. ASSUME NEW n \in Nodes PROVE table[n] \in RecordsUpTo(OwnVersions)
  BY NodeHierarchy, HierarchyTyped
<1>3. all.this = top /\ all.nodes = table
  OBVIOUS
<1>4. DOMAIN table = Nodes
  OBVIOUS
<1>5. table = [n \in DOMAIN table |-> table[n]]
  OBVIOUS
<1>6. top.address = NoNode /\ top.superior = NoNode
  OBVIOUS
<1> HIDE DEF all, table, top
<1>7. IsFiniteSet(Range(table))
  <2>1. table \in Surjection(Nodes, Range(table))
    <3>1. \A m \in Nodes : table[m] \in Range(table)
      BY <1>4 DEF Range
    <3>2. table \in [Nodes -> Range(table)]
      BY <1>4, <1>5, <3>1
    <3> QED
      BY <1>4, <3>2 DEF Range, Surjection
  <2>2. IsFiniteSet(Nodes)
    BY DiscoveryAssumption
  <2> QED
    BY <2>1, <2>2, FS_Surjection
<1>8. ASSUME NEW a \in Range(table) \cup {top}
      PROVE  /\ a.address \in Nodes \cup {NoNode} /\ a.superior \in Nodes \cup {NoNode}
             /\ a.address \in Nodes /\ a.superior \in Nodes => a.superior < a.address
  <2>1. CASE a \in Range(table)
    <3>1. a \in RecordsUpTo(OwnVersions)
      BY <1>2, <1>4, <2>1 DEF Range
    <3>2. a \in Records /\ (a.superior \in Nodes => a.superior < a.address)
      BY <3>1 DEF RecordsUpTo
    <3> QED
      BY <3>2, RecordTyped
  <2>2. CASE a = top
    BY <1>6, <2>2, DiscoveryAssumption
  <2> QED
    BY <2>1, <2>2
<1>9. Acyclic(all)
  BY <1>3, <1>7, <1>8, NoCycle
<1> QED
  BY <1>1, <1>9 DEF Forest, all, table, top

(* A hierarchy has the type that TypeOK says.                               *)
LEMMA HierarchyIs ==
    ASSUME NEW v, NEW n, NEW h \in HierarchiesOf(n, v)
    PROVE  IsHierarchy(h, n)
<1>1. /\ h.this \in RecordsUpTo(v) /\ h.this.address = n
      /\ Known(h) \in SUBSET (Nodes \ {n})
      /\ \A m \in Known(h) : h.nodes[m] \in RecordsUpTo(v) /\ h.nodes[m].address = m
  BY HierarchyTyped
<1> QED
  BY <1>1 DEF IsHierarchy, RecordsUpTo

(* The invariant has the types that TypeOK says.                            *)
LEMMA InvTypeOK ==
    ASSUME Inv
    PROVE  TypeOK
<1>1. ASSUME NEW n \in Nodes
      PROVE  /\ node[n].state \in {"down", "initial", "waiting"}
             /\ node[n].next \in 1..Len(Probes[n]) + 1
             /\ node[n].attempts \in 0..MaxAttempts - 1
             /\ node[n].timers \in 0..MaxTimers
  <2>1. CASE n \in Up
    <3>1. node[n] \in Discoverers(n, OwnVersions)
      BY <2>1, UpTyped DEF Inv
    <3> QED
      BY <3>1 DEF Discoverers
  <2>2. CASE n \notin Up
    <3>1. node[n] = Down(n)
      BY <2>2, UpTyped DEF Inv
    <3>2. Len(Probes[n]) \in Nat
      BY ProbesBefore
    <3>3. 0 \in 0..MaxAttempts - 1 /\ 0 \in 0..MaxTimers /\ 1 \in 1..Len(Probes[n]) + 1
      BY <3>2, DiscoveryAssumption
    <3> QED
      BY <3>1, <3>3, DownTyped
  <2> QED
    BY <2>1, <2>2
<1>2. ASSUME NEW n \in Nodes PROVE IsHierarchy(node[n].hier, n) /\ IsHierarchy(cache[n], n)
  <2>1. cache[n] \in HierarchiesOf(n, OwnVersions)
    BY DEF Inv, CachesOK
  <2> QED
    BY <2>1, NodeHierarchy, HierarchyIs
<1>3. ASSUME NEW l \in net.links PROVE Cardinality(l) = 2 /\ l \subseteq Up
  <2>1. LinksOK(net.links, Up)
    BY NetworkTyped DEF Inv
  <2>2. PICK a \in Up, b \in Up : a # b /\ l = {a, b}
    BY <2>1 DEF LinksOK
  <2>3. IsFiniteSet({a}) /\ Cardinality({a}) = 1
    BY FS_Singleton
  <2>4. Cardinality({a} \cup {b}) = Cardinality({a}) + 1
    BY <2>2, <2>3, FS_AddElement
  <2>5. l = {a} \cup {b}
    BY <2>2
  <2>6. Cardinality(l) = 1 + 1
    BY <2>3, <2>4, <2>5
  <2> QED
    BY <2>2, <2>6
<1>4. started \subseteq Nodes /\ crashes \in 0..MaxCrashes
  BY DEF Inv
<1> QED
  BY <1>1, <1>2, <1>3, <1>4 DEF TypeOK

(* The invariant says of the version in the cache what ViewsNotAhead says   *)
(* of that a node has.                                                      *)
LEMMA InvViews ==
    ASSUME Inv
    PROVE  ViewsNotAhead
<1>1. ASSUME NEW n \in Nodes PROVE OwnVersion(n) = OwnVersions[n]
  <2>1. OwnVersions[n] = cache[n].this.version
    BY VersionsTyped DEF Inv
  <2> QED
    BY <2>1, NodeHierarchy DEF OwnVersion
<1>2. ASSUME NEW n \in Nodes, NEW m \in Known(node[n].hier)
      PROVE  node[n].hier.nodes[m].version <= OwnVersion(m)
  <2>1. /\ node[n].hier.nodes[m] \in RecordsUpTo(OwnVersions)
        /\ node[n].hier.nodes[m].address = m /\ m \in Nodes
    BY NodeHierarchy, HierarchyTyped
  <2> QED
    BY <1>1, <2>1 DEF RecordsUpTo
<1>3. ASSUME NEW n \in Nodes, NEW m \in Nodes, NEW i \in DOMAIN net.events[n][m],
             net.events[n][m][i].type \in {"probe", "hierarchy", "reply"},
             NEW a \in net.events[n][m][i].records
      PROVE  a.version <= OwnVersion(a.address)
  <2>1. net.events[n][m][i] \in EventsOf(n, m, OwnVersions)
    BY EventKnown
  <2>2. net.events[n][m][i].records \in SUBSET RecordsUpTo(OwnVersions)
    BY <1>3, <2>1, EventKinds
  <2>3. a \in RecordsUpTo(OwnVersions)
    BY <2>2
  <2>4. a.version <= OwnVersions[a.address] /\ a.address \in Nodes
    BY <2>3, RecordTyped DEF RecordsUpTo
  <2> QED
    BY <1>1, <2>4
<1> QED
  BY <1>2, <1>3 DEF ViewsNotAhead

(* TypeOK: the fields of the discoverers, of their hierarchies and of the   *)
(* caches have their types; a node is never filed in its own hierarchy, and *)
(* connections are between nodes that are up.                               *)
THEOREM TypeCorrect == Spec => []TypeOK
<1>1. Inv => TypeOK
  BY InvTypeOK
<1> QED
  BY <1>1, InvInvariance, PTL

(* Forest: no node is above itself in the tree, in what a node holds of it  *)
(* or in a cache, so that the traversals of a hierarchy end (hierarchy.hh,  *)
(* traverse()), for any number of nodes, any fan-out and any order of       *)
(* messages.                                                                *)
THEOREM NoNodeAboveItself == Spec => []Forest
<1>1. Inv => Forest
  BY InvForest
<1> QED
  BY <1>1, InvInvariance, PTL

(* ViewsNotAhead: nobody has, or is about to receive, a record of a node    *)
(* with a higher version than that node's own, although it may have crashed *)
(* between any two handlers and started again from its cache                *)
(* (write_cache(), read_cache()).                                           *)
THEOREM VersionsNotAhead == Spec => []ViewsNotAhead
<1>1. Inv => ViewsNotAhead
  BY InvViews
<1> QED
  BY <1>1, InvInvariance, PTL

(* IteratorVisitsAll: the nodes that the iterator of a node visits are all  *)
(* those before it in the tree, each once and its parent first, for any     *)
(* fan-out and any position up to MaxPosition.                              *)
THEOREM IteratorComplete == Spec => []IteratorVisitsAll
<1>1. IteratorVisitsAll
  <2>1. \A p, f \in 1..MaxPosition : p \in Nat \ {0} /\ f \in Nat \ {0}
    BY DiscoveryAssumption
  <2> QED
    BY <2>1, VisitsAll DEF IteratorVisitsAll
<1> QED
  BY <1>1, PTL

(* A node that is up never stops looking.                                   *)
Searching == \A n \in Up : Searches(n) \in Nat /\ Searches(n) >= 1

(* A node that is up always waits for a timer or a probe: its search for a  *)
(* superior never ends by itself (discover_later() and the returns of       *)
(* process_kernel()).                                                       *)
THEOREM SearchNeverStops == Spec => []Searching
<1>1. Init => Searching
  <2>1. Init => Up = {}
    <3>1. ASSUME Init PROVE \A n \in Nodes : node[n].state = "down"
      BY <3>1, DownTyped DEF Init, Down
    <3> QED
      BY <3>1 DEF Up
  <2> QED
    BY <2>1 DEF Searching
<1>2. Inv /\ Searching /\ [Next]_vars => Searching'
  <2>1. ASSUME Inv, Searching, Next PROVE Searching'
    <3>1. ASSUME NEW n \in Up' PROVE Searches(n)' \in Nat /\ Searches(n)' >= 1
      <4>1. n \in Nodes
        BY DEF Up
      <4>2. \/ Searches(n)' = IF n \in Up THEN Searches(n) ELSE 1
            \/ n \in Up /\ Moving(n) /\ Searches(n)' = Searches(n) + 1
        BY <2>1, <4>1, NextInv DEF SearchStep
      <4>3. n \in Up => Searches(n) \in Nat /\ Searches(n) >= 1
        BY <2>1 DEF Searching
      <4> QED
        BY <4>2, <4>3
    <3> QED
      BY <3>1 DEF Searching
  <2>2. ASSUME Searching, UNCHANGED vars PROVE Searching'
    <3>1. node' = node /\ net' = net
      BY <2>2 DEF vars
    <3> QED
      BY <2>2, <3>1 DEF Searching, Searches, Up
  <2> QED
    BY <2>1, <2>2
<1> QED
  BY <1>1, <1>2, InvInvariance, PTL DEF Spec
=============================================================================
