---------------------------- MODULE TreeIterator ----------------------------
(***************************************************************************)
(* The order in which a node looks for a superior: daemon/position_in_tree *)
(* and daemon/tree_hierarchy_iterator.  The addresses of a network, 1, 2,  *)
(* 3, ..., fill a tree of a given fan-out layer by layer.  A node at       *)
(* position p visits its parent, then the rest of the layers above it from *)
(* the parent's layer up to the root, then the nodes of its own layer      *)
(* before it.                                                              *)
(***************************************************************************)
EXTENDS Naturals, Sequences

\* Number of nodes of layer l, and of the layers above it.
NumNodes(l, fanout) ==
    LET nodes[i \in Nat] == IF i = 0 THEN 1 ELSE nodes[i - 1] * fanout
    IN  nodes[l]

NodesAbove(l, fanout) ==
    LET above[i \in Nat] == IF i = 0 THEN 0 ELSE above[i - 1] + NumNodes(i - 1, fanout)
    IN  above[l]

\* position_in_tree(linear_pos, fanout): linear positions start at 1, and a
\* layer of a tree with at least one node per layer is at most p - 1.
PositionInTree(p, fanout) ==
    LET layer == CHOOSE l \in 0..p - 1 :
                    /\ NodesAbove(l, fanout) < p
                    /\ p <= NodesAbove(l, fanout) + NumNodes(l, fanout)
    IN  [layer |-> layer, offset |-> p - NodesAbove(layer, fanout) - 1]

\* The address of a position: the beginning of the network plus
\* to_position_in_address_range().
ToAddress(pos, fanout) == NodesAbove(pos.layer, fanout) + pos.offset + 1

IsRoot(pos) == pos.layer = 0 /\ pos.offset = 0

IsLast(pos, fanout) == pos.offset = NumNodes(pos.layer, fanout) - 1

Increment(pos, fanout) ==
    IF IsLast(pos, fanout) THEN [layer |-> pos.layer + 1, offset |-> 0]
                           ELSE [pos EXCEPT !.offset = @ + 1]

DecrementLayer(pos) ==
    IF pos.layer > 0 THEN [layer |-> pos.layer - 1, offset |-> 0] ELSE pos

-----------------------------------------------------------------------------
(***************************************************************************)
(* The iterator: its fields, and next().  The address of an iterator that  *)
(* has not moved yet is 0.                                                 *)
(***************************************************************************)
IteratorStates == {"initial", "traversing_parent_node", "traversing_upper_layers",
                   "traversing_base_layer", "end"}

NewIterator(p, fanout) ==
    LET base == PositionInTree(p, fanout)
    IN  [fanout |-> fanout, base |-> base,
         parent |-> IF base.layer = 0 THEN base
                    ELSE [layer |-> base.layer - 1, offset |-> base.offset \div fanout],
         current |-> base, address |-> 0, state |-> "initial", old |-> "initial"]

SetState(it, s) == [it EXCEPT !.old = it.state, !.state = s]

MoveTo(it, pos) == [it EXCEPT !.current = pos, !.address = ToAddress(pos, it.fanout)]

InitialStep(it) ==
    SetState(it, IF it.base.layer = 0 THEN "end" ELSE "traversing_parent_node")

TraverseParentNode(it) ==
    SetState(MoveTo(it, it.parent), "traversing_upper_layers")

AdvanceUpper(pos, fanout) ==
    IF IsLast(pos, fanout) THEN DecrementLayer(pos) ELSE Increment(pos, fanout)

\* (A slip: the parent is visited a second time.)
TraverseUpperLayers_ParentTwice(it) ==
    LET entered == it.state # it.old
        pos     == IF entered THEN [layer |-> it.parent.layer, offset |-> 0]
                              ELSE AdvanceUpper(it.current, it.fanout)
        moved   == MoveTo([it EXCEPT !.old = it.state], pos)
    IN  IF IsRoot(pos) THEN SetState(moved, "traversing_base_layer") ELSE moved

\* The parent, which came first, is skipped.
TraverseUpperLayers(it) ==
    LET entered == it.state # it.old
        pos     == IF entered THEN [layer |-> it.parent.layer, offset |-> 0]
                              ELSE AdvanceUpper(it.current, it.fanout)
        skipped == IF pos = it.parent THEN AdvanceUpper(pos, it.fanout) ELSE pos
        moved   == MoveTo([it EXCEPT !.old = it.state], skipped)
    IN  IF IsRoot(skipped) THEN SetState(moved, "traversing_base_layer") ELSE moved

\* (A slip: the whole layer is visited and not only the nodes before this one.)
TraverseBaseLayer_WholeLayer(it) ==
    LET entered == it.state # it.old
        next    == IF entered THEN [layer |-> it.base.layer, offset |-> 0]
                              ELSE Increment(it.current, it.fanout)
        pos     == IF next = it.base THEN Increment(next, it.fanout) ELSE next
        moved   == MoveTo([it EXCEPT !.old = it.state], pos)
    IN  IF pos.layer > it.base.layer THEN SetState(moved, "end") ELSE moved

TraverseBaseLayer(it) ==
    LET entered == it.state # it.old
        pos     == IF entered THEN [layer |-> it.base.layer, offset |-> 0]
                              ELSE Increment(it.current, it.fanout)
        moved   == MoveTo([it EXCEPT !.old = it.state], pos)
    IN  IF pos = it.base THEN SetState(moved, "end") ELSE moved

IteratorStep(it) ==
    CASE it.state = "initial"                 -> InitialStep(it)
      [] it.state = "traversing_parent_node"  -> TraverseParentNode(it)
      [] it.state = "traversing_upper_layers" -> TraverseUpperLayers(it)
      [] it.state = "traversing_base_layer"   -> TraverseBaseLayer(it)
      [] it.state = "end"                     -> it

\* next() repeats the step until the address changes: two steps that leave the
\* address alone never follow each other except in the two first states and at
\* the root, so that four are enough.
NextAddress(it) ==
    LET after[i \in 1..4] ==
            LET before == IF i = 1 THEN it ELSE after[i - 1]
                done   == i > 1 /\ (\/ before.state = "end"
                                    \/ before.address # it.address)
            IN  IF done THEN before ELSE IteratorStep(before)
    IN  after[4]

\* The addresses an iterator of position p yields, in order.
Addresses(p, fanout) ==
    LET iterator[i \in 0..p] == IF i = 0 THEN NextAddress(NewIterator(p, fanout))
                                         ELSE NextAddress(iterator[i - 1])
        live == {i \in 0..p : iterator[i].state # "end"}
    IN  [i \in {j + 1 : j \in live} |-> iterator[i - 1].address]

-----------------------------------------------------------------------------
(***************************************************************************)
(* What the iterator must yield, stated without it.                        *)
(***************************************************************************)

\* The parent of position p in a tree of this fan-out.
ParentAddress(p, fanout) == (p - 2) \div fanout + 1

\* Every address before p is visited exactly once, and the parent first.
VisitsAllBefore(p, fanout) ==
    LET a == Addresses(p, fanout)
    IN  /\ DOMAIN a = 1..(p - 1)
        /\ {a[i] : i \in DOMAIN a} = 1..(p - 1)
        /\ p > 1 => a[1] = ParentAddress(p, fanout)
=============================================================================
