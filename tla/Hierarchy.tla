------------------------------ MODULE Hierarchy ------------------------------
(***************************************************************************)
(* What a node knows of the tree: daemon/hierarchy and                     *)
(* daemon/hierarchy_node.  A hierarchy is the record of this node and the  *)
(* records of the other nodes by address.  A record says who the superior  *)
(* of a node is, in a version that only that node increments.              *)
(***************************************************************************)
EXTENDS Naturals, FiniteSets, Functions

CONSTANTS Nodes,         \* the addresses
          NoNode         \* an empty address

Records == [address : Nodes, superior : Nodes \cup {NoNode}, version : Nat]

\* The constructor of the class, before the node has any resources.
NewHierarchy(n) ==
    [this |-> [address |-> n, superior |-> NoNode, version |-> 0],
     nodes |-> [m \in {} |-> NoNode]]

Known(h) == DOMAIN h.nodes

-----------------------------------------------------------------------------
(***************************************************************************)
(* The operations that change a hierarchy.  Each returns whether it has    *)
(* changed anything, the reason for its caller to tell the other nodes.    *)
(***************************************************************************)

\* A table in which some records are new or take the place of others.
Replaced(nodes, taken) ==
    [m \in DOMAIN taken \cup DOMAIN nodes |->
        IF m \in DOMAIN taken THEN taken[m] ELSE nodes[m]]

\* (A slip: the node files the record that others have of it.)
AddNodes_OwnRecord(h, records) ==
    LET newer == {a \in records : a.address \notin Known(h)
                                     \/ h.nodes[a.address].version < a.version}
        taken == [m \in {a.address : a \in newer} |->
                     CHOOSE a \in newer : a.address = m]
    IN  [h |-> [h EXCEPT !.nodes = Replaced(h.nodes, taken)], changed |-> newer # {}]

\* Records are taken over when they are new, and replaced by higher versions.
AddNodes(h, records) ==
    LET others == {a \in records : a.address # h.this.address}
        newer  == {a \in others : \/ a.address \notin Known(h)
                                  \/ h.nodes[a.address].version < a.version}
        taken  == [m \in {a.address : a \in newer} |->
                      CHOOSE a \in newer : a.address = m]
    IN  [h |-> [h EXCEPT !.nodes = Replaced(h.nodes, taken)], changed |-> newer # {}]

AddSuperior(h, m) ==
    IF h.this.superior = m THEN [h |-> h, changed |-> FALSE]
    ELSE [h |-> [h EXCEPT !.this = [address |-> @.address, superior |-> m,
                                    version |-> @.version + 1]],
          changed |-> TRUE]

\* The version of the subordinate belongs to the subordinate and stays.
AddSubordinate(h, m) ==
    IF h.nodes[m].superior = h.this.address THEN [h |-> h, changed |-> FALSE]
    ELSE [h |-> [h EXCEPT !.nodes[m].superior = h.this.address], changed |-> TRUE]

\* (A slip: the superior of this node is not compared.)
RemoveNode_OnlySubordinates(h, m) ==
    LET isSubordinate == m \in Known(h) /\ h.nodes[m].superior = h.this.address
    IN  [h |-> IF isSubordinate THEN [h EXCEPT !.nodes[m].superior = NoNode] ELSE h,
         changed |-> isSubordinate]

\* A node that goes, as superior or as subordinate, keeps its record.  The
\* version of this node stays when it loses its superior, and a superior
\* without a record is forgotten without a word.
RemoveNode(h, m) ==
    LET orphan == IF h.this.superior = m THEN [h EXCEPT !.this.superior = NoNode] ELSE h
        isSubordinate == m \in Known(h) /\ h.nodes[m].superior = h.this.address
    IN  [h |-> IF isSubordinate THEN [orphan EXCEPT !.nodes[m].superior = NoNode]
                                ELSE orphan,
         changed |-> m \in Known(h) /\ (h.this.superior = m \/ isSubordinate)]

\* New resources of this node.
SetResources(h) == [h EXCEPT !.this.version = @ + 1]

-----------------------------------------------------------------------------
(***************************************************************************)
(* Traversals: the nodes below and above one, and both up to a radius.     *)
(***************************************************************************)
Below(h, from, depth) ==
    LET layer[i \in 0..depth] ==
            IF i = 0 THEN {from}
            ELSE layer[i - 1] \cup {b \in Range(h.nodes) :
                                        \E a \in layer[i - 1] : b.superior = a.address}
    IN  layer[depth]

Above(h, from, depth) ==
    LET layer[i \in 0..depth] ==
            IF i = 0 THEN {from}
            ELSE layer[i - 1] \cup {b \in Range(h.nodes) :
                                        /\ \E a \in layer[i - 1] : a.superior = b.address
                                        /\ \A x \in layer[i - 1] : x.address # b.address}
    IN  layer[depth]

NodesWithin(h, radius) == Below(h, h.this, radius) \cup Above(h, h.this, radius)

\* The nodes a kernel can reach through the neighbour m.
NodesBehind(h, m) ==
    LET unlimited == Cardinality(Known(h))
    IN  IF m \notin Known(h) THEN {}
        ELSE IF m = h.this.superior THEN Above(h, h.nodes[m], unlimited)
                                    ELSE Below(h, h.nodes[m], unlimited)

\* The superiors in a hierarchy have no cycle; Below does not end otherwise,
\* as its depth in the program is the largest integer.
Acyclic(h) ==
    LET all == Range(h.nodes) \cup {h.this}
        edge == {<<a.address, a.superior>> : a \in all}
        step[i \in 0..Cardinality(all)] ==
            IF i = 0 THEN edge
            ELSE {p \in Nodes \X Nodes :
                    \/ p \in step[i - 1]
                    \/ \E z \in Nodes : <<p[1], z>> \in step[i - 1] /\ <<z, p[2]>> \in edge}
    IN  \A n \in Nodes : <<n, n>> \notin step[Cardinality(all)]
=============================================================================
