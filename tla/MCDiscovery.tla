----------------------------- MODULE MCDiscovery -----------------------------
(* Small instances of Discovery: nodes started in the order of their       *)
(* addresses, as site/introduction.md tells to, or in any order.           *)
EXTENDS Discovery

MC_InOrder == [n \in Nodes |-> {m \in Nodes : m < n}]
MC_AnyOrder == [n \in Nodes |-> {}]
=============================================================================
