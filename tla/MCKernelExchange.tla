--------------------------- MODULE MCKernelExchange ---------------------------
(* Small instances of KernelExchange: the children of two parents, one of  *)
(* them a weightless service kernel sent to a peer its parent chose.       *)
EXTENDS KernelExchange

CONSTANTS ada, bob, p1, p2, none, k1, k2, k3

MC_Parents == {ada, bob}
MC_ParentOf == [k \in Kernels |-> IF k = k2 THEN bob ELSE ada]
MC_Destination == [k \in Kernels |-> IF k = k3 THEN p1 ELSE none]
MC_Weight == [k \in Kernels |-> CASE k = k1 -> 1 [] k = k2 -> 2 [] k = k3 -> 0]
MC_PointToPoint == {k3}
=============================================================================
