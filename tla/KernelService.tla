---------------------------- MODULE KernelService ----------------------------
(***************************************************************************)
(* What the parent of a kernel is promised by the pipelines, whatever      *)
(* network, peers and connections are behind them: a child kernel that was *)
(* sent is handed back to its parent at most once, it is never handed back *)
(* after it has been thrown away, and it is thrown away only when the      *)
(* pipeline is being stopped.                                              *)
(***************************************************************************)
CONSTANT Kernels          \* the child kernels that parents create

VARIABLES
    status,               \* what the parent knows about each of its children
    closing               \* the pipeline has been asked to stop

vars == <<status, closing>>

Statuses == {"fresh", "pending", "returned", "discarded"}

Pending == {k \in Kernels : status[k] = "pending"}

TypeOK == status \in [Kernels -> Statuses] /\ closing \in BOOLEAN

Init ==
    /\ status = [k \in Kernels |-> "fresh"]
    /\ closing = FALSE

(* A parent sends new children: one, or an array of them.                  *)
Submit(S) ==
    /\ S # {}
    /\ \A k \in S : status[k] = "fresh"
    /\ status' = [k \in Kernels |-> IF k \in S THEN "pending" ELSE status[k]]
    /\ UNCHANGED closing

(* Children R come back to their parents, and children D are thrown away.  *)
(* The loss of one connection can settle several kernels in one step.      *)
Settle(R, D) ==
    /\ R \cup D # {}
    /\ R \cap D = {}
    /\ D # {} => closing
    /\ status' = [k \in Kernels |-> IF k \in R THEN "returned"
                                    ELSE IF k \in D THEN "discarded"
                                    ELSE status[k]]
    /\ UNCHANGED closing

Close ==
    /\ closing' = TRUE
    /\ UNCHANGED status

Next ==
    \/ \E S \in SUBSET Kernels : Submit(S)
    \/ \E R, D \in SUBSET Pending : Settle(R, D)
    \/ Close

Spec == Init /\ [][Next]_vars
=============================================================================
