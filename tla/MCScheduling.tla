---------------------------- MODULE MCScheduling ----------------------------
(* Small instances of Scheduling: a root with two subordinates; node 3 has *)
(* two threads and the tag 2.                                              *)
EXTENDS Scheduling

MC_Star == (1 :> NoNode) @@ (2 :> 1) @@ (3 :> 1)

MC_Node == [n \in Nodes |->
    [resources |-> [total_threads |-> U64(IF n = 3 THEN 2 ELSE 1)],
     names |-> IF n = 3 THEN "tag" :> U64(2) ELSE [x \in {} |-> U64(0)]]]

MC_Home == [k \in Kernels |-> 1]

MC_NoFilter == Leaf("Constant", Boolean(TRUE))

\* The filter of daemon/resources_test_application.
MC_Tagged == Binary("Equal", Leaf("Name", "tag"), Leaf("Constant", U64(2)))

MC_WeightOf == [k \in Kernels |-> CASE k = "whole" -> MaxWeight
                                     [] k = "filed" -> 1
                                     [] OTHER -> 2]
MC_FilterOf == [k \in Kernels |-> IF k = "tagged" THEN MC_Tagged ELSE NoFilter]
MC_FilesOf == [k \in Kernels |-> IF k = "filed" THEN {1, 3} ELSE {}]

MC_Leaves == {Leaf("Symbol", "total_threads"), Leaf("Name", "tag"),
              Leaf("Constant", U64(2)), Leaf("Constant", Boolean(TRUE)),
              Leaf("Constant", U64(MaxInteger)), Leaf("Constant", String(<<"a", "b">>))}
MC_Shallow == MC_Leaves \cup {Unary("Not", e) : e \in MC_Leaves}
                \cup {Binary(op, a, b) : op \in BinaryOps, a \in MC_Leaves, b \in MC_Leaves}
MC_Expressions == MC_Shallow \cup {Binary("And", a, Unary("Not", b)) :
                                       a \in MC_Shallow, b \in {MC_Tagged} \cup MC_Leaves}
=============================================================================
