-------------------------- MODULE MCParallelPipeline --------------------------
(* Small instances of ParallelPipeline: a main kernel with two children,   *)
(* one of which is scheduled and the other has a child itself.             *)
EXTENDS ParallelPipeline

CONSTANTS main, a, b, c, none, u1, u2, d1, d2, timer_thread

MC_ParentOf == [k \in Kernels |-> CASE k = main -> none [] k = c -> a [] OTHER -> main]
MC_At == [k \in Scheduled |-> 1]
MC_Layouts == {{}, {d1, d2}}
MC_SlotByAddress == [layout \in Layouts |-> [k \in Kernels \cup {none} |->
    IF layout = {} THEN IF k = a THEN u2 ELSE u1
                   ELSE IF k \in {main, c} THEN d1 ELSE d2]]
MC_SlotById == [layout \in Layouts |-> [k \in Kernels \cup {none} |->
    IF layout = {} THEN u2 ELSE d2]]
=============================================================================
