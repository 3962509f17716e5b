--------------------------- MODULE MCProcessPipeline ---------------------------
(* Small instances of ProcessPipeline: tasks of two or three applications, *)
(* t1 and t2 of which may need the result of one request.                  *)
EXTENDS ProcessPipeline

CONSTANTS a1, a2, a3, t1, t2, t3, t4, r1, r2, none

MC_AppOf == [t \in Tasks |-> CASE t = t2 -> a2 [] t = t4 -> a3 [] OTHER -> a1]
MC_TaskOf == [r \in Requests |-> IF r = r1 THEN t1 ELSE t2]
MC_Weight == [k \in Kernels |-> IF k \in {t2, t3} THEN 2 ELSE 1]

SetupOf(tasks, main, refused, interleaving, n) ==
    [tasks |-> tasks, main |-> main, refused |-> refused,
     interleaving |-> interleaving, deaths |-> n]

MC_Daemons ==
    {SetupOf({t1, t2, t3}, {}, {}, TRUE, 1), SetupOf({t1, t2, t4}, {t1}, {a3}, FALSE, 0)}
MC_Outstanding == {SetupOf({t1, t2}, {}, {}, TRUE, 0)}
MC_Recovery == {SetupOf({t1, t2}, {}, {}, TRUE, 1)}
=============================================================================
