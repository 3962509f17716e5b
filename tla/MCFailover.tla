------------------------------ MODULE MCFailover ------------------------------
(* Two nodes, 0 standing for none. *)
EXTENDS Failover

MCNodes == {1, 2}
MCMaxFailures == (1 :> 3) @@ (2 :> 1)
===============================================================================
