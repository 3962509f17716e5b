---------------------------- MODULE MCConnections ----------------------------
(* Two neighbours. *)
EXTENDS Connections

CONSTANTS a, b

MCSetups ==
    { [attempts |-> 1, cached |-> {a}, failures |-> 1],
      [attempts |-> 1, cached |-> {}, failures |-> 2],
      [attempts |-> 2, cached |-> {}, failures |-> 1] }
===============================================================================
