---------------------------- MODULE MCKernelStream ----------------------------
(***************************************************************************)
(* An application behind one daemon sends kernels to an application behind *)
(* another.  The daemon reads them from a pipe and passes them on through  *)
(* a socket, to which another process writes as well.                      *)
(***************************************************************************)
EXTENDS KernelStream

CONSTANTS k1, k2, pipe, socket, far, daemon

MCTarget == [k \in Kernels |-> far]
MCFirst == [k \in Kernels |-> IF k = k1 THEN pipe ELSE socket]
MCReader == [c \in Connections |-> IF c = pipe THEN daemon ELSE far]
MCForward == [c \in Connections |-> [a \in Applications |-> socket]]
=============================================================================
