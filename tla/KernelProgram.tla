--------------------------- MODULE KernelProgram ---------------------------
(***************************************************************************)
(* What the act() and the react() of an application's kernel may do to the *)
(* rest of the program (subordination/api.hh): send children with          *)
(* upstream(), write to arrays they share with other kernels of the        *)
(* process, and commit().                                                  *)
(*                                                                         *)
(* A kernel is named by its path: the tasks that lead to it from the main  *)
(* kernel, each a type and a key (constructor arguments).                  *)
(***************************************************************************)
EXTENDS Integers, SequencesExt

Task(type, key) == [type |-> type, key |-> key]

Upstream(data, children) ==
    [data |-> data, children |-> children, writes |-> {}, code |-> "undefined"]

Commit(data) == [Upstream(data, <<>>) EXCEPT !.code = "success"]

\* act() or react() throws
Throw(data) == [Upstream(data, <<>>) EXCEPT !.code = "error"]

\* the usual end of react(): commit when the last child has come back
CommitWhen(last, data) == IF last THEN Commit(data) ELSE Upstream(data, <<>>)

\* children of one type, one for each key, in the order of the keys
Children(type, keys) == [i \in DOMAIN keys |-> Task(type, keys[i])]

Total(f) == FoldSet(LAMBDA x, sum : sum + f[x], 0, DOMAIN f)

Least(S) == CHOOSE x \in S : \A y \in S : x <= y

=============================================================================
