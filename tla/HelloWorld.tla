----------------------------- MODULE HelloWorld -----------------------------
(***************************************************************************)
(* The example of the user guide (examples/cpp/hello-world/main.cc): the   *)
(* main kernel sends a number of children to the cluster and adds up the   *)
(* value 1 that each brings back.  s.arguments is the command line.        *)
(***************************************************************************)
EXTENDS KernelProgram

HelloTypes == {"Hello_main", "Child"}

\* Main::read() of a program that the daemon has started
NumChildren(s) == IF Len(s.arguments) = 1 THEN s.arguments[1] ELSE 10

HelloMainAct(s) ==
    LET n == NumChildren(s)
        data == [num_children |-> n, sum |-> 0]
    IN  IF n = 0 THEN Commit(data)
        ELSE Upstream(data, Children("Child", [i \in 1..n |-> i]))

HelloMainReact(d, child) ==
    LET new == [d EXCEPT !.sum = @ + child.value]
    IN  CommitWhen(new.sum = new.num_children, new)

HelloChildAct(number) == Commit([number |-> number, value |-> 1])

HelloActed(s, task) ==
    IF task.type = "Hello_main" THEN HelloMainAct(s) ELSE HelloChildAct(task.key)

HelloReacted(s, task, d, child) == HelloMainReact(d, child)

HelloExact(s, d) == d.sum = NumChildren(s)

=============================================================================
