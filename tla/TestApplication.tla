--------------------------- MODULE TestApplication ---------------------------
(***************************************************************************)
(* The applications that the tests of the daemon run.  A superior kernel   *)
(* sends numbered kernels to the cluster and counts them                   *)
(* (daemon/test_application.cc without a failure); or it asks for nodes    *)
(* with a tag (daemon/resources_test_application.cc).  s.nkernels is the   *)
(* number of kernels, s.tagged whether some node has the tag.  Each kernel *)
(* writes the result of its execution, "success" or "no_resources".        *)
(***************************************************************************)
EXTENDS KernelProgram

TestTypes == {"Superior", "Tag_superior", "Subordinate", "Tag_subordinate"}

SuperiorAct(s) ==
    Upstream([nkernels |-> s.nkernels, nreturned |-> 0, results |-> <<>>],
             Children("Subordinate", [i \in 1..s.nkernels |-> i]))

TagSuperiorAct(s) ==
    Upstream([nkernels |-> s.nkernels, nreturned |-> 0, results |-> <<>>],
             Children("Tag_subordinate", [i \in 1..s.nkernels |-> i]))

SuperiorReact(d, child) ==
    LET new == [d EXCEPT !.nreturned = @ + 1]
    IN  CommitWhen(new.nreturned = new.nkernels, new)

\* also writes the number and the result of each child to the log
TagSuperiorReact(d, child) ==
    SuperiorReact([d EXCEPT !.results = Append(@, <<child.number, child.result>>)], child)

SubordinateAct(number) == Commit([number |-> number, result |-> "success"])

\* the node filter tag = 2 of the child: where no node passes it, the child
\* comes back without being executed
TagSubordinateAct(s, number) ==
    Commit([number |-> number, result |-> IF s.tagged THEN "success" ELSE "no_resources"])

TestActed(s, task) ==
    CASE task.type = "Superior"        -> SuperiorAct(s)
      [] task.type = "Tag_superior"    -> TagSuperiorAct(s)
      [] task.type = "Subordinate"     -> SubordinateAct(task.key)
      [] task.type = "Tag_subordinate" -> TagSubordinateAct(s, task.key)

TestReacted(s, task, d, child) ==
    IF task.type = "Superior" THEN SuperiorReact(d, child) ELSE TagSuperiorReact(d, child)

\* every kernel returns once, executed where there is a node for it
TestExact(s, d) ==
    /\ d.nreturned = s.nkernels
    /\ s.program = "Tag_superior" =>
        Range(d.results) = {<<i, IF s.tagged THEN "success" ELSE "no_resources">> :
                            i \in 1..s.nkernels}

=============================================================================
