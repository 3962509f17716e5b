------------------------------- MODULE Client -------------------------------
(***************************************************************************)
(* The tool sbnc and what the daemon does for it: run an application, list *)
(* the nodes, jobs or kernels, cancel jobs, and the transaction test (-T), *)
(* which runs an application, collects the records that other daemons have *)
(* of it and recovers them.                                                *)
(*                                                                         *)
(* s.arguments is the command line; s.connected: the daemon answers at its *)
(* socket; s.jobs: the jobs it has processes for; s.exit_code: of the      *)
(* application; s.logs: for each node the daemon is connected to, the      *)
(* records of its transaction log.                                         *)
(***************************************************************************)
EXTENDS KernelProgram

ClientTypes == {"Sbnc", "Foreign_main", "Status_kernel", "Job_status", "Pipeline_status",
                "Transaction_test", "Gather_superior", "Gather_subordinate"}

JobIds == {"1", "2"}
EntityTypes == {"node", "job", "kernel"}
Formats == {"human", "rec"}

-----------------------------------------------------------------------------
(* The command line                                                        *)

Command(s) ==
    CASE s.arguments[1] = "select" -> "Status"
      [] s.arguments[1] = "cancel" -> "Delete"
      [] OTHER                     -> "Submit"

\* without the word `submit' the application begins at once
Arguments(s) ==
    IF s.arguments[1] \in {"submit", "select", "cancel"} THEN Tail(s.arguments) ELSE s.arguments

\* Submit::Submit(): options up to the first argument that is none
SubmitOptions(s) ==
    LET read(o, a) ==
            CASE o.state = "filter"               -> [o EXCEPT !.state = "options"]
              [] o.state = "options" /\ a = "-T"  -> [o EXCEPT !.test = TRUE]
              [] o.state = "options" /\ a = "-r"  -> [o EXCEPT !.state = "filter"]
              [] OTHER -> [o EXCEPT !.state = "arguments", !.arguments = Append(@, a)]
        init == [state |-> "options", test |-> FALSE, arguments |-> <<>>]
        options == FoldLeft(read, init, Arguments(s))
    IN  [options EXCEPT !.state = IF @ = "filter" THEN "bad" ELSE "good"]

Bad(o) == [o EXCEPT !.state = "bad"]

\* Status::Status(): `cancel' takes job ids up to the next option
StatusOptions(s) ==
    LET delete == Command(s) = "Delete"
        id(o, a) == IF a \in JobIds THEN [o EXCEPT !.job_ids = @ \cup {a}, !.state = "ids"] ELSE Bad(o)
        read(o, a) ==
            CASE o.state = "bad"    -> o
              [] o.state = "entity" -> IF a \in EntityTypes
                                       THEN [o EXCEPT !.entity = a, !.state = "options"] ELSE Bad(o)
              [] o.state = "format" -> IF a \in Formats
                                       THEN [o EXCEPT !.state = "options"] ELSE Bad(o)
              [] a = "-t" /\ o.state \in {"options", "ids"} -> [o EXCEPT !.state = "entity"]
              [] a = "-o" /\ o.state \in {"options", "ids"} -> [o EXCEPT !.state = "format"]
              [] OTHER -> IF delete THEN id(o, a) ELSE Bad(o)
        init == [state |-> "options", entity |-> "node", job_ids |-> {}]
        options == FoldLeft(read, init, Arguments(s))
    IN  IF options.state \in {"entity", "format"} THEN Bad(options) ELSE options

-----------------------------------------------------------------------------
(* The kernel of sbnc                                                      *)

NoReply == [reply |-> "none"]

\* an application without arguments cannot be made
SubmitAct(s) ==
    LET o == SubmitOptions(s)
        type == IF o.test THEN "Transaction_test" ELSE "Foreign_main"
    IN  IF o.state = "bad" \/ o.arguments = <<>> THEN Throw(NoReply)
        ELSE Upstream(NoReply, <<Task(type, "submitted")>>)

\* sbnc ends with the exit code of the application, or of the test kernel
SubmitReact(child) == [Commit(child) EXCEPT !.code = child.reply]

StatusAct(s) ==
    LET o == StatusOptions(s)
    IN  CASE o.state = "bad"     -> Throw(NoReply)
          [] o.entity = "node"   -> Upstream(NoReply, <<Task("Status_kernel", 0)>>)
          [] o.entity = "job"    -> Upstream(NoReply, <<Task("Job_status", o.job_ids)>>)
          [] o.entity = "kernel" -> Upstream(NoReply, <<Task("Pipeline_status", 0)>>)

\* return_to_parent() keeps the return code of a child that failed
StatusReact(child) == [Commit(child) EXCEPT !.code = child.reply]

-----------------------------------------------------------------------------
(* The daemon                                                              *)

\* a kernel that does not reach the daemon returns at once
AtDaemon(s, effect) ==
    IF s.connected THEN effect ELSE Commit([reply |-> "endpoint_not_connected"])

\* Main::report_status()
ReportStatus(s) == Commit([reply |-> "success", hierarchies |-> {s.node}])

\* Main::report_job_status(): removes the jobs, then lists those left
ReportJobStatus(s, job_ids) == Commit([reply |-> "success", jobs |-> s.jobs \ job_ids])

\* the kernels that wait for a reply on a connection, and those on none
Collect(s) == [connections |-> s.kernels.upstream, kernels |-> s.kernels.queued]

\* operator<< leaves out the kernels that are on no connection
ReportPipelineStatus(s) ==
    Commit([reply |-> "success", connections |-> Collect(s).connections])

\* the main kernel of an application; the code is that of its last commit
ForeignMainAct(s) == Commit([reply |-> s.exit_code])

-----------------------------------------------------------------------------
(* The transaction test                                                    *)

TransactionTestAct ==
    Upstream([reply |-> "none", exit_codes |-> <<>>, gathered |-> FALSE, records |-> <<>>],
             <<Task("Foreign_main", "first")>>)

\* transaction_log::recover() moves the kernels out of the records it is given
Recover(d) ==
    LET left == SelectSeq(d.records, LAMBDA r : r # "moved")
    IN  Upstream([d EXCEPT !.records = [i \in DOMAIN @ |-> "moved"]],
                 Children("Foreign_main", left))

TransactionTestEnd(d) == Commit([d EXCEPT !.reply = "success"])

\* The first main kernel gives the exit code, later ones are those of
\* recovered records: each takes a record away.
TransactionTestReact(d, child) ==
    LET back == [d EXCEPT !.exit_codes = Append(@, child.reply)]
        gathered == [d EXCEPT !.gathered = TRUE, !.records = child.records]
    IN  CASE child.reply = "gathered" -> IF child.records = <<>> THEN TransactionTestEnd(gathered)
                                         ELSE Recover(gathered)
          [] d.exit_codes = <<>>      -> Upstream(back, <<Task("Gather_superior", 0)>>)
          [] d.records = <<>>         -> TransactionTestEnd(d)
          [] OTHER                    -> Recover([d EXCEPT !.records = Front(@)])

\* one kernel for each node the daemon is connected to
GatherSuperiorAct(s) ==
    LET nodes == DOMAIN s.logs
    IN  Upstream([reply |-> "gathered", nkernels |-> Cardinality(nodes), records |-> <<>>],
                 Children("Gather_subordinate", SetToSeq(nodes)))

\* a kernel that several nodes have a record of is recovered once
GatherSuperiorReact(d, child) ==
    LET new == SelectSeq(child.records, LAMBDA r : r \notin Range(d.records))
        merged == [d EXCEPT !.nkernels = @ - 1, !.records = @ \o new]
    IN  CommitWhen(merged.nkernels = 0, merged)

\* transaction_log::select(): the records of the application
Select(s, node) == s.logs[node]

GatherSubordinateAct(s, node) == Commit([reply |-> "success", records |-> Select(s, node)])

-----------------------------------------------------------------------------
ClientActed(s, task) ==
    CASE task.type = "Sbnc"               -> IF Command(s) = "Submit" THEN SubmitAct(s) ELSE StatusAct(s)
      [] task.type = "Foreign_main"       -> AtDaemon(s, ForeignMainAct(s))
      [] task.type = "Status_kernel"      -> AtDaemon(s, ReportStatus(s))
      [] task.type = "Job_status"         -> AtDaemon(s, ReportJobStatus(s, task.key))
      [] task.type = "Pipeline_status"    -> AtDaemon(s, ReportPipelineStatus(s))
      [] task.type = "Transaction_test"   -> AtDaemon(s, TransactionTestAct)
      [] task.type = "Gather_superior"    -> GatherSuperiorAct(s)
      [] task.type = "Gather_subordinate" -> GatherSubordinateAct(s, task.key)

ClientReacted(s, task, d, child) ==
    CASE task.type = "Sbnc"             -> IF Command(s) = "Submit" THEN SubmitReact(child)
                                           ELSE StatusReact(child)
      [] task.type = "Transaction_test" -> TransactionTestReact(d, child)
      [] task.type = "Gather_superior"  -> GatherSuperiorReact(d, child)

\* the records of all connected nodes, each once
RecordsOf(s) == UNION {Range(s.logs[n]) : n \in DOMAIN s.logs}

ClientExact(s, task, d) ==
    CASE task.type = "Transaction_test" /\ s.connected -> d.exit_codes = <<s.exit_code>>
      [] task.type = "Gather_superior" ->
            /\ Range(d.records) = RecordsOf(s)
            /\ Len(d.records) = Cardinality(RecordsOf(s))
      [] OTHER -> TRUE

\* The test has another node to ask and finds no record: after a recovery it
\* waits for one main kernel more than there are records.
ClientHasWork(s) ==
    Command(s) = "Submit" /\ SubmitOptions(s).test /\ s.connected =>
        DOMAIN s.logs # {} /\ RecordsOf(s) = {}

=============================================================================
