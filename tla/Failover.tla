------------------------------- MODULE Failover -------------------------------
(***************************************************************************)
(* How a principal kernel outlives its node.  The kernels it sends one     *)
(* after the other, its steps, carry a copy of it (the flag carries_parent *)
(* of core/kernel_base); connections keep them until they are answered,    *)
(* and the answers after that; the daemon that sends a step writes it to   *)
(* its transaction log.  Nodes crash, connections break and the power      *)
(* fails.                                                                  *)
(*                                                                         *)
(* The scheduler is that of Scheduling: a kernel that carries its parent   *)
(* goes to a neighbour if there is one.  A node is its daemon and the      *)
(* process of the application, which end together; the ids of kernels      *)
(* (see KernelExchange) are unique here.                                   *)
(***************************************************************************)
EXTENDS TransactionLog, FiniteSetsExt, SequencesExt, Functions

CONSTANTS Nodes, NoNode,
          Home,            \* the node the application is submitted to
          MaxFailures      \* bound on crashes, broken connections and power failures
                           \* when the principal has so many steps

ASSUME FailoverAssumption ==
    /\ IsFiniteSet(Nodes) /\ Home \in Nodes /\ NoNode \notin Nodes
    /\ DOMAIN MaxFailures \subseteq Nat \ {0}
    /\ \A s \in DOMAIN MaxFailures : MaxFailures[s] \in Nat

VARIABLES
    steps,         \* how many steps the principal has
    alive,         \* the nodes that run
    client,        \* the nodes each node has a client of
    broken,        \* <<n, m>>: the connection of this client of n has ended
    wire,          \* what one node has written to another and it has not read
    up, down,      \* _upstream and _downstream of each client
    recovering,    \* kernels of lost clients and of the log, not yet sent on
    log,           \* the transaction log of each node
    running,       \* the steps the process of each node is executing
    waiting,       \* principals in the process of each node, by the step they wait for
    ready,         \* principals in the process of each node, by the step they send next
    finished,      \* a principal has collected its last step
    outage,        \* the power has failed and not everything runs again
    failures

connections == <<client, broken, wire, up, down>>
process == <<running, waiting, ready, finished>>
moving == <<alive, connections, recovering, log, process, outage, failures>>
vars == <<steps, moving>>

Step == 1..steps
Kernel == [step : Step, phase : {"upstream", "downstream"}]
Upstream(i) == [step |-> i, phase |-> "upstream"]
Downstream(i) == [step |-> i, phase |-> "downstream"]
Nothing == [i \in Step |-> 0]
Pairs == Nodes \X Nodes

NotRunning == [s \in Step \X (Nodes \cup {NoNode}) |-> 0]

Init ==
    /\ steps \in DOMAIN MaxFailures
    /\ alive = Nodes
    /\ client = [n \in Nodes |-> {}] /\ broken = {}
    /\ wire = [p \in Pairs |-> <<>>]
    /\ up = [p \in Pairs |-> <<>>] /\ down = [p \in Pairs |-> <<>>]
    /\ recovering = [n \in Nodes |-> <<>>]
    /\ log = [n \in Nodes |-> <<>>]
    /\ running = [n \in Nodes |-> NotRunning]
    /\ waiting = [n \in Nodes |-> Nothing]
    /\ ready = [n \in Nodes |-> IF n = Home THEN [Nothing EXCEPT ![1] = 1] ELSE Nothing]
    /\ finished = FALSE /\ outage = FALSE /\ failures = 0

-----------------------------------------------------------------------------
(***************************************************************************)
(* Connections.                                                            *)
(***************************************************************************)

\* Two nodes that have no clients of each other can connect.
Connected(n, m) ==
    /\ client' = [client EXCEPT ![n] = @ \cup {m}, ![m] = @ \cup {n}]
    /\ UNCHANGED broken

Connect(n, m) ==
    /\ n # m /\ {n, m} \subseteq alive
    /\ m \notin client[n] /\ n \notin client[m]
    /\ Connected(n, m)
    /\ UNCHANGED <<alive, wire, up, down, recovering, log, process, outage, failures>>

\* A kernel that is written to a connection that has ended goes nowhere.
WireWith(n, m, k) ==
    IF <<n, m>> \in broken THEN wire ELSE [wire EXCEPT ![<<n, m>>] = Append(@, k)]

\* forward() of a downstream kernel: over the client there is or a new one.
\* The new connection fails when the other node is down, or drops it because it
\* still has a client of this one.
Answer(n, to, i) ==
    LET works == to \in alive /\ n \notin client[to]
    IN  /\ IF to \in client[n] THEN UNCHANGED <<client, broken>>
           ELSE IF works THEN Connected(n, to)
           ELSE /\ client' = [client EXCEPT ![n] = @ \cup {to}]
                /\ broken' = broken \cup {<<n, to>>}
        /\ wire' = IF to \in client[n] \/ works THEN WireWith(n, to, Downstream(i)) ELSE wire
        /\ down' = [down EXCEPT ![<<n, to>>] = Append(@, i)]
        /\ log' = [log EXCEPT ![n] = Written(@, End(i))]
        /\ UNCHANGED up

-----------------------------------------------------------------------------
(***************************************************************************)
(* The process of the application.                                         *)
(***************************************************************************)

\* (A slip: the principal that waits is not looked for.)
Resume_Carried(n, i) ==
    /\ finished' = (finished \/ i = steps)
    /\ ready' = IF i = steps THEN ready ELSE [ready EXCEPT ![n][i + 1] = @ + 1]
    /\ UNCHANGED waiting

\* (A slip: the principal is taken to be there.)
\* A step returns to the process at node n: to the principal that waits for it,
\* or else to the copy it carries, which collects it and sends its next step.
Resume(n, i) ==
    /\ waiting' = [waiting EXCEPT ![n][i] = IF @ > 0 THEN @ - 1 ELSE 0]
    /\ finished' = (finished \/ i = steps)
    /\ ready' = IF i = steps THEN ready ELSE [ready EXCEPT ![n][i + 1] = @ + 1]

\* forward() of an upstream kernel: to a neighbour, with a record in the log and
\* a copy with the client, or to the process at this node, with neither.
Send(n, i) ==
    \/ /\ client[n] # {}
       /\ \E m \in client[n] :
             /\ log' = [log EXCEPT ![n] = Written(@, Start(i))]
             /\ up' = [up EXCEPT ![<<n, m>>] = Append(@, i)]
             /\ wire' = WireWith(n, m, Upstream(i))
       /\ UNCHANGED running
    \/ /\ client[n] = {}
       /\ running' = [running EXCEPT ![n][<<i, NoNode>>] = @ + 1]
       /\ UNCHANGED <<log, up, wire>>

Launch(n, i) ==
    /\ n \in alive /\ ready[n][i] > 0
    /\ ready' = [ready EXCEPT ![n][i] = @ - 1]
    /\ waiting' = [waiting EXCEPT ![n][i] = @ + 1]
    /\ Send(n, i)
    /\ UNCHANGED <<alive, client, broken, down, recovering, finished, outage, failures>>

\* A step is done; it returns to where it has come from.
Finish(n, i, from) ==
    /\ n \in alive /\ running[n][<<i, from>>] > 0
    /\ running' = [running EXCEPT ![n][<<i, from>>] = @ - 1]
    /\ IF from = NoNode
       THEN Resume(n, i) /\ UNCHANGED <<connections, log>>
       ELSE Answer(n, from, i) /\ UNCHANGED <<waiting, ready, finished>>
    /\ UNCHANGED <<alive, recovering, outage, failures>>

\* Node n reads the next kernel of m.
Deliver(m, n) ==
    /\ n \in alive /\ m \in client[n] /\ wire[<<m, n>>] # <<>>
    /\ wire' = [wire EXCEPT ![<<m, n>>] = Tail(@)]
    /\ LET k == Head(wire[<<m, n>>])
       IN  IF k.phase = "upstream"
           THEN /\ running' = [running EXCEPT ![n][<<k.step, m>>] = @ + 1]
                /\ UNCHANGED <<up, waiting, ready, finished>>
           ELSE /\ up' = [up EXCEPT ![<<n, m>>] = RemoveFirst(@, k.step)]
                /\ Resume(n, k.step)
                /\ UNCHANGED running
    /\ UNCHANGED <<alive, client, broken, down, recovering, log, outage, failures>>

-----------------------------------------------------------------------------
(***************************************************************************)
(* Recovery.                                                               *)
(***************************************************************************)
AsKernels(copies, Kind(_)) == [j \in DOMAIN copies |-> Kind(copies[j])]

\* (A slip: answers are not recovered.)
Lost_OnlyUpstream(n, m) == AsKernels(up[<<n, m>>], Upstream)

\* recover_kernels(true): the copies of a client that is gone.
Lost(n, m) == AsKernels(up[<<n, m>>], Upstream) \o AsKernels(down[<<n, m>>], Downstream)

\* Node n has read what there was to read and notices the end of a connection.
Notice(n, m) ==
    /\ n \in alive /\ <<n, m>> \in broken
    /\ wire[<<m, n>>] = <<>>
    /\ recovering' = [recovering EXCEPT ![n] = @ \o Lost(n, m)]
    /\ client' = [client EXCEPT ![n] = @ \ {m}]
    /\ broken' = broken \ {<<n, m>>}
    /\ up' = [up EXCEPT ![<<n, m>>] = <<>>]
    /\ down' = [down EXCEPT ![<<n, m>>] = <<>>]
    /\ UNCHANGED <<alive, wire, log, process, outage, failures>>

\* recover_kernel(), also of a record of the log: a step is sent again, an answer
\* restores its principal here.
Recover(n) ==
    /\ recovering[n] # <<>>
    /\ recovering' = [recovering EXCEPT ![n] = Tail(@)]
    /\ LET k == Head(recovering[n])
       IN  IF k.phase = "upstream"
           THEN Send(n, k.step) /\ UNCHANGED <<waiting, ready, finished>>
           ELSE Resume(n, k.step) /\ UNCHANGED <<running, log, up, wire>>
    /\ UNCHANGED <<alive, client, broken, down, outage, failures>>

-----------------------------------------------------------------------------
(***************************************************************************)
(* Failures.                                                               *)
(***************************************************************************)

\* Of what a node has written some prefix is sent before it goes.
Cut(s) == {SubSeq(s, 1, j) : j \in 0..Len(s)}

\* A connection ends; each node will notice for itself.
Break(n, m) ==
    /\ failures < MaxFailures[steps]
    /\ m \in client[n] /\ n \in client[m] /\ broken \cap {<<n, m>>, <<m, n>>} = {}
    /\ \E x \in Cut(wire[<<n, m>>]), y \in Cut(wire[<<m, n>>]) :
          wire' = [wire EXCEPT ![<<n, m>>] = x, ![<<m, n>>] = y]
    /\ broken' = broken \cup {<<n, m>>, <<m, n>>}
    /\ failures' = failures + 1
    /\ UNCHANGED <<alive, client, up, down, recovering, log, process, outage>>

\* The log of a node that goes down, perhaps while it writes the record of a step
\* or an answer.
Interrupted(n) ==
    LET sends == client[n] # {} /\ (recovering[n] # <<>> \/ \E i \in Step : ready[n][i] > 0)
        answers == \E s \in Step \X Nodes : running[n][s] > 0
    IN  {log[n]} \cup IF sends \/ answers THEN {Append(log[n], Torn)} ELSE {}

\* The nodes D go down, with all that is in their memory.
Down(D) ==
    /\ alive' = alive \ D
    /\ client' = [n \in Nodes |-> IF n \in D THEN {} ELSE client[n]]
    /\ broken' = {p \in Pairs : p[1] \notin D /\ p[2] \in client[p[1]]
                                   /\ (p \in broken \/ p[2] \in D)}
    /\ \E w \in [Pairs -> UNION {Cut(wire[p]) : p \in Pairs}] :
          /\ \A p \in Pairs : IF p[2] \in D THEN w[p] = <<>>
                              ELSE IF p[1] \in D THEN w[p] \in Cut(wire[p])
                              ELSE w[p] = wire[p]
          /\ wire' = w
    /\ up' = [p \in Pairs |-> IF p[1] \in D THEN <<>> ELSE up[p]]
    /\ down' = [p \in Pairs |-> IF p[1] \in D THEN <<>> ELSE down[p]]
    /\ recovering' = [n \in Nodes |-> IF n \in D THEN <<>> ELSE recovering[n]]
    /\ \E f \in [Nodes -> UNION {Interrupted(n) : n \in Nodes}] :
          /\ \A n \in Nodes : f[n] \in IF n \in D THEN Interrupted(n) ELSE {log[n]}
          /\ log' = f
    /\ running' = [n \in Nodes |-> IF n \in D THEN NotRunning ELSE running[n]]
    /\ waiting' = [n \in Nodes |-> IF n \in D THEN Nothing ELSE waiting[n]]
    /\ ready' = [n \in Nodes |-> IF n \in D THEN Nothing ELSE ready[n]]
    /\ failures < MaxFailures[steps] /\ failures' = failures + 1
    /\ UNCHANGED finished

Crash(n) == n \in alive /\ Down({n}) /\ UNCHANGED outage

PowerFailure == alive # {} /\ Down(alive) /\ outage' = TRUE

\* The daemon of n starts: it reads its log and writes it anew.  The records are
\* sent at once, or after the time set as recover_after.
Restart(n) ==
    /\ n \notin alive
    /\ alive' = alive \cup {n}
    /\ LET records == Records(log[n])
       IN  recovering' = [recovering EXCEPT
               ![n] = [j \in DOMAIN records |-> Upstream(records[j].kernel)]]
    /\ log' = [log EXCEPT ![n] = Recovered(@)]
    /\ outage' = (outage /\ alive' # Nodes)
    /\ UNCHANGED <<connections, process, failures>>

Move ==
    \/ \E n, m \in Nodes : Connect(n, m) \/ Deliver(m, n) \/ Notice(n, m) \/ Break(n, m)
    \/ \E n \in Nodes, i \in Step : Launch(n, i)
    \/ \E n \in Nodes, i \in Step, from \in Nodes \cup {NoNode} : Finish(n, i, from)
    \/ \E n \in Nodes : Recover(n) \/ Crash(n) \/ Restart(n)
    \/ PowerFailure

Next == Move /\ UNCHANGED steps

Spec == Init /\ [][Next]_vars

(***************************************************************************)
(* What the threads of a node have to do they do, a connection that ends   *)
(* is noticed, and after a power failure every daemon is started again.  A *)
(* node that crashes on its own may stay down, and nobody need connect.    *)
(***************************************************************************)
FairSpec ==
    /\ Spec
    /\ \A n \in Nodes :
          /\ WF_moving(\E m \in Nodes : Deliver(m, n))
          /\ WF_moving(\E m \in Nodes : Notice(n, m))
          /\ WF_moving(\E i \in Step : Launch(n, i))
          /\ WF_moving(\E i \in Step, from \in Nodes \cup {NoNode} : Finish(n, i, from))
          /\ WF_moving(Recover(n))
          /\ WF_moving(outage /\ Restart(n))

-----------------------------------------------------------------------------
(***************************************************************************)
(* Properties.                                                             *)
(***************************************************************************)
Count(f) == FoldFunction(LAMBDA x, sum : x + sum, 0, f)

Principals == MapThenSumSet(LAMBDA n : Count(waiting[n]) + Count(ready[n]), Nodes)

Executions == MapThenSumSet(LAMBDA n : Count(running[n]), Nodes)

(* Unless something fails the copies stay asleep (connection.cc:217-246):  *)
(* there is one principal until it has finished and none after that, and   *)
(* one of its steps is executed at a time.                                 *)
OneWithoutFailure ==
    failures = 0 => /\ Principals = IF finished THEN 0 ELSE 1
                    /\ Executions <= 1

\* A node has part in the principal: it runs there, has sent a step from there or
\* executes one.
TakesPart(n) ==
    n \in alive /\ Count(ready[n]) + Count(waiting[n]) + Count(running[n]) > 0

(* A principal finishes as long as one node that has part in it goes on,   *)
(* whichever of the others crash, stay down or lose their connections      *)
(* (kernel_base.hh:29-34, the mechanism of fault tolerance for principal   *)
(* kernels with one subordinate at a time).                                *)
CopySurvives == \A n \in Nodes : TakesPart(n) ~> (finished \/ n \notin alive)

(* When all nodes lose power and are started again, the principal finishes *)
(* if it has sent a step to a neighbour: the log has it (discovery_test.cc *)
(* with power-failure), whatever was being written at that moment and      *)
(* whatever had failed before.                                             *)
PowerFailureSurvived ==
    (alive = {} /\ failures = MaxFailures[steps] /\ outage /\ \E n \in Nodes, i \in Step : Start(i) \in Range(log[n]))
        ~> finished
=============================================================================
