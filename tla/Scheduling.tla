----------------------------- MODULE Scheduling -----------------------------
(***************************************************************************)
(* Where the kernels of applications go: the scheduler of                  *)
(* daemon/socket_pipeline on each node, with the loads its clients keep,   *)
(* the node filters of kernels and what the hierarchy says is behind a     *)
(* neighbour.                                                              *)
(*                                                                         *)
(* A kernel comes from a process of an application on its home node and is *)
(* run by a process on that node or on a neighbour; process_pipeline and   *)
(* its queues are those of ProcessPipeline, seen from afar.  A connection  *)
(* is seen from afar, too: it opens and ends at both nodes at once.  The   *)
(* source of these kernels is never a neighbour and no client routes.      *)
(***************************************************************************)
EXTENDS Weights, Resources, Hierarchy, SequencesExt, FiniteSetsExt

CONSTANTS Superior,      \* the tree of the nodes
          Node,          \* the resources and names of each node
          Kernels,
          Home,          \* the node a kernel comes from
          WeightOf,      \* kernel::weight()
          FilterOf,      \* kernel::node_filter() or NoFilter
          NoFilter,
          Carries,       \* the kernels that carry their parent
          FilesOf,       \* the nodes the file kernel::path() is at
          Local,         \* socket_pipeline_scheduler::local()
          Expressions,   \* the node filters that are sent around
          MaxBreaks      \* bound on connections that end

ASSUME SchedulingAssumption ==
    /\ Superior \in [Nodes -> Nodes \cup {NoNode}]
    /\ NoNode \notin Nodes
    /\ DOMAIN Node = Nodes
    /\ Home \in [Kernels -> Nodes]
    /\ WeightOf \in [Kernels -> Weight]
    /\ DOMAIN FilterOf = Kernels
    /\ Carries \subseteq Kernels
    /\ FilesOf \in [Kernels -> SUBSET Nodes]
    /\ Local \in BOOLEAN
    /\ MaxBreaks \in Nat

VARIABLES
    client,       \* the client each node has of each other node
    localLoad,    \* _local_load of the scheduler of each node
    recovering,   \* kernels of a client that is gone, not yet sent elsewhere
    wire,         \* what one node has written to another
    running,      \* how many times a kernel is being run on a node
    status,       \* of each kernel: new, out, or the exit code it returned with
    breaks        \* connections that have ended so far

vars == <<client, localLoad, recovering, wire, running, status, breaks>>

\* A client: its state, _load, _upstream, and _nodes_behind with the sum of
\* their threads, which is one until the hierarchy is first asked.
NewClient == [state |-> "starting", load |-> NoLoad, up |-> <<>>, behind |-> {}, threads |-> 1]
NoClient == [NewClient EXCEPT !.state = "none"]

Request(k) == [kernel |-> k, phase |-> "upstream"]
Answer(k) == [kernel |-> k, phase |-> "downstream"]

Init ==
    /\ client = [n \in Nodes |-> [m \in Nodes |-> NoClient]]
    /\ localLoad = [n \in Nodes |-> NoLoad]
    /\ recovering = [n \in Nodes |-> <<>>]
    /\ wire = [n \in Nodes |-> [m \in Nodes |-> <<>>]]
    /\ running = [n \in Nodes |-> [k \in Kernels |-> 0]]
    /\ status = [k \in Kernels |-> "new"]
    /\ breaks = 0

Clients(n) == {m \in Nodes : client[n][m].state # "none"}
AnyStarted(n) == \E m \in Nodes : client[n][m].state = "started"

-----------------------------------------------------------------------------
(***************************************************************************)
(* Clients and the hierarchy.                                              *)
(***************************************************************************)
HierarchyOf(n) ==
    LET record(m) == [address |-> m, superior |-> Superior[m], version |-> 0]
    IN  [this |-> record(n), nodes |-> [m \in Nodes \ {n} |-> record(m)]]

Behind(n, m) == {r.address : r \in NodesBehind(HierarchyOf(n), m)}

ThreadsOf(n) == AsInteger(Node[n].resources.total_threads)

\* nodes_behind() with update_counters().
Informed(c, nodes) == [c EXCEPT !.behind = nodes,
                                !.threads = MapThenSumSet(ThreadsOf, nodes)]

NewClients(n, m) == [client EXCEPT ![n][m] = NewClient, ![m][n] = NewClient]
StartedClients(n, m) == [client EXCEPT ![n][m].state = "started", ![m][n].state = "started"]

\* n connects to its superior.
Connect(n) ==
    LET m == Superior[n]
    IN  /\ m # NoNode /\ client[n][m].state = "none"
        /\ client' = NewClients(n, m)
    /\ UNCHANGED <<localLoad, recovering, wire, running, status, breaks>>

\* The first event of a connection that is no error.
Start(n, m) ==
    /\ client[n][m].state = "starting" /\ recovering[n] = <<>> /\ recovering[m] = <<>>
    /\ client' = StartedClients(n, m)
    /\ UNCHANGED <<localLoad, recovering, wire, running, status, breaks>>

\* update_clients(), called by the discoverer when the hierarchy changes.
UpdateClients(n) ==
    /\ client' = [client EXCEPT ![n] = [m \in Nodes |->
           IF m \in Clients(n) THEN Informed(client[n][m], Behind(n, m)) ELSE client[n][m]]]
    /\ UNCHANGED <<localLoad, recovering, wire, running, status, breaks>>

\* A connection ends: what nobody has read yet is lost, and both ends send the
\* kernels the other one has not returned elsewhere.
Break(n, m) ==
    /\ n # m /\ breaks < MaxBreaks
    /\ m \in Clients(n) /\ n \in Clients(m)
    /\ recovering[n] = <<>> /\ recovering[m] = <<>>
    /\ client' = [client EXCEPT ![n][m] = NoClient, ![m][n] = NoClient]
    /\ wire' = [wire EXCEPT ![n][m] = <<>>, ![m][n] = <<>>]
    /\ recovering' = [recovering EXCEPT ![n] = client[n][m].up, ![m] = client[m][n].up]
    /\ breaks' = breaks + 1
    /\ UNCHANGED <<localLoad, running, status>>

-----------------------------------------------------------------------------
(***************************************************************************)
(* The scheduler.                                                          *)
(***************************************************************************)
Filtered(k) == FilterOf[k] # NoFilter

LocalMatches(n, k) == ~Filtered(k) \/ Satisfies(Node[n], FilterOf[k])

\* A neighbour matches when any node behind it does.
Matches(n, m, k) ==
    ~Filtered(k) \/ \E x \in client[n][m].behind : Satisfies(Node[x], FilterOf[k])

Eligible(n, k) == {m \in Nodes : client[n][m].state = "started" /\ Matches(n, m, k)}

Relative(n, m) == RelativeLoad(client[n][m].load, client[n][m].threads)
LocalRelative(n) == LocalRelativeLoad(localLoad[n], ThreadsOf(n))

\* Whether a neighbour will do although there is the local node.
BetterThanLocal(n, m, k) ==
    \/ ~Local \/ k \in Carries \/ ~LocalMatches(n, k)
    \/ LessOrEqual(Relative(n, m), LocalRelative(n))

\* (A slip: every neighbour must be better than the local node and not than the
\* best one before it.)
Better_LastWins(n, best, m, k) == IF BetterThanLocal(n, m, k) THEN m ELSE best

Better(n, best, m, k) ==
    IF best = NoNode THEN IF BetterThanLocal(n, m, k) THEN m ELSE best
    ELSE IF Less(Relative(n, m), Relative(n, best)) THEN m ELSE best

\* The loop over the clients, in the order of the table, and what it prefers:
\* nodes the file of the kernel is at.
Schedule(n, k, order) ==
    LET candidates == SelectSeq(order, LAMBDA m : m \in Eligible(n, k))
        withFile   == SelectSeq(candidates, LAMBDA m : m \in FilesOf[k])
        best       == FoldLeft(LAMBDA b, m : Better(n, b, m, k), NoNode, candidates)
        bestFile   == FoldLeft(LAMBDA b, m :
                                 IF b = NoNode \/ Less(Relative(n, m), Relative(n, b))
                                 THEN m ELSE b, NoNode, withFile)
        fileIsLocal == n \in FilesOf[k]
    IN  IF bestFile # NoNode
        THEN IF fileIsLocal /\ Less(LocalRelative(n), Relative(n, bestFile))
             THEN NoNode ELSE bestFile
        ELSE IF fileIsLocal THEN NoNode ELSE best

Return(k, code) == status' = [status EXCEPT ![k] = IF @ = "out" THEN code ELSE @]

\* forward() of a client: the kernel is written and its copy is saved.
SendTo(n, m, k) ==
    /\ client' = [client EXCEPT ![n][m].load = AddLoads(@, Weights(WeightOf[k])),
                                ![n][m].up = Append(@, k)]
    /\ wire' = [wire EXCEPT ![n][m] = Append(@, Request(k))]
    /\ UNCHANGED <<localLoad, running>>

\* A kernel no node is found for is given to the process pipeline, or returned
\* to its parent when this node does not match, and counts for the local load
\* in both cases.  When no client has started nothing of that is done.
KeepHere(n, k) ==
    /\ localLoad' = IF AnyStarted(n)
                    THEN [localLoad EXCEPT ![n] = AddLoads(@, Weights(WeightOf[k]))]
                    ELSE localLoad
    /\ running' = IF AnyStarted(n) /\ ~LocalMatches(n, k) THEN running
                  ELSE [running EXCEPT ![n][k] = @ + 1]
    /\ UNCHANGED <<client, wire>>

Unmatched(n, k, to) == to = NoNode /\ AnyStarted(n) /\ ~LocalMatches(n, k)

\* forward(): k is sent to a client or kept.
Forward(n, k) ==
    \E order \in SetToSeqs(Clients(n)) :
        \E to \in {IF AnyStarted(n) THEN Schedule(n, k, order) ELSE NoNode} :
            /\ IF to = NoNode THEN KeepHere(n, k) ELSE SendTo(n, to, k)
            /\ status' = [status EXCEPT ![k] =
                   IF Unmatched(n, k, to) /\ @ \in {"new", "out"} THEN "no_resources"
                   ELSE IF @ = "new" THEN "out" ELSE @]

-----------------------------------------------------------------------------
(***************************************************************************)
(* The way of a kernel.                                                    *)
(***************************************************************************)

\* The application on its home node sends a kernel.
Submit(k) ==
    /\ status[k] = "new"
    /\ Forward(Home[k], k)
    /\ UNCHANGED <<recovering, breaks>>

\* recover_kernel() of the first of the kernels that are left.  The lock is
\* released on the way, so that applications may send kernels in between.
Recover(n) ==
    /\ recovering[n] # <<>>
    /\ recovering' = [recovering EXCEPT ![n] = Tail(@)]
    /\ Forward(n, Head(recovering[n]))
    /\ UNCHANGED breaks

\* The answer is subtracted from the load of the client it comes from, also
\* when the kernel was sent over another connection.
ReceiveAnswer(n, m, k) ==
    [StartedClients(n, m) EXCEPT
        ![n][m].load = SubtractLoads(@, Weights(WeightOf[k])),
        ![n][m].up = SelectSeq(@, LAMBDA x : x # k)]

\* A kernel whose filter cannot be read is skipped.
CanBeRead(k) == ~Filtered(k) \/ Read(Write(FilterOf[k])).ok

\* Node m reads the next kernel n has sent.
Deliver(n, m) ==
    /\ wire[n][m] # <<>> /\ recovering[m] = <<>>
    /\ wire' = [wire EXCEPT ![n][m] = Tail(@)]
    /\ LET k == Head(wire[n][m]).kernel
       IN  IF Head(wire[n][m]).phase = "downstream"
           THEN /\ client' = ReceiveAnswer(m, n, k)
                /\ Return(k, "success")
                /\ UNCHANGED running
           ELSE /\ client' = StartedClients(m, n)
                /\ running' = IF CanBeRead(k) THEN [running EXCEPT ![m][k] = @ + 1]
                              ELSE running
                /\ UNCHANGED status
    /\ UNCHANGED <<localLoad, recovering, breaks>>

\* An application has run the kernel.  The answer goes to the node the kernel
\* has come from, over a new connection if there is none.
Complete(n, k) ==
    /\ running[n][k] > 0
    /\ running' = [running EXCEPT ![n][k] = @ - 1]
    /\ LET home == Home[k]
       IN  IF n = home
           THEN Return(k, "success") /\ UNCHANGED <<client, wire>>
           ELSE /\ client' = IF home \in Clients(n) THEN client
                             ELSE NewClients(n, home)
                /\ wire' = [wire EXCEPT ![n][home] = Append(@, Answer(k))]
                /\ UNCHANGED status
    /\ UNCHANGED <<localLoad, recovering, breaks>>

Next ==
    \/ \E n, m \in Nodes : Start(n, m) \/ Break(n, m) \/ Deliver(n, m)
    \/ \E n \in Nodes : Connect(n) \/ UpdateClients(n) \/ Recover(n)
    \/ \E k \in Kernels : Submit(k)
    \/ \E n \in Nodes, k \in Kernels : Complete(n, k)

Spec == Init /\ [][Next]_vars

-----------------------------------------------------------------------------
(***************************************************************************)
(* Properties.                                                             *)
(***************************************************************************)

(* A client is never thought to have more to do than it has: however late  *)
(* answers come and whatever connection they come over (connection.cc:106), *)
(* its load is at most the weights of the kernels it has not returned, so  *)
(* that a client with nothing to do has no load left; and the load of the  *)
(* node itself, which only grows, does not wrap around.                    *)
LoadNeverOver ==
    /\ \A n \in Nodes : localLoad[n] \in Load
    /\ \A n, m \in Nodes : \A i \in {1, 2} :
           client[n][m].load[i] <=
               MapThenSumSet(LAMBDA j : Weights(WeightOf[client[n][m].up[j]])[i],
                             DOMAIN client[n][m].up)

(* What a placement must be, said without the loop over the clients        *)
(* (socket_pipeline.cc:140-204): a neighbour is better than every other    *)
(* neighbour and than the local node, if that will do, and no neighbour is *)
(* better than the local node a kernel stays at; files come first.         *)
Acceptable(n, m, k) ==
    /\ m \in Eligible(n, k)
    /\ LET rivals == IF m \in FilesOf[k] THEN Eligible(n, k) \cap FilesOf[k] ELSE Eligible(n, k)
       IN  \A x \in rivals : LessOrEqual(Relative(n, m), Relative(n, x))
    /\ m \in FilesOf[k]
         => (n \in FilesOf[k] => LessOrEqual(Relative(n, m), LocalRelative(n)))
    /\ m \notin FilesOf[k]
         => /\ (Eligible(n, k) \cup {n}) \cap FilesOf[k] = {}
            /\ BetterThanLocal(n, m, k)

AcceptableHere(n, k) ==
    IF n \in FilesOf[k]
    THEN \A x \in Eligible(n, k) \cap FilesOf[k] : Less(LocalRelative(n), Relative(n, x))
    ELSE /\ Eligible(n, k) \cap FilesOf[k] = {}
         /\ \A x \in Eligible(n, k) : ~BetterThanLocal(n, x, k)

\* The scheduler of node n is asked about k in this step.
Scheduled(n, k) ==
    \/ n = Home[k] /\ status[k] = "new" /\ status'[k] # "new"
    \/ recovering[n] # <<>> /\ k = Head(recovering[n]) /\ recovering'[n] = Tail(recovering[n])

(* Every kernel that is sent or kept is where it should be by the loads    *)
(* and filters of that moment.                                             *)
BestPlacement ==
    [][\A n \in Nodes, k \in Kernels : Scheduled(n, k) =>
          IF wire'[n] = wire[n] THEN AnyStarted(n) => AcceptableHere(n, k)
          ELSE \E m \in Nodes : /\ wire'[n][m] = Append(wire[n][m], Request(k))
                                /\ Acceptable(n, m, k)]_vars

AllReadBack == \A e \in Expressions : Read(Write(e)) = Result(e, Len(Write(e)))

AllTextsRead ==
    \A e \in Expressions, depth \in 0..4 :
        LET r == ReadText(Text(e), depth)
        IN  Expressible(e) => IF Depth(e) <= depth THEN r = Untyped(e) ELSE ~NothingMissing(r)

(* Whatever filter a node sends to its clients reads there as it was       *)
(* written (kernel.cc:33, 49); negation is not among the expressions.      *)
(* Where a user writes it, it is read as deep as it may be, with its       *)
(* arguments in their places (resources.cc:20-79, 411-440).                *)
FiltersTravel == \A n \in Nodes : AnyStarted(n) => AllReadBack /\ AllTextsRead
=============================================================================
