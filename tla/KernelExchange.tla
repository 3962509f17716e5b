---------------------------- MODULE KernelExchange ----------------------------
(***************************************************************************)
(* How the socket pipeline of one cluster node hands kernels to other      *)
(* nodes and gets them back (core/connection.cc, core/basic_socket_pipeline *)
(* and daemon/socket_pipeline).                                            *)
(*                                                                         *)
(* A parent kernel creates child kernels and sends them.  A child waits in *)
(* the queue of the pipeline until the pipeline thread either passes it to *)
(* the local pipeline or writes it to the connection of a peer; the        *)
(* connection keeps a copy in _upstream until the reply comes.  A reply is *)
(* paired with a copy by its id only (find_kernel).  When a connection is  *)
(* lost its copies are recovered: sent again through the pipeline, or      *)
(* returned to the parent with an error if the parent named the peer.      *)
(*                                                                         *)
(* The peer remembers the ADDRESS a kernel came from and not the           *)
(* connection: when it has finished the kernel it replies over whatever    *)
(* connection to that address it has by then, or opens one.                *)
(*                                                                         *)
(* One client per peer, max_connection_attempts = 1 (the default of        *)
(* basic_socket_pipeline), every kernel native.  Kernels that carry their  *)
(* parent, broadcasts and routed foreign kernels are not in this module.   *)
(***************************************************************************)
EXTENDS Integers, Sequences, FiniteSets, FiniteSetsExt

CONSTANTS
    Kernels,              \* child kernels
    Parents,              \* the kernels that create them
    Peers,                \* other cluster nodes, named by socket address
    NoPeer,               \* an unset socket address
    ParentOf,             \* kernel::parent() of each child
    Destination,          \* kernel::destination() of each child
    PointToPoint,         \* the children sent in the point_to_point phase
    Weight,               \* kernel::weight() of each child
    MaxLosses,            \* bound: links that break, clients that are stopped
    MaxSessions           \* bound: in later sessions nobody connects without a kernel

ASSUME ExchangeAssumption ==
    /\ NoPeer \notin Peers
    /\ ParentOf \in [Kernels -> Parents]
    /\ Destination \in [Kernels -> Peers \cup {NoPeer}]
    /\ PointToPoint \subseteq {k \in Kernels : Destination[k] # NoPeer}
    /\ Weight \in [Kernels -> Nat]
    /\ MaxLosses \in Nat
    /\ MaxSessions \in Nat

VARIABLES
    pipeline,             \* state of the pipeline thread
    fresh,                \* children their parents have not sent yet
    queue,                \* _kernels: children waiting to be sent
    finished,             \* _kernels: children executed here, on their way back
    local,                \* children in the local (native) pipeline
    conn,                 \* state of the client of each peer
    upstream,             \* _upstream of each client: saved copies
    counter,              \* _counter of each client
    load,                 \* _load of each client
    identified,           \* parents that have an id
    returned,             \* what each parent got back for each child
    trash,                \* kernels deleted by trash() and clear()
    link,                 \* the transport to the peer works
    request,              \* kernels on their way to the peer
    running,              \* kernels the peer has not finished
    reply,                \* kernels on their way back
    session,              \* how many clients of the peer there were before
    losses                \* broken links so far

near == <<pipeline, fresh, queue, finished, local, identified, returned, trash>>
client == <<conn, upstream, counter, load, session>>
network == <<link, request, running, reply, losses>>
vars == <<near, client, network>>

PipelineStates == {"started", "stopping", "stopped", "cleared"}
ClientStates == {"none", "starting", "started", "stopped"}
ExitCodes == {"success", "no_resources", "endpoint_not_connected",
              "no_upstream_servers_available"}

(* A copy of a sent kernel, and the same kernel on the wire.  The session  *)
(* of a message is not in the program: it names the client it was sent by. *)
Saved == [kernel : Kernels, id : Nat]
Message == [kernel : Kernels, id : Nat, session : Nat]

(* What a parent is handed: its react() is called with the return code and *)
(* the fields of kernel `of'.                                              *)
Return == [code : ExitCodes, of : Kernels]

TypeOK ==
    /\ pipeline \in PipelineStates
    /\ fresh \subseteq Kernels
    /\ queue \subseteq Kernels
    /\ finished \subseteq Kernels
    /\ local \subseteq Kernels
    /\ conn \in [Peers -> ClientStates]
    /\ upstream \in [Peers -> SUBSET Saved]
    /\ counter \in [Peers -> Nat]
    /\ load \in [Peers -> Nat]
    /\ identified \subseteq Parents
    /\ returned \in [Kernels -> Seq(Return)]
    /\ trash \subseteq Kernels
    /\ link \in [Peers -> BOOLEAN]
    /\ request \in [Peers -> SUBSET Message]
    /\ running \in [Peers -> SUBSET Message]
    /\ reply \in [Peers -> SUBSET Message]
    /\ session \in [Peers -> Nat]
    /\ losses \in Nat

-----------------------------------------------------------------------------
Init ==
    /\ pipeline = "started"
    /\ fresh = Kernels
    /\ queue = {}
    /\ finished = {}
    /\ local = {}
    /\ conn = [p \in Peers |-> "none"]
    /\ upstream = [p \in Peers |-> {}]
    /\ counter = [p \in Peers |-> 1]
    /\ load = [p \in Peers |-> 0]
    /\ identified = {}
    /\ returned = [k \in Kernels |-> <<>>]
    /\ trash = {}
    /\ link = [p \in Peers |-> FALSE]
    /\ request = [p \in Peers |-> {}]
    /\ running = [p \in Peers |-> {}]
    /\ reply = [p \in Peers |-> {}]
    /\ session = [p \in Peers |-> 0]
    /\ losses = 0

(* return_to_parent and the delivery of k to the react() of its parent.    *)
HandBack(k, code, of) ==
    returned' = [returned EXCEPT ![k] = Append(@, [code |-> code, of |-> of])]

(***************************************************************************)
(* Sending.                                                                *)
(***************************************************************************)

(* ensure_has_id(parent) and generate_new_id(k): both draw from the        *)
(* counter of the client that k is written to.                             *)
NextId_PostIncrement(p, k) ==
    counter[p] + (IF ParentOf[k] \in identified THEN 0 ELSE 1)

NextId(p, k) ==
    counter[p] + (IF ParentOf[k] \in identified THEN 1 ELSE 2)

LoadAfterWrite_Inverted(p, k) ==
    IF k \in PointToPoint THEN load[p] + Weight[k] ELSE load[p]

LoadAfterWrite(p, k) ==
    IF k \in PointToPoint THEN load[p] ELSE load[p] + Weight[k]

(* connection::send to the client of p, which find_or_create_client        *)
(* creates in the starting state if there is none.                         *)
Send(p, k) ==
    LET id == NextId(p, k)
    IN  /\ conn' = [conn EXCEPT ![p] = IF @ = "none" THEN "starting" ELSE @]
        /\ counter' = [counter EXCEPT ![p] = id]
        /\ identified' = identified \cup {ParentOf[k]}
        /\ load' = [load EXCEPT ![p] = LoadAfterWrite(p, k)]
        /\ upstream' = [upstream EXCEPT ![p] = @ \cup {[kernel |-> k, id |-> id]}]
        /\ request' = [request EXCEPT ![p] =
                          @ \cup {[kernel |-> k, id |-> id, session |-> session[p]]}]

(* pipeline::send from a parent.                                           *)
Submit(k) ==
    /\ pipeline # "cleared"
    /\ k \in fresh
    /\ fresh' = fresh \ {k}
    /\ queue' = queue \cup {k}
    /\ UNCHANGED <<pipeline, finished, local, identified, returned, trash, client, network>>

(* process_kernel of a child whose parent did not name a peer, sent to the *)
(* started client that the scheduler picked.                               *)
SendToNeighbour(k, p) ==
    /\ pipeline \in {"started", "stopping"}
    /\ k \in queue
    /\ Destination[k] = NoPeer
    /\ conn[p] = "started"
    /\ queue' = queue \ {k}
    /\ Send(p, k)
    /\ UNCHANGED <<pipeline, fresh, finished, local, returned, trash, session,
                   link, running, reply, losses>>

(* ... the scheduler picked no client, so the kernel stays on this node.   *)
SendToLocal(k) ==
    /\ pipeline \in {"started", "stopping"}
    /\ k \in queue
    /\ Destination[k] = NoPeer
    /\ queue' = queue \ {k}
    /\ local' = local \cup {k}
    /\ UNCHANGED <<pipeline, fresh, finished, identified, returned, trash, client, network>>

(* ... neither this node nor a neighbour matches the node filter.          *)
ReturnNoResources(k) ==
    /\ pipeline \in {"started", "stopping"}
    /\ k \in queue
    /\ Destination[k] = NoPeer
    /\ \E p \in Peers : conn[p] = "started"
    /\ queue' = queue \ {k}
    /\ HandBack(k, "no_resources", k)
    /\ UNCHANGED <<pipeline, fresh, finished, local, identified, trash, client, network>>

(* process_kernel of a child whose parent named the peer.                  *)
SendToDestination(k) ==
    /\ pipeline \in {"started", "stopping"}
    /\ k \in queue
    /\ Destination[k] # NoPeer
    /\ queue' = queue \ {k}
    /\ \/ /\ Send(Destination[k], k)
          /\ UNCHANGED returned
       \/ \* do_add_client throws: the parent gets the kernel back at once
          /\ conn[Destination[k]] = "none"
          /\ HandBack(k, "no_upstream_servers_available", k)
          /\ UNCHANGED <<conn, counter, identified, load, upstream, request>>
    /\ UNCHANGED <<pipeline, fresh, finished, local, trash, session,
                   link, running, reply, losses>>

(* A child executed here goes back through the same pipeline and, having   *)
(* no source address, is passed to the local pipeline to meet its parent.  *)
ExecuteLocally(k) ==
    /\ pipeline # "cleared"
    /\ k \in local
    /\ local' = local \ {k}
    /\ finished' = finished \cup {k}
    /\ UNCHANGED <<pipeline, fresh, queue, identified, returned, trash, client, network>>

ReturnFinished(k) ==
    /\ pipeline \in {"started", "stopping"}
    /\ k \in finished
    /\ finished' = finished \ {k}
    /\ HandBack(k, "success", k)
    /\ UNCHANGED <<pipeline, fresh, queue, local, identified, trash, client, network>>

-----------------------------------------------------------------------------
(***************************************************************************)
(* The peer.                                                               *)
(***************************************************************************)

(* The peer reads a kernel and passes it to its native pipeline.           *)
PeerReceives(p, m) ==
    /\ link[p]
    /\ m \in request[p]
    /\ request' = [request EXCEPT ![p] = @ \ {m}]
    /\ running' = [running EXCEPT ![p] = @ \cup {m}]
    /\ UNCHANGED <<near, client, link, reply, losses>>

(* The peer has finished the kernel and sends it to the address it came    *)
(* from: over the link that exists now, whichever session m belongs to.    *)
PeerReplies(p, m) ==
    /\ m \in running[p]
    /\ running' = [running EXCEPT ![p] = @ \ {m}]
    /\ \/ /\ link[p]
          /\ reply' = [reply EXCEPT ![p] = @ \cup {m}]
          /\ UNCHANGED <<conn, link>>
       \/ \* no link: the peer connects, and this node accepts a new client
          /\ ~link[p]
          /\ conn[p] = "none"
          /\ pipeline = "started"
          /\ conn' = [conn EXCEPT ![p] = "starting"]
          /\ link' = [link EXCEPT ![p] = TRUE]
          /\ reply' = [reply EXCEPT ![p] = @ \cup {m}]
       \/ \* no link: the peer writes to a dead socket, cannot connect, or
          \* its connection is dropped because a client of p exists here
          /\ ~link[p]
          /\ UNCHANGED <<conn, link, reply>>
    /\ UNCHANGED <<near, upstream, counter, load, session, request, losses>>

-----------------------------------------------------------------------------
(***************************************************************************)
(* Receiving.                                                              *)
(***************************************************************************)

(* The discoverer probes p (add_client), or p connects to this node        *)
(* (socket_pipeline_server::handle).                                       *)
Connect(p) ==
    /\ pipeline = "started"
    /\ conn[p] = "none"
    /\ session[p] <= MaxSessions
    /\ conn' = [conn EXCEPT ![p] = "starting"]
    /\ UNCHANGED <<near, upstream, counter, load, session, network>>

(* The first event of a client.                                            *)
Established(p) ==
    /\ pipeline \in {"started", "stopping"}
    /\ conn[p] = "starting"
    /\ conn' = [conn EXCEPT ![p] = "started"]
    /\ link' = [link EXCEPT ![p] = TRUE]
    /\ UNCHANGED <<near, upstream, counter, load, session, request, running, reply, losses>>

(* find_kernel: the copies in _upstream that a reply pairs with.           *)
Matching(p, m) == {s \in upstream[p] : s.id = m.id}

(* _load -= weights: saturates at zero.                                    *)
LoadAfterRead_NoSaturation(p, m) == load[p] - Weight[m.kernel]

LoadAfterRead(p, m) ==
    IF load[p] > Weight[m.kernel] THEN load[p] - Weight[m.kernel] ELSE 0

(* receive_kernels, receive_kernel and plug_parent for one reply.  The     *)
(* load is decreased before the copy is looked up.  A reply that pairs     *)
(* with no copy is dropped ("parent not found").                           *)
ReceiveReply(p, m) ==
    /\ pipeline \in {"started", "stopping"}
    /\ conn[p] # "none"
    /\ m \in reply[p]
    /\ reply' = [reply EXCEPT ![p] = @ \ {m}]
    /\ conn' = [conn EXCEPT ![p] = IF @ = "starting" THEN "started" ELSE @]
    /\ load' = [load EXCEPT ![p] = LoadAfterRead(p, m)]
    /\ \/ /\ Matching(p, m) = {}
          /\ UNCHANGED <<upstream, returned>>
       \/ \E s \in Matching(p, m) :
             /\ upstream' = [upstream EXCEPT ![p] = @ \ {s}]
             /\ HandBack(s.kernel, "success", m.kernel)
    /\ UNCHANGED <<pipeline, fresh, queue, finished, local, identified, trash,
                   counter, session, link, request, running, losses>>

-----------------------------------------------------------------------------
(***************************************************************************)
(* Loss of a connection, and recovery.                                     *)
(***************************************************************************)

SavedKernels(p) == {s.kernel : s \in upstream[p]}

(* recover_kernel sends these again; the others are returned to the parent *)
(* because the parent chose the peer.                                      *)
Reroutable(k) == Destination[k] = NoPeer

(* recover() first reads what is left in the socket.  `seen' is what could *)
(* be read; answers pair kernels with the replies to them.                 *)
Answers(p, seen) ==
    LET Pairs(k, j) == \E s \in upstream[p], m \in seen :
                          s.kernel = k /\ m.id = s.id /\ m.kernel = j
        Answered == {k \in SavedKernels(p) : \E j \in Kernels : Pairs(k, j)}
    IN  {f \in [Answered -> Kernels] : \A k \in Answered : Pairs(k, f[k])}

(* What the parent of k is handed when the client of p is recovered.       *)
RecoveryReturn_AlsoResent(p, answer, k) ==
    IF k \in DOMAIN answer
    THEN <<[code |-> "success", of |-> answer[k]]>>
    ELSE IF k \in SavedKernels(p) /\ pipeline = "started"
         THEN <<[code |-> "endpoint_not_connected", of |-> k]>>
         ELSE <<>>

RecoveryReturn(p, answer, k) ==
    IF k \in DOMAIN answer
    THEN <<[code |-> "success", of |-> answer[k]]>>
    ELSE IF k \in SavedKernels(p) /\ pipeline = "started" /\ ~Reroutable(k)
         THEN <<[code |-> "endpoint_not_connected", of |-> k]>>
         ELSE <<>>

Resent_AlsoAnswered(p, answer) ==
    IF pipeline = "started" THEN {k \in SavedKernels(p) : Reroutable(k)} ELSE {}

Resent_Forgotten(p, answer) == {}

Resent(p, answer) ==
    IF pipeline = "started"
    THEN {k \in SavedKernels(p) \ DOMAIN answer : Reroutable(k)}
    ELSE {}

Trashed(p, answer) ==
    IF pipeline = "stopping" THEN SavedKernels(p) \ DOMAIN answer ELSE {}

(* remove() of a client that was stopped or whose link broke, timed out or *)
(* was refused.  The destructor of the client reads the residual input and *)
(* recovers every saved kernel.                                            *)
RemoveClient(p) ==
    /\ pipeline \in {"started", "stopping"}
    /\ conn[p] = "stopped" \/ (conn[p] # "none" /\ ~link[p])
    /\ \E seen \in {{}, reply[p]} : \E answer \in Answers(p, seen) :
          /\ returned' = [k \in Kernels |-> returned[k] \o RecoveryReturn(p, answer, k)]
          /\ queue' = queue \cup Resent(p, answer)
          /\ trash' = trash \cup Trashed(p, answer)
    /\ conn' = [conn EXCEPT ![p] = "none"]
    /\ upstream' = [upstream EXCEPT ![p] = {}]
    /\ counter' = [counter EXCEPT ![p] = 1]
    /\ load' = [load EXCEPT ![p] = 0]
    /\ session' = [session EXCEPT ![p] = @ + 1]
    /\ link' = [link EXCEPT ![p] = FALSE]
    /\ request' = [request EXCEPT ![p] = {}]
    /\ reply' = [reply EXCEPT ![p] = {}]
    /\ UNCHANGED <<pipeline, fresh, finished, local, identified, running, losses>>

(* The link breaks.  What was on its way is lost, except replies already   *)
(* in the socket buffer of this node.  If the peer itself crashed, the     *)
(* kernels it was running are lost as well.  (A link that breaks before    *)
(* its first event is one that breaks right after it: nothing is received  *)
(* in between.)                                                            *)
BreakLink(p) ==
    /\ losses < MaxLosses
    /\ link[p]
    /\ conn[p] # "starting"
    /\ losses' = losses + 1
    /\ link' = [link EXCEPT ![p] = FALSE]
    /\ request' = [request EXCEPT ![p] = {}]
    /\ \E kept \in SUBSET reply[p] : reply' = [reply EXCEPT ![p] = kept]
    /\ \/ UNCHANGED running
       \/ running' = [running EXCEPT ![p] = {}]
    /\ UNCHANGED <<near, client>>

(* stop_client: the discoverer leaves its old superior.                    *)
StopClient(p) ==
    /\ losses < MaxLosses
    /\ conn[p] \in {"starting", "started"}
    /\ losses' = losses + 1
    /\ conn' = [conn EXCEPT ![p] = "stopped"]
    /\ UNCHANGED <<near, upstream, counter, load, session, link, request, running, reply>>

-----------------------------------------------------------------------------
(***************************************************************************)
(* The end of the pipeline.                                                *)
(***************************************************************************)

(* stop(): every client is stopped, and the thread makes its last turn.    *)
Stop ==
    /\ pipeline = "started"
    /\ pipeline' = "stopping"
    /\ conn' = [p \in Peers |-> IF conn[p] = "none" THEN "none" ELSE "stopped"]
    /\ UNCHANGED <<fresh, queue, finished, local, identified, returned, trash,
                   upstream, counter, load, session, network>>

(* The thread leaves the loop.  If stop() came while flush_buffers had     *)
(* released the lock to pass on a recovered kernel, the stopped clients it *)
(* had already looked at are left for clear().                             *)
LoopExit ==
    /\ pipeline = "stopping"
    /\ pipeline' = "stopped"
    /\ UNCHANGED <<fresh, queue, finished, local, identified, returned, trash, client, network>>

(* clear() of the local and of this pipeline: all that is left is deleted. *)
Clear ==
    /\ pipeline = "stopped"
    /\ pipeline' = "cleared"
    /\ trash' = trash \cup queue \cup finished \cup local
                      \cup UNION {SavedKernels(p) : p \in Peers}
    /\ queue' = {}
    /\ finished' = {}
    /\ local' = {}
    /\ upstream' = [p \in Peers |-> {}]
    /\ UNCHANGED <<fresh, identified, returned, conn, counter, load, session, network>>

-----------------------------------------------------------------------------
Next ==
    \/ \E k \in Kernels : Submit(k)
    \/ \E k \in Kernels, p \in Peers : SendToNeighbour(k, p)
    \/ \E k \in Kernels : SendToLocal(k)
    \/ \E k \in Kernels : ReturnNoResources(k)
    \/ \E k \in Kernels : SendToDestination(k)
    \/ \E k \in Kernels : ExecuteLocally(k)
    \/ \E k \in Kernels : ReturnFinished(k)
    \/ \E p \in Peers : \E m \in request[p] : PeerReceives(p, m)
    \/ \E p \in Peers : \E m \in running[p] : PeerReplies(p, m)
    \/ \E p \in Peers : Connect(p)
    \/ \E p \in Peers : Established(p)
    \/ \E p \in Peers : \E m \in reply[p] : ReceiveReply(p, m)
    \/ \E p \in Peers : RemoveClient(p)
    \/ \E p \in Peers : BreakLink(p)
    \/ \E p \in Peers : StopClient(p)
    \/ Stop
    \/ LoopExit
    \/ Clear

(* The pipeline threads and the peers keep working, and a broken link is   *)
(* noticed (TCP user timeout, connection timeout).  Nothing forces a       *)
(* parent to send, a link to break or the pipeline to stop.                *)
Fairness ==
    /\ WF_vars(\E k \in Kernels : \/ SendToLocal(k)
                                  \/ SendToDestination(k)
                                  \/ \E p \in Peers : SendToNeighbour(k, p))
    /\ WF_vars(\E k \in Kernels : ExecuteLocally(k))
    /\ WF_vars(\E k \in Kernels : ReturnFinished(k))
    /\ \A p \in Peers :
          /\ WF_vars(Established(p) \/ RemoveClient(p))
          /\ WF_vars(\E m \in request[p] : PeerReceives(p, m))
          /\ WF_vars(\E m \in running[p] : PeerReplies(p, m))
          /\ WF_vars(\E m \in reply[p] : ReceiveReply(p, m))
    /\ WF_vars(LoopExit)
    /\ WF_vars(Clear)

Spec == Init /\ [][Next]_vars
FairSpec == Spec /\ Fairness

-----------------------------------------------------------------------------
(***************************************************************************)
(* Properties.                                                             *)
(***************************************************************************)

InFlight == UNION {SavedKernels(p) : p \in Peers}
HandedBack == {k \in Kernels : returned[k] # <<>>}

(* The owners of a child are disjoint and cover all children; ...          *)
Partition ==
    /\ Kernels = fresh \cup queue \cup local \cup finished \cup InFlight
                  \cup HandedBack \cup trash
    /\ fresh \cap (queue \cup local \cup finished \cup InFlight \cup HandedBack \cup trash) = {}
    /\ queue \cap (local \cup finished \cup InFlight \cup HandedBack \cup trash) = {}
    /\ local \cap (finished \cup InFlight \cup HandedBack \cup trash) = {}
    /\ finished \cap (InFlight \cup HandedBack \cup trash) = {}
    /\ InFlight \cap (HandedBack \cup trash) = {}
    /\ HandedBack \cap trash = {}

(* ... it is saved by one client only, once; ...                           *)
OneCopy ==
    /\ \A p, q \in Peers : p # q => SavedKernels(p) \cap SavedKernels(q) = {}
    /\ \A p \in Peers : \A s, t \in upstream[p] : s.kernel = t.kernel => s = t

(* ... and its parent gets it once.                                        *)
HandedBackOnce == \A k \in Kernels : Len(returned[k]) <= 1

(* Every child has exactly one owner: its parent, a queue of this node, the *)
(* saved copies of ONE client, the trash, or its parent again.  Sending,   *)
(* the answer that empties a slot, and recovery, which may find the answer *)
(* to a copy while it is about to resend it, each move the child and never *)
(* copy or lose it (the "deleted multiple times" check of                  *)
(* socket_pipeline_test.cc).                                               *)
SingleOwner == Partition /\ OneCopy /\ HandedBackOnce

(* Replies to kernels this very client has sent.                           *)
OfThisSession(p) ==
    {m \in request[p] \cup running[p] \cup reply[p] : m.session = session[p]}

(* While a client lives, a reply to what it sent pairs with the copy of    *)
(* the same kernel and with no other, although parents and children draw   *)
(* their ids from one counter and a parent draws one only if it has none.  *)
AnswersOwnSession ==
    \A p \in Peers : \A m \in OfThisSession(p) : \A s \in Matching(p, m) :
        s.kernel = m.kernel

(* The load of a client, from which the scheduler picks, is what connection.hh *)
(* says: the kernels sent and not returned yet.  This holds for the first  *)
(* client of a peer, provided that the children sent in the point_to_point *)
(* phase weigh nothing, as service kernels do.                             *)
LoadExact ==
    \A p \in Peers : session[p] = 0 /\ pipeline # "cleared" =>
        load[p] = FoldSet(LAMBDA k, sum : sum + Weight[k], 0, SavedKernels(p))

(* A parent reacts to its own children (kernel.hh, the comment of react).  *)
ReactOnOwnChild ==
    \A k \in Kernels : \A i \in DOMAIN returned[k] :
        ParentOf[returned[k][i].of] = ParentOf[k]

(* What the parents know, in the terms of KernelService.                   *)
StatusOf(k) ==
    CASE Len(returned[k]) > 1 -> "returned more than once"
      [] Len(returned[k]) = 1 -> "returned"
      [] returned[k] = <<>> /\ k \in trash -> "discarded"
      [] returned[k] = <<>> /\ k \notin trash /\ k \in fresh -> "fresh"
      [] OTHER -> "pending"

Service == INSTANCE KernelService
               WITH status <- [k \in Kernels |-> StatusOf(k)],
                    closing <- (pipeline # "started")

(* The pipeline, with its connections, losses and recovery, keeps the      *)
(* promise a parent relies on: see KernelService.                          *)
ImplementsService == Service!Spec

(* Every child that was sent comes back, with a result or an error code,   *)
(* unless the pipeline is being stopped: no loss of a connection, late     *)
(* reply or id collision makes a parent wait for ever.                     *)
EveryKernelReturns ==
    \A k \in Kernels : k \notin fresh ~> (k \in HandedBack \/ k \in trash)
=============================================================================
