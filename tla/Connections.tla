------------------------------ MODULE Connections ------------------------------
(***************************************************************************)
(* The clients of a socket pipeline, the table of connections by their     *)
(* descriptor, and the loop that serves them (basic_socket_pipeline):      *)
(* clients that connect, are refused or time out, wait as inactive and     *)
(* try again, up to max_connection_attempts, while descriptors are closed  *)
(* and used again.                                                         *)
(*                                                                         *)
(* One node is modelled with its neighbours as environment; of a kernel    *)
(* only matters which client has its copy (see KernelExchange).  A client  *)
(* lives as long as the map or the table refers to it.                     *)
(***************************************************************************)
EXTENDS Naturals, FiniteSetsExt, Functions

CONSTANTS Peers, Kernels,
          MaxConnections,  \* bound on clients and descriptors at a time
          Setups           \* what is explored: max_connection_attempts, the neighbours that
                           \* are added from the cache at the start, and a bound on the
                           \* neighbours and links that fail and on stop_client()

ASSUME ConnectionsAssumption ==
    /\ MaxConnections \in Nat
    /\ Setups \subseteq [attempts : Nat \ {0}, cached : SUBSET Peers, failures : Nat]

VARIABLES
    setup,         \* the element of Setups that is explored
    table,         \* _connections: the client under each descriptor
    clients,       \* _clients: the client of each neighbour
    conn,          \* the clients
    running,       \* the neighbours whose daemon runs
    held,          \* kernels that each neighbour has and has not answered
    unsent,        \* kernels that are not sent yet
    back,          \* kernels that have returned or been recovered
    toAdd,         \* neighbours still to be added from the cache
    failures

environment == <<running, held, unsent, toAdd, failures>>
moving == <<table, clients, conn, back, environment>>
vars == <<setup, moving>>

maxAttempts == setup.attempts
MaxFailures == setup.failures

Conns == 1..MaxConnections
Descriptors == 1..MaxConnections
NoConn == 0
Closed == 0

States == {"starting", "started", "inactive", "stopped"}
Links == {"connecting", "refused", "established", "ended", "none"}

\* A client of neighbour p under descriptor f; kept is _upstream, out what is
\* still in the output buffer.
Client(p, f, link, ks) ==
    [peer |-> p, state |-> "starting", fd |-> f, link |-> link, attempts |-> 1,
     kept |-> ks, out |-> ks]

Unused == [state |-> "unused", fd |-> Closed]

TypeOK ==
    /\ setup \in Setups
    /\ table \in [Descriptors -> Conns \cup {NoConn}]
    /\ clients \in [Peers -> Conns \cup {NoConn}]
    /\ \A c \in Conns : conn[c] = Unused \/
          /\ conn[c].peer \in Peers /\ conn[c].state \in States /\ conn[c].link \in Links
          /\ conn[c].attempts \in 1..maxAttempts
          /\ conn[c].kept \subseteq Kernels /\ conn[c].out \subseteq conn[c].kept
          /\ (conn[c].link = "none") = (conn[c].fd = Closed)
    /\ running \subseteq Peers /\ held \in [Peers -> SUBSET Kernels]
    /\ unsent \subseteq Kernels /\ back \subseteq Kernels \ unsent
    /\ toAdd \subseteq setup.cached /\ failures \in 0..MaxFailures

Init ==
    /\ setup \in Setups
    /\ table = [f \in Descriptors |-> NoConn]
    /\ clients = [p \in Peers |-> NoConn]
    /\ conn = [c \in Conns |-> Unused]
    /\ running \in SUBSET Peers
    /\ held = [p \in Peers |-> {}]
    /\ unsent = Kernels /\ back = {} /\ toAdd = setup.cached /\ failures = 0

-----------------------------------------------------------------------------
(***************************************************************************)
(* Clients.                                                                *)
(***************************************************************************)

\* The map, the table and the clients change; a client that is in neither is
\* destroyed and its kernels are recovered.
Become(map, tab, cs) ==
    LET gone == {c \in Conns : cs[c] # Unused /\ c \notin Range(map) \cup Range(tab)}
    IN  /\ clients' = map /\ table' = tab
        /\ conn' = [c \in Conns |-> IF c \in gone THEN Unused ELSE cs[c]]
        /\ back' = back \cup UNION {cs[c].kept : c \in gone}

\* The system gives out the lowest descriptor that is not open.
FreeDescriptors == Descriptors \ {conn[c].fd : c \in Conns}
FreeConns == {c \in Conns : conn[c] = Unused}

\* do_add_client(): a neighbour that has a client keeps it in the map.
AddNew(p, link, ks) ==
    /\ FreeConns # {}
    /\ LET c == Min(FreeConns)
           f == Min(FreeDescriptors)
       IN  Become([clients EXCEPT ![p] = IF @ = NoConn THEN c ELSE @],
                  [table EXCEPT ![f] = c],
                  [conn EXCEPT ![c] = Client(p, f, link, ks)])

\* remove(): the client of this neighbour that is in the map leaves it as stopped,
\* the one under descriptor f leaves the table.
Remove(f) ==
    LET p == conn[table[f]].peer
        known == clients[p]
    IN  Become([clients EXCEPT ![p] = NoConn],
               [table EXCEPT ![f] = NoConn],
               IF known = NoConn THEN conn ELSE [conn EXCEPT ![known].state = "stopped"])

\* The socket is closed; the client waits in its place of the table.
Inactive(c) ==
    [c EXCEPT !.state = "inactive", !.fd = Closed, !.link = "none", !.attempts = @ + 1]

\* (A slip: attempts are not counted.)
Deactivate_Forever(f) ==
    Become(clients, table,
           [conn EXCEPT ![table[f]] = [@ EXCEPT !.state = "inactive", !.fd = Closed, !.link = "none"]])

\* (A slip: one attempt more than there may be.)
Deactivate_OneMore(f) ==
    IF conn[table[f]].attempts > maxAttempts THEN Remove(f)
    ELSE Become(clients, table, [conn EXCEPT ![table[f]] = Inactive(@)])

Deactivate(f) ==
    IF conn[table[f]].attempts >= maxAttempts THEN Remove(f)
    ELSE Become(clients, table, [conn EXCEPT ![table[f]] = Inactive(@)])

\* (A slip: the old place is given up after the new one is taken.)
Activate_EraseLate(f) ==
    LET new == Min(FreeDescriptors)
    IN  Become(clients, [table EXCEPT ![new] = table[f], ![f] = NoConn],
               [conn EXCEPT ![table[f]] = [@ EXCEPT !.state = "starting", !.fd = new, !.link = "connecting"]])

\* A new socket is connected; it may come under any descriptor, the old one too.
Activate(f) ==
    LET new == Min(FreeDescriptors)
    IN  Become(clients, [table EXCEPT ![f] = NoConn, ![new] = table[f]],
               [conn EXCEPT ![table[f]] = [@ EXCEPT !.state = "starting", !.fd = new, !.link = "connecting"]])

\* The connection fails at once: the client has left the table before.
ActivateFails(f) ==
    LET c == table[f]
        p == conn[c].peer
    IN  IF conn[c].attempts >= maxAttempts THEN Remove(f)
        ELSE Become(clients, [table EXCEPT ![f] = NoConn], [conn EXCEPT ![c] = Inactive(@)])

-----------------------------------------------------------------------------
(***************************************************************************)
(* The users of the pipeline.                                              *)
(***************************************************************************)

\* A kernel with a destination: over the client there is or a new one.
Send(k, p) ==
    /\ k \in unsent
    /\ unsent' = unsent \ {k}
    /\ IF clients[p] = NoConn THEN AddNew(p, "connecting", {k})
       ELSE Become(clients, table,
                   [conn EXCEPT ![clients[p]].kept = @ \cup {k}, ![clients[p]].out = @ \cup {k}])
    /\ UNCHANGED <<running, held, toAdd, failures>>

\* add_client() of the superior in the cache, whether it has a client or not.
AddClient(p) ==
    /\ p \in toAdd
    /\ AddNew(p, "connecting", {})
    /\ toAdd' = toAdd \ {p}
    /\ UNCHANGED <<running, held, unsent, failures>>

\* The discoverer has found another superior.
StopClient(p) ==
    /\ failures < MaxFailures
    /\ clients[p] # NoConn /\ conn[clients[p]].state # "stopped"
    /\ Become(clients, table, [conn EXCEPT ![clients[p]].state = "stopped"])
    /\ failures' = failures + 1
    /\ UNCHANGED <<running, held, unsent, toAdd>>

-----------------------------------------------------------------------------
(***************************************************************************)
(* The loop.                                                               *)
(***************************************************************************)

\* What the thread does for the client under descriptor f.
Watched(f) == table[f] # NoConn

\* handle_events(): the socket under f is connected, refused or closed.
Handle(f) ==
    /\ Watched(f)
    /\ LET c == table[f]
       IN  /\ conn[c].state # "inactive"
           /\ CASE conn[c].link = "established" ->
                     /\ conn[c].state = "starting"
                     /\ Become(clients, table, [conn EXCEPT ![c].state = "started"])
                [] conn[c].link = "refused" -> Deactivate(f)
                [] conn[c].link = "ended" -> Remove(f)
                [] OTHER -> FALSE
    /\ UNCHANGED environment

\* flush_buffers(): what can be written is written.
Write(f) ==
    /\ Watched(f)
    /\ LET c == table[f]
       IN  /\ conn[c].link = "established" /\ conn[c].out # {}
           /\ held' = [held EXCEPT ![conn[c].peer] = @ \cup conn[c].out]
           /\ Become(clients, table, [conn EXCEPT ![c].out = {}])
    /\ UNCHANGED <<running, unsent, toAdd, failures>>

\* It cannot be written, because the other side has gone.
WriteFails(f) ==
    /\ Watched(f)
    /\ LET c == conn[table[f]]
       IN  c.link = "ended" /\ c.out # {} /\ c.state = "started"
    /\ Deactivate(f)
    /\ UNCHANGED environment

\* A client that was stopped is removed.
RemoveStopped(f) ==
    /\ Watched(f) /\ conn[table[f]].state = "stopped"
    /\ Remove(f)
    /\ UNCHANGED environment

\* connection_timeout has passed since the client started.
TimeOut(f) ==
    /\ Watched(f)
    /\ \/ conn[table[f]].state = "starting" /\ Deactivate(f)
       \/ conn[table[f]].state = "inactive" /\ (Activate(f) \/ ActivateFails(f))
    /\ UNCHANGED environment

-----------------------------------------------------------------------------
(***************************************************************************)
(* The neighbours and the network.                                         *)
(***************************************************************************)

\* A neighbour keeps one connection with this node.
HasLink(p) == \E c \in Conns : conn[c] # Unused /\ conn[c].peer = p /\ conn[c].link = "established"

\* A neighbour connects to this node; if it has a client here the socket is dropped.
Accept(p) ==
    /\ p \in running /\ ~HasLink(p) /\ clients[p] = NoConn
    /\ AddNew(p, "established", {})
    /\ UNCHANGED environment

\* The neighbour accepts, drops or refuses the connection, or does not answer.
Connected(c) ==
    /\ conn[c] # Unused /\ conn[c].link = "connecting"
    /\ \E link \in Links :
          /\ \/ link = "established" /\ conn[c].peer \in running /\ ~HasLink(conn[c].peer)
             \/ link = "ended" /\ conn[c].peer \in running
             \/ link = "refused" /\ conn[c].peer \notin running
          /\ conn' = [conn EXCEPT ![c].link = link]
    /\ UNCHANGED <<clients, table, back, environment>>

\* The neighbour answers over the connection there is; the answer to a kernel that
\* this client has no copy of is dropped.
Answer(c, k) ==
    /\ conn[c] # Unused /\ conn[c].link = "established" /\ k \in held[conn[c].peer]
    /\ held' = [held EXCEPT ![conn[c].peer] = @ \ {k}]
    /\ IF k \in conn[c].kept
       THEN /\ conn' = [conn EXCEPT ![c].kept = @ \ {k}, ![c].out = @ \ {k}]
            /\ back' = back \cup {k}
       ELSE UNCHANGED <<conn, back>>
    /\ UNCHANGED <<clients, table, running, unsent, toAdd, failures>>

EndLinks(cs) == [c \in Conns |-> IF c \in cs THEN [conn[c] EXCEPT !.link = "ended"] ELSE conn[c]]

LinkEnds(c) ==
    /\ failures < MaxFailures /\ failures' = failures + 1
    /\ conn[c] # Unused /\ conn[c].link = "established"
    /\ conn' = EndLinks({c})
    /\ UNCHANGED <<clients, table, back, running, held, unsent, toAdd>>

\* The daemon of a neighbour ends and its kernels with it.
PeerEnds(p) ==
    /\ failures < MaxFailures /\ failures' = failures + 1
    /\ p \in running /\ running' = running \ {p}
    /\ held' = [held EXCEPT ![p] = {}]
    /\ conn' = EndLinks({c \in Conns : conn[c] # Unused /\ conn[c].peer = p /\ conn[c].link = "established"})
    /\ UNCHANGED <<clients, table, back, unsent, toAdd>>

PeerStarts(p) ==
    /\ p \notin running /\ running' = running \cup {p}
    /\ UNCHANGED <<table, clients, conn, back, held, unsent, toAdd, failures>>

Move ==
    \/ \E k \in Kernels, p \in Peers : Send(k, p)
    \/ \E p \in Peers : AddClient(p) \/ StopClient(p) \/ Accept(p) \/ PeerEnds(p) \/ PeerStarts(p)
    \/ \E f \in Descriptors : Handle(f) \/ Write(f) \/ WriteFails(f) \/ RemoveStopped(f) \/ TimeOut(f)
    \/ \E c \in Conns : Connected(c) \/ LinkEnds(c) \/ \E k \in Kernels : Answer(c, k)

Next == Move /\ UNCHANGED setup

Spec == Init /\ [][Next]_vars

(***************************************************************************)
(* The loop serves every descriptor, time passes, and a neighbour that     *)
(* stays connected answers what it has.  Nobody need connect or send.      *)
(***************************************************************************)
FairSpec ==
    /\ Spec
    /\ \A f \in Descriptors :
          /\ WF_moving(Handle(f)) /\ WF_moving(Write(f))
          /\ WF_moving(RemoveStopped(f)) /\ WF_moving(TimeOut(f))
    /\ \A c \in Conns : WF_moving(\E k \in Kernels : Answer(c, k))

-----------------------------------------------------------------------------
(***************************************************************************)
(* Properties.                                                             *)
(***************************************************************************)

(* handle_events() finds the client of an event by its descriptor          *)
(* (basic_socket_pipeline.cc:49-60): every open socket has its own client  *)
(* in its place, although places are taken again while clients wait in     *)
(* them.  And with one attempt every client in the map is in the table, so *)
(* that it is removed one day.  (With more attempts an inactive client can *)
(* lose its place to a new one and is then forgotten in the map.)          *)
SocketsServed ==
    /\ \A c \in Conns : conn[c].fd # Closed => table[conn[c].fd] = c
    /\ maxAttempts = 1 => Range(clients) \ {NoConn} \subseteq Range(table)

(* With one attempt a kernel that is sent returns or is recovered, whether *)
(* the neighbour runs or not, refuses, drops, does not answer or ends.     *)
EveryKernelReturns ==
    \A k \in Kernels : (maxAttempts = 1 /\ k \notin unsent) ~> k \in back
=============================================================================
