------------------------------ MODULE Discovery ------------------------------
(***************************************************************************)
(* How nodes find each other and form a tree: daemon/discoverer, with the  *)
(* parts of daemon/main that create it and hand messages to it.            *)
(*                                                                         *)
(* A node probes the addresses TreeIterator yields until one accepts it as *)
(* a subordinate, and again from time to time.  Whatever changes a         *)
(* hierarchy is sent to all nodes in it and written to a cache, which a    *)
(* node reads when it starts.                                              *)
(*                                                                         *)
(* A handler is one action.  The handlers of a discoverer run in the order *)
(* in which its kernels arrive when the local pipeline has one upstream    *)
(* thread, and in any order when it has several.  Connections are those of *)
(* KernelExchange, seen from afar: a message opens one when there is none, *)
(* a node that is down refuses it, and both ends see its end.              *)
(***************************************************************************)
EXTENDS Hierarchy, TreeIterator, SequencesExt, FiniteSetsExt

CONSTANTS Fanout,        \* discoverer.fanout
          MaxAttempts,   \* discoverer.max-attempts
          MaxRadius,     \* discoverer.max-radius
          StartsAfter,   \* the nodes that were started before a node is
          Restartable,   \* the nodes that may start again after a crash
          OneThread,     \* whether the local pipeline has one upstream thread
          MaxCrashes,    \* bound on crashes
          MaxVersion,    \* bound on the versions of records
          MaxTimers,     \* bound on the timers a node has set
          MaxEvents,     \* bound on the events a node has not handled of a client
          MaxPosition    \* bound on the positions the iterator is checked at

ASSUME DiscoveryAssumption ==
    /\ Nodes \subseteq Nat \ {0}
    /\ IsFiniteSet(Nodes)
    /\ NoNode \notin Nodes
    /\ {Fanout, MaxAttempts, MaxRadius} \subseteq Nat \ {0}
    /\ {MaxCrashes, MaxVersion, MaxTimers, MaxEvents, MaxPosition} \subseteq Nat
    /\ StartsAfter \in [Nodes -> SUBSET Nodes]
    /\ Restartable \subseteq Nodes
    /\ OneThread \in BOOLEAN

VARIABLES
    node,       \* each discoverer: its state (down, initial or waiting), its
                \* hierarchy, its iterator (an index into Probes), the attempts
                \* at the current address and the timers that have not fired
    cache,      \* the cache file of each node, a new hierarchy if there is none
    started,    \* the nodes that have been started
    net,        \* the network, see below
    crashes     \* crashes so far

vars == <<node, cache, started, net, crashes>>

\* The elements of a sequence that are in a set, in their order.  (SelectSeq as
\* a recursive function, which the proofs can take apart.)
Only(seq, kept) ==
    LET part[i \in 0..Len(seq)] ==
            IF i = 0 THEN <<>>
            ELSE IF seq[i] \in kept THEN Append(part[i - 1], seq[i]) ELSE part[i - 1]
    IN  part[Len(seq)]

\* The addresses probed by a node: those there are nodes at.
Probes == [n \in Nodes |-> Only(Addresses(n, Fanout), Nodes)]

Up == {n \in Nodes : node[n].state # "down"}

-----------------------------------------------------------------------------
(***************************************************************************)
(* The network is a record of                                              *)
(*   links           pairs of connected nodes                              *)
(*   events[n][m]    what n has yet to handle of its client m: messages    *)
(*                   and probes returned by m, probes returned by its own  *)
(*                   pipeline because m has not answered, and the end of a *)
(*                   connection                                            *)
(*   asked[n][m]     the number of probes n keeps until m returns them     *)
(***************************************************************************)
Nobody == [m \in Nodes |-> <<>>]

ProbeMessage(old, new, records) ==
    [type |-> "probe", old |-> old, new |-> new, records |-> records]
HierarchyMessage(records) == [type |-> "hierarchy", records |-> records]
RemoveClient == [type |-> "remove_client"]
FailedProbe == [type |-> "failed"]
\* A probe on its way back: the record of the node that answers, which is the
\* first of the records it sends.
Reply(old, new, this, records) ==
    [type |-> "reply", old |-> old, new |-> new, front |-> this, records |-> records]

Linked(w, n, m) == {n, m} \in w.links

Count(seq, type) == Cardinality({i \in DOMAIN seq : seq[i].type = type})

\* The end of a connection; a second one in a row would change nothing.
Ended(queue) == IF queue # <<>> /\ Last(queue) = RemoveClient THEN queue
                ELSE Append(queue, RemoveClient)

Failed(count) == [i \in 1..count |-> FailedProbe]

\* The connections of n with some clients end.  What the ends of one have not
\* read yet is lost or is not, and the probes that have not been answered by
\* then are returned as failed.
EndLinks(w, n, clients, lost) ==
    LET ends(x, y) == \/ x = n /\ y \in clients
                      \/ y = n /\ x \in clients
        read(x, y) == IF lost THEN Only(w.events[x][y], {RemoveClient, FailedProbe})
                              ELSE w.events[x][y]
        answered(x, y) == Min({w.asked[x][y], Count(read(x, y), "reply")})
    IN  [links |-> w.links \ {{n, m} : m \in clients},
         events |-> [x \in Nodes |-> [y \in Nodes |->
             IF ends(x, y)
             THEN Ended(read(x, y) \o Failed(w.asked[x][y] - answered(x, y)))
             ELSE w.events[x][y]]],
         asked |-> [x \in Nodes |-> [y \in Nodes |->
             IF ends(x, y) THEN answered(x, y) ELSE w.asked[x][y]]]]

\* n sends out[m] to each m: over the connection there is or a new one, or to
\* nobody when m is not there to accept it.  (n is up, whatever it was.)
Transmit(w, n, out, connect) ==
    LET dest    == {m \in Nodes : out[m] # <<>>} \cup connect
        reached == dest \cap (Up \cup {n})
        refused == dest \ reached
    IN  [links |-> w.links \cup {{n, m} : m \in reached},
         events |-> [x \in Nodes |-> [y \in Nodes |->
             IF y = n /\ x \in reached THEN w.events[x][y] \o out[x]
             ELSE IF x = n /\ y \in refused
                  THEN Ended(w.events[x][y] \o Failed(Count(out[y], "probe")))
             ELSE w.events[x][y]]],
         asked |-> [x \in Nodes |-> [y \in Nodes |->
             IF x = n /\ y \in reached THEN w.asked[x][y] + Count(out[y], "probe")
             ELSE w.asked[x][y]]]]

-----------------------------------------------------------------------------
(***************************************************************************)
(* Parts of handlers.  s is a discoverer in the middle of a handler: its   *)
(* fields and what it has done so far to the outside, namely the messages  *)
(* out[m] for each m, the clients it has added and stopped, and whether it *)
(* has written its cache.                                                  *)
(***************************************************************************)
Discoverer(h) == [state |-> "initial", hier |-> h, next |-> 1, attempts |-> 0, timers |-> 0]

Entered(d) ==
    [state |-> d.state, hier |-> d.hier, next |-> d.next, attempts |-> d.attempts,
     timers |-> d.timers, out |-> Nobody, added |-> {}, stopped |-> {}, written |-> FALSE]

Left(s) ==
    [state |-> s.state, hier |-> s.hier, next |-> s.next, attempts |-> s.attempts,
     timers |-> s.timers]

SendTo(s, m, msg) == [s EXCEPT !.out[m] = Append(@, msg)]

DiscoverLater(s) == [s EXCEPT !.state = "waiting", !.timers = @ + 1]

Discover(n, s) ==
    IF s.next > Len(Probes[n])
    THEN DiscoverLater([s EXCEPT !.next = 1])
    ELSE LET target == Probes[n][s.next]
             sent == SendTo(s, target,
                            ProbeMessage(s.hier.this.superior, target, {s.hier.this}))
         IN  IF s.attempts + 1 >= MaxAttempts
             THEN [sent EXCEPT !.attempts = 0, !.next = @ + 1]
             ELSE [sent EXCEPT !.attempts = @ + 1]

\* (A slip: the cache is not written.)
BroadcastHierarchy_NotCached(s, ignored) ==
    LET records == NodesWithin(s.hier, MaxRadius)
    IN  [s EXCEPT !.out = [m \in Nodes |->
                              IF m \in Known(s.hier) \ {ignored}
                              THEN Append(s.out[m], HierarchyMessage(records))
                              ELSE s.out[m]]]

\* broadcast_hierarchy() and write_cache().
BroadcastHierarchy(s, ignored) ==
    LET records == NodesWithin(s.hier, MaxRadius)
    IN  [s EXCEPT !.out = [m \in Nodes |->
                              IF m \in Known(s.hier) \ {ignored}
                              THEN Append(s.out[m], HierarchyMessage(records))
                              ELSE s.out[m]],
                  !.written = TRUE]

\* The hierarchy becomes that of r, and if this is a change the others hear of it.
Update(s, r, ignored) ==
    LET updated == [s EXCEPT !.hier = r.h]
    IN  IF r.changed THEN BroadcastHierarchy(updated, ignored) ELSE updated

\* Two operations on a hierarchy one after the other.
Both(first, second) == [h |-> second.h, changed |-> first.changed \/ second.changed]

\* What the network may be like after s.  A client that was stopped and to
\* which something is sent again is still in the table, so that the messages
\* share its fate, or is not, so that there is a new one.
Sent(n, s, w) ==
    LET stopped == {m \in s.stopped : Linked(w, n, m)}
        late == [m \in Nodes |-> IF m \in stopped THEN <<>> ELSE s.out[m]]
        failing == [w EXCEPT !.events = [x \in Nodes |-> [y \in Nodes |->
                       IF x = n /\ y \in stopped
                       THEN @[x][y] \o Failed(Count(s.out[y], "probe")) ELSE @[x][y]]]]
    IN  IF stopped = {} THEN {Transmit(w, n, s.out, s.added)}
        ELSE UNION {{Transmit(EndLinks(w, n, stopped, lost), n, s.out, s.added),
                     Transmit(EndLinks(failing, n, stopped, lost), n, late, s.added)} :
                       lost \in BOOLEAN}

\* The end of a handler of n that has computed s.
Commit(n, result, network) ==
    \E s \in {result}, w \in {network} :
        /\ s.hier.this.version <= MaxVersion
        /\ s.timers <= MaxTimers
        /\ node' = [node EXCEPT ![n] = Left(s)]
        /\ cache' = IF s.written THEN [cache EXCEPT ![n] = s.hier] ELSE cache
        /\ \E sent \in Sent(n, s, w) :
              /\ \A x, y \in Nodes : Len(sent.events[x][y]) <= MaxEvents
              /\ net' = sent

-----------------------------------------------------------------------------
Init ==
    /\ node = [n \in Nodes |-> [Discoverer(NewHierarchy(n)) EXCEPT !.state = "down"]]
    /\ cache = [n \in Nodes |-> NewHierarchy(n)]
    /\ started = {}
    /\ net = [links |-> {},
              events |-> [n \in Nodes |-> Nobody],
              asked |-> [n \in Nodes |-> [m \in Nodes |-> 0]]]
    /\ crashes = 0

\* read_cache(): a client is added for the superior in the cache.
ReadCache(h) == [Entered(Discoverer(h)) EXCEPT !.added = {h.this.superior} \cap Known(h)]

\* Main adds a discoverer, which reads its cache; Main sets its resources, which
\* are new without a cache; the discoverer starts.
Start(n) ==
    /\ node[n].state = "down"
    /\ StartsAfter[n] \subseteq started
    /\ n \in started => n \in Restartable
    /\ started' = started \cup {n}
    /\ UNCHANGED crashes
    /\ LET h == cache[n]
           resources == [h |-> IF h = NewHierarchy(n) THEN SetResources(h) ELSE h,
                         changed |-> h = NewHierarchy(n)]
       IN  Commit(n, Discover(n, Update(ReadCache(h), resources, NoNode)), net)

\* The discovery timer.  Once it has a superior a node starts over from the
\* address it would have as superior at best.
OnTimer(n) ==
    LET s == [Entered(node[n]) EXCEPT !.timers = @ - 1]
        superior == s.hier.this.superior
    IN  /\ node[n].state # "down"
        /\ node[n].timers > 0
        /\ UNCHANGED <<started, crashes>>
        /\ Commit(n, IF s.state # "waiting" THEN s
                     ELSE IF superior = NoNode THEN Discover(n, s)
                     ELSE IF superior = Probes[n][1] THEN DiscoverLater([s EXCEPT !.next = 1])
                     ELSE Discover(n, [s EXCEPT !.next = 1]),
                  net)

\* The events of its client m that n may handle next.  One thread handles them
\* in order, except that probes on their way back do not pass through Main.
Ready(n, m) ==
    LET queue == net.events[n][m]
        returned == {i \in DOMAIN queue : queue[i].type \in {"reply", "failed"}}
    IN  IF node[n].state = "down" THEN {}
        ELSE IF OneThread THEN ({1} \cap DOMAIN queue) \cup
                               {i \in returned : \A j \in returned : i <= j}
        ELSE DOMAIN queue

Handled(n, m, i) == [net EXCEPT !.events[n][m] = RemoveAt(@, i)]

\* process_probe().
ProbeResult(h, m, e) ==
    CASE m = h.this.superior       -> "reject_subordinate"
      [] e.old = e.new             -> "retain"
      [] e.new = h.this.address    -> "add_subordinate"
      [] e.old = h.this.address    -> "remove_subordinate"
      [] OTHER                     -> "retain"

\* The hierarchy after a probe from m with this result.
AfterProbe(known, m, result) ==
    LET then == CASE result = "add_subordinate"    -> AddSubordinate(known.h, m)
                  [] result = "remove_subordinate" -> RemoveNode(known.h, m)
                  [] OTHER                         -> [h |-> known.h, changed |-> FALSE]
    IN  Both(known, then)

\* A probe without records changes nothing, whatever its result.  It always
\* returns with success: that overwrites the code of a rejected one.
\* (Here and below a bound of one element names a value to compute once.)
ProbeReceived(n, m, i) ==
    LET e == net.events[n][m][i]
        s == Entered(node[n])
        result == ProbeResult(s.hier, m, e)
    IN  /\ e.type = "probe"
        /\ \E known \in {AddNodes(s.hier, e.records)} :
           \E after \in {AfterProbe(known, m, result)} :
           \E told \in {IF e.records = {} THEN s ELSE Update(s, after, m)} :
              Commit(n, SendTo(told, m, Reply(e.old, e.new, told.hier.this,
                                              NodesWithin(told.hier, MaxRadius))),
                     Handled(n, m, i))

\* A node that has a new superior leaves the old one, and tells it so by
\* another probe.
Attached(n, s, p, w) ==
    \E known \in {AddNodes(s.hier, p.records)} :
    \E attached \in {Both(known, AddSuperior(known.h, p.front.address))} :
    \E told \in {Update(s, attached, p.front.address)} :
       LET left == [told EXCEPT !.stopped = {p.old} \ {NoNode}]
           notified == IF p.old = NoNode THEN left
                       ELSE SendTo(left, p.old, ProbeMessage(p.old, p.new, {}))
       IN  Commit(n, DiscoverLater(notified), w)

\* An answer nobody waits for any more is dropped.
ProbeReturned(n, m, i) ==
    LET p == net.events[n][m][i]
        s == Entered(node[n])
        w == [Handled(n, m, i) EXCEPT !.asked[n][m] = @ - 1]
    IN  /\ p.type = "reply"
        /\ IF net.asked[n][m] = 0 THEN Commit(n, s, Handled(n, m, i))
           ELSE IF p.old = p.new THEN Commit(n, DiscoverLater(s), w)
           ELSE Attached(n, s, p, w)

ProbeFailed(n, m, i) ==
    /\ net.events[n][m][i].type = "failed"
    /\ Commit(n, Discover(n, Entered(node[n])), Handled(n, m, i))

\* (A slip: what has been learnt is not passed on.)
HierarchyReceived_NotForwarded(n, m, i) ==
    LET s == Entered(node[n])
    IN  /\ net.events[n][m][i].type = "hierarchy"
        /\ \E known \in {AddNodes(s.hier, net.events[n][m][i].records)} :
              Commit(n, [s EXCEPT !.hier = known.h, !.written = known.changed],
                     Handled(n, m, i))

\* update_weights().
HierarchyReceived(n, m, i) ==
    LET s == Entered(node[n])
    IN  /\ net.events[n][m][i].type = "hierarchy"
        /\ \E known \in {AddNodes(s.hier, net.events[n][m][i].records)} :
              Commit(n, Update(s, known, m), Handled(n, m, i))

\* (A slip, although the code reads as if it were meant: the superior is compared
\* before it is removed, and looked for at once in spite of the timer.)
ClientRemoved_ComparesFirst(n, m, i) ==
    LET s == Entered(node[n])
    IN  /\ net.events[n][m][i].type = "remove_client"
        /\ \E removed \in {RemoveNode(s.hier, m)} :
           \E told \in {Update(s, removed, m)} :
              Commit(n, IF s.hier.this.superior = m THEN Discover(n, told) ELSE told,
                     Handled(n, m, i))

\* on_client_remove().  The superior that has gone has been removed from the
\* hierarchy when it is compared with the client, so that nothing else happens:
\* a new superior is looked for when the timer fires.
ClientRemoved(n, m, i) ==
    LET s == Entered(node[n])
    IN  /\ net.events[n][m][i].type = "remove_client"
        /\ \E removed \in {RemoveNode(s.hier, m)} :
           \E told \in {Update(s, removed, m)} :
              Commit(n, IF told.hier.this.superior = m THEN Discover(n, told) ELSE told,
                     Handled(n, m, i))

\* A node crashes between two handlers, and its cache survives.
Crash(n) ==
    /\ node[n].state # "down"
    /\ crashes < MaxCrashes
    /\ crashes' = crashes + 1
    /\ node' = [node EXCEPT ![n] = [Discoverer(NewHierarchy(n)) EXCEPT !.state = "down"]]
    /\ \E lost \in BOOLEAN :
          LET clients == {m \in Nodes : Linked(net, n, m)}
          IN  net' = [EndLinks(net, n, clients, lost) EXCEPT
                         !.events[n] = Nobody, !.asked[n] = [m \in Nodes |-> 0]]
    /\ UNCHANGED <<cache, started>>

Handle(n, m) ==
    /\ UNCHANGED <<started, crashes>>
    /\ \E i \in Ready(n, m) :
          \/ ProbeReceived(n, m, i)
          \/ ProbeReturned(n, m, i)
          \/ ProbeFailed(n, m, i)
          \/ HierarchyReceived(n, m, i)
          \/ ClientRemoved(n, m, i)

Next == \E n \in Nodes : \/ Start(n) \/ OnTimer(n) \/ Crash(n)
                         \/ \E m \in Nodes \ {n} : Handle(n, m)

Spec == Init /\ [][Next]_vars

\* Kernels that have arrived are executed and timers fire.  Nodes need not be
\* started nor crash.
FairSpec ==
    /\ Spec
    /\ \A n \in Nodes : WF_vars(OnTimer(n))
    /\ \A n \in Nodes : \A m \in Nodes \ {n} : WF_vars(Handle(n, m))
-----------------------------------------------------------------------------
(***************************************************************************)
(* Properties.                                                             *)
(***************************************************************************)

IsHierarchy(h, n) ==
    /\ h.this \in Records /\ h.this.address = n
    /\ Known(h) \subseteq Nodes \ {n}
    /\ \A m \in Known(h) : h.nodes[m] \in Records /\ h.nodes[m].address = m

\* TypeOK: the fields of a discoverer and of its hierarchy have their types; in
\* particular a node is filed under its own address and never its own record.
TypeOK ==
    /\ \A n \in Nodes :
          /\ node[n].state \in {"down", "initial", "waiting"}
          /\ IsHierarchy(node[n].hier, n)
          /\ IsHierarchy(cache[n], n)
          /\ node[n].next \in 1..Len(Probes[n]) + 1
          /\ node[n].attempts \in 0..MaxAttempts - 1
          /\ node[n].timers \in 0..MaxTimers
    /\ started \subseteq Nodes
    /\ \A l \in net.links : Cardinality(l) = 2 /\ l \subseteq Up
    /\ crashes \in 0..MaxCrashes

\* Forest: no node is above itself, neither in the tree the nodes form nor in
\* what a node or its cache holds of it: the traversals of a hierarchy, whose
\* depth is not bounded, end (hierarchy.hh, traverse()).
Forest ==
    /\ \A n \in Nodes : Acyclic(node[n].hier) /\ Acyclic(cache[n])
    /\ Acyclic([this |-> [address |-> NoNode, superior |-> NoNode, version |-> 0],
                nodes |-> [n \in Nodes |-> node[n].hier.this]])

\* The version of its own record that a node has, or will start with.
OwnVersion(n) == IF n \in Up THEN node[n].hier.this.version ELSE cache[n].this.version

\* ViewsNotAhead: nobody has a record of a node with a higher version than that
\* node's own, even when the node has restarted from its cache: otherwise its
\* next changes would be taken for old ones by the others.
ViewsNotAhead ==
    \A n, m \in Nodes :
        /\ m \in Known(node[n].hier) => node[n].hier.nodes[m].version <= OwnVersion(m)
        /\ \A i \in DOMAIN net.events[n][m] :
              LET e == net.events[n][m][i]
              IN  e.type \in {"probe", "hierarchy", "reply"} =>
                      \A a \in e.records : a.version <= OwnVersion(a.address)

\* The probes n waits for: those it keeps and those that have come back as failed.
Waited(w, n) == [m \in Nodes |-> w.asked[n][m] + Count(w.events[n][m], "failed")]

Total(counts) == FoldSet(LAMBDA m, sum : sum + counts[m], 0, Nodes)

\* The probes and timers a node that is up waits for.
Searches(n) == node[n].timers + Total(Waited(net, n))

\* n waits for an answer by which it leaves one superior for another.
Moving(n) ==
    \E m \in Nodes : /\ net.asked[n][m] > 0
                     /\ \E i \in DOMAIN net.events[n][m] :
                           LET p == net.events[n][m][i]
                           IN  p.type = "reply" /\ p.old \notin {NoNode, p.new}

\* OneSearch: a node that starts looks for a superior in one place, waiting for
\* one timer or one probe to return, and whatever connections fail afterwards
\* its search neither stops nor multiplies, except where it leaves one superior
\* for another: then it waits for a timer and for the old one to answer.
OneSearch ==
    [][\A n \in Nodes : n \in Up' =>
          \/ Searches(n)' = IF n \in Up THEN Searches(n) ELSE 1
          \/ n \in Up /\ Moving(n) /\ Searches(n)' = Searches(n) + 1]_vars

\* The node that n has to have as superior in the end: the first one it probes
\* that is there.
Best(n) == LET live == SelectSeq(Probes[n], LAMBDA m : m \in Up)
           IN  IF live = <<>> THEN NoNode ELSE live[1]

\* BestSuperior: when nodes have stopped to start and to crash, every node has
\* the best superior there is (the daemon's bootstrap, and its recovery from
\* the failure of a node).
BestSuperior == <>[](\A n \in Up : node[n].hier.this.superior = Best(n))

\* AllKnown: in the end every node knows every other one and whose subordinate
\* it is (the basis of routing: nodes_behind()).
AllKnown ==
    <>[](\A n, m \in Up : n # m =>
            /\ m \in Known(node[n].hier)
            /\ LET superior == node[m].hier.this.superior
               IN  superior \notin {NoNode, n} => node[n].hier.nodes[m].superior = superior)

\* IteratorVisitsAll: a node at any position of a tree of any fan-out probes
\* every node before it once, its parent first.  (It is a fact about constants,
\* which is evaluated before any node starts.)
IteratorVisitsAll ==
    started = {} => \A p, f \in 1..MaxPosition : VisitsAllBefore(p, f)
=============================================================================
