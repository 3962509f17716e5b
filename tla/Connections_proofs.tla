-------------------------- MODULE Connections_proofs --------------------------
(***************************************************************************)
(* Proofs about Connections for any number of neighbours, kernels, clients *)
(* and attempts.                                                           *)
(***************************************************************************)
EXTENDS Connections, SetLemmas

(* What the thread keeps about a neighbour.                                *)
ClientType ==
    [peer : Peers, state : States, fd : Descriptors \cup {Closed}, link : Links,
     attempts : 1..maxAttempts, kept : SUBSET Kernels, out : SUBSET Kernels]

(* A client without a socket waits for its next attempt, and with one      *)
(* attempt there is none to wait for.                                      *)
SoundClient(r) ==
    /\ r.out \subseteq r.kept
    /\ r.link = "none" <=> r.fd = Closed
    /\ r.state = "inactive" => r.fd = Closed
    /\ maxAttempts = 1 => r.fd # Closed

(* The map refers to clients of its own neighbours, the table to clients,  *)
(* to each of them once.                                                   *)
Wired(map, tab, cs) ==
    /\ map \in [Peers -> Conns \cup {NoConn}]
    /\ tab \in [Descriptors -> Conns \cup {NoConn}]
    /\ cs \in [Conns -> ClientType \cup {Unused}]
    /\ \A c \in Conns : cs[c] # Unused => SoundClient(cs[c])
    /\ \A p \in Peers : map[p] # NoConn => cs[map[p]] # Unused /\ cs[map[p]].peer = p
    /\ \A f \in Descriptors : tab[f] # NoConn => cs[tab[f]] # Unused
    /\ \A f, g \in Descriptors : tab[f] = tab[g] /\ tab[f] # NoConn => f = g

(* A client is used by the map or the table, or is about to be destroyed.  *)
InUse(map, tab, c) == (\E p \in Peers : map[p] = c) \/ (\E f \in Descriptors : tab[f] = c)

Served(map, tab, cs) ==
    /\ \A c \in Conns : InUse(map, tab, c) /\ cs[c].fd # Closed => tab[cs[c].fd] = c
    /\ maxAttempts = 1 =>
          \A p \in Peers : map[p] # NoConn => \E f \in Descriptors : tab[f] = map[p]

(* Clients hold kernels that were sent.                                    *)
OnlySent(cs, fresh) == \A c \in Conns : cs[c] # Unused => cs[c].kept \cap fresh = {}

Rest ==
    /\ setup \in Setups
    /\ running \subseteq Peers /\ held \in [Peers -> SUBSET Kernels]
    /\ unsent \subseteq Kernels /\ back \subseteq Kernels \ unsent
    /\ toAdd \subseteq setup.cached /\ failures \in 0..MaxFailures

Inv ==
    /\ Wired(clients, table, conn) /\ Served(clients, table, conn)
    /\ \A c \in Conns : conn[c] # Unused => InUse(clients, table, c)
    /\ OnlySent(conn, unsent) /\ Rest

-----------------------------------------------------------------------------
(* The settings of a run.                                                  *)
LEMMA SetupType ==
    ASSUME setup \in Setups
    PROVE  maxAttempts \in Nat \ {0} /\ MaxFailures \in Nat
BY ConnectionsAssumption DEF maxAttempts, MaxFailures

(* A place that is not used is no client.                                  *)
LEMMA UnusedType ==
    /\ Unused \notin ClientType
    /\ Unused.fd = Closed
BY DEF Unused, ClientType, States

(* While a client has no socket there is a descriptor for it.              *)
LEMMA DescriptorFree ==
    ASSUME conn \in [Conns -> ClientType \cup {Unused}],
           NEW c \in Conns, conn[c].fd = Closed
    PROVE  /\ Min(FreeDescriptors) \in Descriptors
           /\ \A d \in Conns : conn[d].fd # Min(FreeDescriptors)
<1> DEFINE f == [d \in Conns |-> conn[d].fd]
           T == {conn[d].fd : d \in Conns}
<1>1. f \in [1..MaxConnections -> T] /\ c \in 1..MaxConnections /\ f[c] \notin 1..MaxConnections
  BY DEF Conns, Closed
<1> HIDE DEF f, T
<1>2. \E d \in 1..MaxConnections : \A i \in 1..MaxConnections : f[i] # d
  <2>1. MaxConnections \in Nat
    BY ConnectionsAssumption
  <2> QED
    BY <1>1, <2>1, MissesValue, Zenon
<1>3. FreeDescriptors \in SUBSET Nat /\ FreeDescriptors # {}
  BY <1>2 DEF f, FreeDescriptors, Descriptors, Conns
<1>4. Min(FreeDescriptors) \in FreeDescriptors
  BY <1>3, MinProperty
<1> QED
  BY <1>4 DEF FreeDescriptors

(* After Become the clients that nobody refers to are gone, and their      *)
(* kernels are back.                                                       *)
LEMMA BecomeKeeps ==
    ASSUME NEW map, NEW tab, NEW cs, Become(map, tab, cs), UNCHANGED setup,
           Wired(map, tab, cs), Served(map, tab, cs), OnlySent(cs, unsent'),
           running' \subseteq Peers, held' \in [Peers -> SUBSET Kernels],
           unsent' \subseteq unsent, toAdd' \subseteq toAdd, failures' \in 0..MaxFailures, Rest
    PROVE  Inv'
<1> DEFINE gone == {c \in Conns : cs[c] # Unused /\ c \notin Range(map) \cup Range(tab)}
<1>1. /\ clients' = map /\ table' = tab
      /\ conn' = [c \in Conns |-> IF c \in gone THEN Unused ELSE cs[c]]
      /\ back' = back \cup UNION {cs[c].kept : c \in gone}
  BY DEF Become
<1>2. \A p \in Peers : map[p] \notin gone
  BY DEF Wired, Range
<1>3. \A f \in Descriptors : tab[f] \notin gone
  BY DEF Wired, Range
<1>4. ClientType' = ClientType /\ Descriptors' = Descriptors
      /\ \A r : SoundClient(r)' <=> SoundClient(r)
  BY DEF ClientType, maxAttempts, SoundClient, Descriptors
<1>5. ASSUME NEW c \in Conns
      PROVE  IF c \in gone THEN conn'[c] = Unused ELSE conn'[c] = cs[c]
  BY <1>1
<1>6. Wired(clients', table', conn')
  <2>1. conn' \in [Conns -> ClientType \cup {Unused}]
    BY <1>1 DEF Wired
  <2>2. \A c \in Conns : conn'[c] # Unused => SoundClient(conn'[c])
    BY <1>5 DEF Wired
  <2>3. \A p \in Peers : map[p] # NoConn => conn'[map[p]] # Unused /\ conn'[map[p]].peer = p
    BY <1>2, <1>5 DEF Wired
  <2>4. \A f \in Descriptors : tab[f] # NoConn => conn'[tab[f]] # Unused
    BY <1>3, <1>5 DEF Wired
  <2> HIDE DEF gone
  <2> QED
    BY <1>1, <2>1, <2>2, <2>3, <2>4 DEF Wired
<1>7. Wired(clients, table, conn)'
  BY <1>4, <1>6 DEF Wired
<1>8. \A c \in Conns : conn'[c] # Unused => InUse(map, tab, c)
  BY <1>5 DEF InUse, Wired, Range
<1>9. Served(clients', table', conn')
  <2>1. ASSUME NEW c \in Conns, conn'[c].fd # Closed PROVE tab[conn'[c].fd] = c
    <3>1. conn'[c] # Unused /\ conn'[c] = cs[c]
      BY <1>5, <2>1, UnusedType
    <3> QED
      BY <1>8, <2>1, <3>1 DEF Served
  <2> HIDE DEF gone
  <2> QED
    BY <1>1, <2>1 DEF Served
<1>10. Served(clients, table, conn)'
  BY <1>9 DEF Served, maxAttempts, InUse
<1>11. \A c \in Conns : conn'[c] # Unused => InUse(clients', table', c)
  BY <1>1, <1>8
<1>12. OnlySent(conn', unsent')
  BY <1>5 DEF OnlySent
<1>13. UNION {cs[c].kept : c \in gone} \subseteq Kernels \ unsent'
  BY DEF OnlySent, Wired, ClientType
<1>14. back' \subseteq Kernels \ unsent'
  <2> HIDE DEF gone
  <2> QED
    BY <1>1, <1>13 DEF Rest
<1>15. Rest'
  BY <1>14 DEF Rest, MaxFailures
<1> QED
  BY <1>7, <1>10, <1>11, <1>12, <1>15 DEF Inv, InUse, OnlySent

(* The neighbours, what they have and what is not sent change within their *)
(* types in every step.                                                    *)
Around ==
    /\ UNCHANGED setup
    /\ running' \subseteq Peers /\ held' \in [Peers -> SUBSET Kernels]
    /\ unsent' \subseteq unsent /\ toAdd' \subseteq toAdd /\ failures' \in 0..MaxFailures

(* A new client under a free descriptor, for a neighbour or next to the    *)
(* client that the neighbour has.                                          *)
LEMMA AddNewKeeps ==
    ASSUME Inv, Around, NEW p \in Peers, NEW link \in {"connecting", "established"},
           NEW ks \in SUBSET (Kernels \ unsent'), AddNew(p, link, ks)
    PROVE  Inv'
<1> DEFINE c == Min(FreeConns)
           f == Min(FreeDescriptors)
           map == [clients EXCEPT ![p] = IF @ = NoConn THEN c ELSE @]
           tab == [table EXCEPT ![f] = c]
           cs == [conn EXCEPT ![c] = Client(p, f, link, ks)]
<1>1. Become(map, tab, cs) /\ FreeConns # {}
  BY DEF AddNew
<1>2. c \in Conns /\ conn[c] = Unused
  <2>1. FreeConns \in SUBSET Nat
    BY ConnectionsAssumption DEF FreeConns, Conns
  <2>2. c \in FreeConns
    BY <1>1, <2>1, MinProperty
  <2> QED
    BY <2>2 DEF FreeConns
<1>3. f \in Descriptors /\ \A d \in Conns : conn[d].fd # f
  BY <1>2, DescriptorFree, UnusedType DEF Inv, Wired
<1> HIDE DEF c, f
<1>4. /\ map[p] = IF clients[p] = NoConn THEN c ELSE clients[p]
      /\ \A q \in Peers : q # p => map[q] = clients[q]
      /\ tab[f] = c /\ \A g \in Descriptors : g # f => tab[g] = table[g]
      /\ cs[c] = Client(p, f, link, ks) /\ \A d \in Conns : d # c => cs[d] = conn[d]
  BY <1>2, <1>3 DEF Inv, Wired
<1>5. Client(p, f, link, ks) \in ClientType /\ Client(p, f, link, ks) # Unused
  <2>1. 1 \in 1..maxAttempts
    BY SetupType DEF Inv, Rest
  <2>2. Client(p, f, link, ks) \in ClientType
    BY <1>3, <2>1 DEF Client, ClientType, States, Links
  <2> QED
    BY <2>2, UnusedType
<1>6. SoundClient(Client(p, f, link, ks))
  BY <1>3 DEF Client, SoundClient, Closed, Descriptors
<1>7. c # NoConn /\ (\A q \in Peers : clients[q] # c) /\ (\A g \in Descriptors : table[g] # c)
  BY <1>2, ConnectionsAssumption DEF Inv, Wired, Conns, NoConn
<1>8. Client(p, f, link, ks).peer = p /\ Client(p, f, link, ks).fd = f
      /\ Client(p, f, link, ks).kept = ks
  BY DEF Client
<1>9. map \in [Peers -> Conns \cup {NoConn}] /\ tab \in [Descriptors -> Conns \cup {NoConn}]
      /\ cs \in [Conns -> ClientType \cup {Unused}]
  BY <1>2, <1>3, <1>5 DEF Inv, Wired
<1> HIDE DEF map, tab, cs
<1>10. Wired(map, tab, cs)
  <2>1. \A d \in Conns : cs[d] # Unused => SoundClient(cs[d])
    BY <1>4, <1>6 DEF Inv, Wired
  <2>2. \A q \in Peers : map[q] # NoConn => cs[map[q]] # Unused /\ cs[map[q]].peer = q
    BY <1>4, <1>5, <1>7, <1>8 DEF Inv, Wired
  <2>3. \A g \in Descriptors : tab[g] # NoConn => cs[tab[g]] # Unused
    BY <1>4, <1>5, <1>7 DEF Inv, Wired
  <2>4. \A g, h \in Descriptors : tab[g] = tab[h] /\ tab[g] # NoConn => g = h
    BY <1>4, <1>7 DEF Inv, Wired
  <2> QED
    BY <1>9, <2>1, <2>2, <2>3, <2>4 DEF Wired
<1>11. Served(map, tab, cs)
  <2>1. ASSUME NEW d \in Conns, cs[d].fd # Closed PROVE tab[cs[d].fd] = d
    <3>1. CASE d = c
      BY <1>4, <1>8, <3>1
    <3>2. CASE d # c
      <4>1. conn[d].fd # Closed /\ conn[d] # Unused
        BY <1>4, <2>1, <3>2, UnusedType
      <4>2. conn[d].fd \in Descriptors /\ conn[d].fd # f
        BY <1>3, <4>1 DEF Inv, Wired, ClientType
      <4>3. table[conn[d].fd] = d
        BY <4>1 DEF Inv, Served
      <4> QED
        BY <1>4, <3>2, <4>2, <4>3
    <3> QED
      BY <3>1, <3>2
  <2>2. ASSUME maxAttempts = 1, NEW q \in Peers, map[q] # NoConn
        PROVE  \E g \in Descriptors : tab[g] = map[q]
    <3>1. CASE map[q] = c
      BY <1>3, <1>4, <3>1
    <3>2. CASE map[q] = clients[q]
      <4>1. PICK g \in Descriptors : table[g] = clients[q]
        BY <2>2, <3>2 DEF Inv, Served
      <4>2. g # f
        <5> DEFINE e == table[g]
        <5>1. e \in Conns /\ conn[e] # Unused
          BY <2>2, <3>2, <4>1 DEF Inv, Wired
        <5>2. conn[e].fd # Closed /\ conn[e].fd \in Descriptors
          BY <2>2, <5>1 DEF Inv, Wired, SoundClient, ClientType
        <5>3. table[conn[e].fd] = e
          BY <5>1, <5>2 DEF Inv, Served
        <5>4. conn[e].fd = g
          BY <2>2, <3>2, <4>1, <5>2, <5>3 DEF Inv, Wired
        <5> QED
          BY <1>3, <5>1, <5>4
      <4> QED
        BY <1>4, <3>2, <4>1, <4>2
    <3> QED
      BY <1>4, <3>1, <3>2
  <2> QED
    BY <2>1, <2>2 DEF Served
<1>12. OnlySent(cs, unsent')
  BY <1>4, <1>8 DEF Inv, OnlySent, Around
<1> QED
  BY <1>1, <1>10, <1>11, <1>12, BecomeKeeps DEF Around, Inv

(* remove(): the client of the neighbour leaves the map and the one of the *)
(* descriptor the table.                                                   *)
LEMMA RemoveKeeps ==
    ASSUME Inv, Around, NEW f \in Descriptors, table[f] # NoConn, Remove(f)
    PROVE  Inv'
<1> DEFINE c == table[f]
           p == conn[c].peer
           known == clients[p]
           map == [clients EXCEPT ![p] = NoConn]
           tab == [table EXCEPT ![f] = NoConn]
           cs == IF known = NoConn THEN conn ELSE [conn EXCEPT ![known].state = "stopped"]
<1>1. Become(map, tab, cs)
  BY DEF Remove
<1>2. c \in Conns /\ conn[c] # Unused /\ p \in Peers
  BY DEF Inv, Wired, ClientType
<1>3. known # NoConn => known \in Conns /\ conn[known] # Unused /\ conn[known] \in ClientType
  BY <1>2 DEF Inv, Wired
<1>4. /\ map[p] = NoConn /\ \A q \in Peers : q # p => map[q] = clients[q]
      /\ tab[f] = NoConn /\ \A g \in Descriptors : g # f => tab[g] = table[g]
      /\ map \in [Peers -> Conns \cup {NoConn}] /\ tab \in [Descriptors -> Conns \cup {NoConn}]
  BY <1>2 DEF Inv, Wired
<1>5. ASSUME NEW d \in Conns
      PROVE  \/ cs[d] = conn[d]
             \/ conn[d] \in ClientType /\ conn[d] # Unused
                /\ cs[d] = [conn[d] EXCEPT !.state = "stopped"]
  BY <1>3 DEF Inv, Wired
<1>6. cs \in [Conns -> ClientType \cup {Unused}]
  <2>1. ASSUME NEW r \in ClientType PROVE [r EXCEPT !.state = "stopped"] \in ClientType
    BY DEF ClientType, States
  <2> QED
    BY <1>3, <2>1 DEF Inv, Wired
<1> HIDE DEF c, p, known, map, tab, cs
<1>7. ASSUME NEW d \in Conns
      PROVE  /\ cs[d] = Unused <=> conn[d] = Unused
             /\ conn[d] # Unused => /\ cs[d].peer = conn[d].peer /\ cs[d].fd = conn[d].fd
                                    /\ cs[d].kept = conn[d].kept
                                    /\ SoundClient(conn[d]) => SoundClient(cs[d])
  <2>1. CASE cs[d] = conn[d]
    BY <2>1
  <2>2. CASE conn[d] \in ClientType /\ conn[d] # Unused
             /\ cs[d] = [conn[d] EXCEPT !.state = "stopped"]
    <3>1. /\ cs[d].peer = conn[d].peer /\ cs[d].fd = conn[d].fd /\ cs[d].kept = conn[d].kept
          /\ cs[d].out = conn[d].out /\ cs[d].link = conn[d].link /\ cs[d].state = "stopped"
      BY <2>2 DEF ClientType
    <3>2. cs[d] # Unused
      BY <3>1 DEF Unused
    <3> QED
      BY <2>2, <3>1, <3>2 DEF SoundClient
  <2> QED
    BY <1>5, <2>1, <2>2
<1>8. Wired(map, tab, cs)
  <2>1. \A d \in Conns : cs[d] # Unused => SoundClient(cs[d])
    BY <1>7 DEF Inv, Wired
  <2>2. \A q \in Peers : map[q] # NoConn => cs[map[q]] # Unused /\ cs[map[q]].peer = q
    BY <1>4, <1>7 DEF Inv, Wired
  <2>3. \A g \in Descriptors : tab[g] # NoConn => cs[tab[g]] # Unused
    BY <1>4, <1>7 DEF Inv, Wired
  <2>4. \A g, h \in Descriptors : tab[g] = tab[h] /\ tab[g] # NoConn => g = h
    BY <1>4 DEF Inv, Wired
  <2> QED
    BY <1>4, <1>6, <2>1, <2>2, <2>3, <2>4 DEF Wired
<1>9. \A q \in Peers : map[q] # c
  BY <1>2, <1>4, ConnectionsAssumption DEF p, Inv, Wired, Conns, NoConn
<1>10. \A g \in Descriptors : tab[g] # c
  BY <1>2, <1>4, ConnectionsAssumption DEF c, Inv, Wired, Conns, NoConn
<1>11. Served(map, tab, cs)
  <2>1. ASSUME NEW d \in Conns, InUse(map, tab, d), cs[d].fd # Closed PROVE tab[cs[d].fd] = d
    <3>1. d # c
      BY <1>9, <1>10, <2>1 DEF InUse
    <3>2. conn[d] # Unused /\ cs[d].fd = conn[d].fd
      BY <1>7, <2>1, UnusedType
    <3>3. table[conn[d].fd] = d /\ conn[d].fd \in Descriptors
      BY <2>1, <3>2 DEF Inv, Served, Wired, ClientType
    <3> QED
      BY <1>4, <3>1, <3>2, <3>3 DEF c
  <2>2. ASSUME maxAttempts = 1, NEW q \in Peers, map[q] # NoConn
        PROVE  \E g \in Descriptors : tab[g] = map[q]
    <3>1. q # p /\ map[q] = clients[q]
      BY <1>4, <2>2
    <3>2. PICK g \in Descriptors : table[g] = clients[q]
      BY <2>2, <3>1 DEF Inv, Served
    <3>3. g # f
      BY <1>9, <3>1, <3>2 DEF c
    <3> QED
      BY <1>4, <3>1, <3>2, <3>3
  <2> QED
    BY <2>1, <2>2 DEF Served
<1>12. OnlySent(cs, unsent')
  BY <1>7 DEF Inv, OnlySent, Around
<1> QED
  BY <1>1, <1>8, <1>11, <1>12, BecomeKeeps DEF Around, Inv

(* Clients change, but not their neighbours, and a socket only closes.     *)
Changed(cs) ==
    /\ cs \in [Conns -> ClientType \cup {Unused}]
    /\ \A d \in Conns : cs[d] = Unused <=> conn[d] = Unused
    /\ \A d \in Conns : cs[d] # Unused =>
          /\ SoundClient(cs[d]) /\ cs[d].peer = conn[d].peer
          /\ cs[d].fd \in {conn[d].fd, Closed} /\ cs[d].kept \cap unsent' = {}

(* The table and the map fit clients that have changed so.                 *)
LEMMA ChangedFits ==
    ASSUME Inv, NEW cs, Changed(cs)
    PROVE  /\ Wired(clients, table, cs) /\ Served(clients, table, cs)
           /\ OnlySent(cs, unsent')
<1>1. Wired(clients, table, cs)
  <2>1. \A p \in Peers : clients[p] # NoConn =>
           cs[clients[p]] # Unused /\ cs[clients[p]].peer = p
    BY DEF Inv, Wired, Changed
  <2>2. \A f \in Descriptors : table[f] # NoConn => cs[table[f]] # Unused
    BY DEF Inv, Wired, Changed
  <2> QED
    BY <2>1, <2>2 DEF Inv, Wired, Changed
<1>2. Served(clients, table, cs)
  <2>1. ASSUME NEW d \in Conns, InUse(clients, table, d), cs[d].fd # Closed
        PROVE  table[cs[d].fd] = d
    <3>1. cs[d] # Unused
      BY <2>1, UnusedType
    <3>2. cs[d].fd = conn[d].fd
      BY <2>1, <3>1 DEF Changed
    <3> QED
      BY <2>1, <3>2 DEF Inv, Served
  <2> QED
    BY <2>1 DEF Inv, Served
<1>3. OnlySent(cs, unsent')
  BY DEF Changed, OnlySent
<1> QED
  BY <1>1, <1>2, <1>3

(* One client changes.                                                     *)
LEMMA OneChanged ==
    ASSUME Inv, Around, NEW c \in Conns, conn[c] # Unused, NEW r \in ClientType,
           SoundClient(r), r.peer = conn[c].peer, r.fd \in {conn[c].fd, Closed},
           r.kept \cap unsent' = {}
    PROVE  Changed([conn EXCEPT ![c] = r])
<1> DEFINE cs == [conn EXCEPT ![c] = r]
<1>1. cs \in [Conns -> ClientType \cup {Unused}]
  BY DEF Inv, Wired
<1>2. cs[c] = r /\ \A d \in Conns : d # c => cs[d] = conn[d]
  BY DEF Inv, Wired
<1>3. r # Unused
  BY UnusedType
<1> HIDE DEF cs
<1>4. \A d \in Conns : cs[d] = Unused <=> conn[d] = Unused
  BY <1>2, <1>3
<1>5. ASSUME NEW d \in Conns, cs[d] # Unused
      PROVE  /\ SoundClient(cs[d]) /\ cs[d].peer = conn[d].peer
             /\ cs[d].fd \in {conn[d].fd, Closed} /\ cs[d].kept \cap unsent' = {}
  <2>1. CASE d = c
    BY <1>2, <2>1
  <2>2. CASE d # c
    BY <1>2, <1>5, <2>2 DEF Inv, Wired, OnlySent, Around
  <2> QED
    BY <2>1, <2>2
<1>6. Changed(cs)
  BY <1>1, <1>4, <1>5 DEF Changed
<1> QED
  BY <1>6 DEF cs

(* The step of a client that nothing is destroyed for.                     *)
LEMMA ChangeKeeps ==
    ASSUME Inv, Around, NEW cs, Changed(cs), Become(clients, table, cs)
    PROVE  Inv'
BY ChangedFits, BecomeKeeps DEF Inv, Around

(* The step of the network, that is not the client's own.                  *)
LEMMA QuietChangeKeeps ==
    ASSUME Inv, Around, Changed(conn'), UNCHANGED <<clients, table>>,
           back' \subseteq Kernels \ unsent'
    PROVE  Inv'
<1>1. /\ Wired(clients, table, conn') /\ Served(clients, table, conn')
      /\ OnlySent(conn', unsent')
  BY ChangedFits
<1>2. ClientType' = ClientType /\ Descriptors' = Descriptors
      /\ \A r : SoundClient(r)' <=> SoundClient(r)
  BY DEF ClientType, maxAttempts, SoundClient, Descriptors, Around
<1>3. Wired(clients, table, conn)'
  BY <1>1, <1>2 DEF Wired
<1>4. Served(clients, table, conn)'
  BY <1>1 DEF Served, maxAttempts, InUse, Around
<1>5. \A c \in Conns : conn'[c] # Unused => InUse(clients', table', c)
  BY DEF Changed, Inv, InUse
<1>6. Rest'
  BY DEF Rest, MaxFailures, Around, Inv
<1> QED
  BY <1>1, <1>3, <1>4, <1>5, <1>6 DEF Inv, InUse, OnlySent

(* What is known of a client.                                              *)
LEMMA ClientKnown ==
    ASSUME Inv, NEW c \in Conns, conn[c] # Unused
    PROVE  /\ conn[c] \in ClientType /\ SoundClient(conn[c])
           /\ conn[c].kept \cap unsent = {} /\ c # NoConn /\ c # Closed
BY ConnectionsAssumption DEF Inv, Wired, OnlySent, Conns, NoConn, Closed

(* The client under a descriptor is one.                                   *)
LEMMA TableClient ==
    ASSUME Inv, NEW f \in Descriptors, table[f] # NoConn
    PROVE  table[f] \in Conns /\ conn[table[f]] # Unused
BY DEF Inv, Wired

(* And so is the client of a neighbour.                                    *)
LEMMA MapClient ==
    ASSUME Inv, NEW p \in Peers, clients[p] # NoConn
    PROVE  clients[p] \in Conns /\ conn[clients[p]] # Unused /\ conn[clients[p]].peer = p
BY DEF Inv, Wired

(* The client starts or stops.                                             *)
LEMMA StateKeeps ==
    ASSUME Inv, Around, NEW c \in Conns, conn[c] # Unused, NEW s \in {"started", "stopped"},
           Become(clients, table, [conn EXCEPT ![c].state = s])
    PROVE  Inv'
<1> DEFINE r == [conn[c] EXCEPT !.state = s]
<1>1. conn[c] \in ClientType /\ SoundClient(conn[c]) /\ conn[c].kept \cap unsent = {}
  BY ClientKnown
<1>2. /\ r.peer = conn[c].peer /\ r.fd = conn[c].fd /\ r.kept = conn[c].kept
      /\ r.out = conn[c].out /\ r.link = conn[c].link /\ r.state = s
  BY <1>1 DEF ClientType
<1>3. r \in ClientType
  BY <1>1 DEF ClientType, States
<1> HIDE DEF r
<1>4. SoundClient(r)
  BY <1>1, <1>2 DEF SoundClient
<1>5. Changed([conn EXCEPT ![c] = r])
  BY <1>1, <1>2, <1>3, <1>4, OneChanged DEF Around
<1>6. [conn EXCEPT ![c].state = s] = [conn EXCEPT ![c] = r]
  BY DEF r
<1> QED
  BY <1>5, <1>6, ChangeKeeps

(* The socket is closed and the client waits.                              *)
LEMMA DeactivateKeeps ==
    ASSUME Inv, Around, NEW f \in Descriptors, table[f] # NoConn, Deactivate(f)
    PROVE  Inv'
<1>1. CASE conn[table[f]].attempts >= maxAttempts
  BY <1>1, RemoveKeeps DEF Deactivate
<1>2. CASE ~(conn[table[f]].attempts >= maxAttempts)
  <2> DEFINE c == table[f]
             r == Inactive(conn[c])
  <2>1. c \in Conns /\ conn[c] # Unused
    BY TableClient
  <2>2. conn[c] \in ClientType /\ SoundClient(conn[c]) /\ conn[c].kept \cap unsent = {}
    BY <2>1, ClientKnown
  <2>3. /\ r.peer = conn[c].peer /\ r.fd = Closed /\ r.kept = conn[c].kept
        /\ r.out = conn[c].out /\ r.link = "none" /\ r.state = "inactive"
        /\ r.attempts = conn[c].attempts + 1
    BY <2>2 DEF ClientType, Inactive
  <2>4. conn[c].attempts + 1 \in 1..maxAttempts /\ maxAttempts # 1
    BY <1>2, <2>2, SetupType DEF ClientType, Inv, Rest
  <2>5. r \in ClientType
    BY <2>2, <2>4 DEF ClientType, Inactive, States, Links
  <2>6. Become(clients, table, [conn EXCEPT ![c] = r])
    BY <1>2 DEF Deactivate
  <2> HIDE DEF r, c
  <2>7. SoundClient(r)
    BY <2>2, <2>3, <2>4 DEF SoundClient
  <2>8. Changed([conn EXCEPT ![c] = r])
    BY <2>1, <2>2, <2>3, <2>5, <2>7, OneChanged DEF Around
  <2> QED
    BY <2>6, <2>8, ChangeKeeps
<1> QED
  BY <1>1, <1>2

(* A kernel goes to the client of its destination or to a new one.         *)
LEMMA SendKeeps ==
    ASSUME Inv, NEW k \in Kernels, NEW p \in Peers, Send(k, p), UNCHANGED setup
    PROVE  Inv'
<1>1. Around /\ k \in unsent /\ unsent' = unsent \ {k}
  BY DEF Send, Around, Inv, Rest
<1>2. CASE clients[p] = NoConn
  <2>1. AddNew(p, "connecting", {k}) /\ {k} \in SUBSET (Kernels \ unsent')
    BY <1>1, <1>2 DEF Send
  <2> QED
    BY <1>1, <2>1, AddNewKeeps
<1>3. CASE clients[p] # NoConn
  <2> DEFINE c == clients[p]
             r == [conn[c] EXCEPT !.kept = @ \cup {k}, !.out = @ \cup {k}]
             cs == [conn EXCEPT ![c].kept = @ \cup {k}, ![c].out = @ \cup {k}]
  <2>1. c \in Conns /\ conn[c] # Unused
    BY <1>3, MapClient
  <2>2. conn[c] \in ClientType /\ SoundClient(conn[c]) /\ conn[c].kept \cap unsent = {}
    BY <2>1, ClientKnown
  <2>3. /\ r.peer = conn[c].peer /\ r.fd = conn[c].fd /\ r.kept = conn[c].kept \cup {k}
        /\ r.out = conn[c].out \cup {k} /\ r.link = conn[c].link /\ r.state = conn[c].state
    BY <2>2 DEF ClientType
  <2>4. r \in ClientType
    BY <2>2 DEF ClientType
  <2>5. Become(clients, table, cs)
    BY <1>3 DEF Send
  <2>6. cs = [conn EXCEPT ![c] = r]
    BY <2>1, <2>2 DEF Inv, Wired, ClientType
  <2> HIDE DEF r, c, cs
  <2>7. SoundClient(r)
    BY <2>2, <2>3 DEF SoundClient
  <2>8. r.kept \cap unsent' = {}
    BY <1>1, <2>2, <2>3
  <2>9. Changed([conn EXCEPT ![c] = r])
    BY <1>1, <2>1, <2>3, <2>4, <2>7, <2>8, OneChanged
  <2> QED
    BY <1>1, <2>5, <2>6, <2>9, ChangeKeeps
<1> QED
  BY <1>2, <1>3

(* What is in the buffer is written.                                       *)
LEMMA WriteKeeps ==
    ASSUME Inv, NEW f \in Descriptors, Write(f), UNCHANGED setup
    PROVE  Inv'
<1> DEFINE c == table[f]
           r == [conn[c] EXCEPT !.out = {}]
<1>1. c \in Conns /\ conn[c] # Unused
  BY TableClient DEF Write, Watched
<1>2. conn[c] \in ClientType /\ SoundClient(conn[c]) /\ conn[c].kept \cap unsent = {}
  BY <1>1, ClientKnown
<1>3. /\ r.peer = conn[c].peer /\ r.fd = conn[c].fd /\ r.kept = conn[c].kept
      /\ r.out = {} /\ r.link = conn[c].link /\ r.state = conn[c].state
  BY <1>2 DEF ClientType
<1>4. r \in ClientType
  BY <1>2 DEF ClientType
<1>5. Become(clients, table, [conn EXCEPT ![c] = r])
  BY DEF Write
<1>6. conn[c].peer \in Peers /\ conn[c].out \subseteq Kernels
  BY <1>2 DEF ClientType
<1>7. held' \in [Peers -> SUBSET Kernels]
  BY <1>6 DEF Write, Inv, Rest
<1>8. Around
  BY <1>7 DEF Write, Around, Inv, Rest
<1> HIDE DEF r, c
<1>9. SoundClient(r)
  BY <1>2, <1>3 DEF SoundClient
<1>10. Changed([conn EXCEPT ![c] = r])
  BY <1>1, <1>2, <1>3, <1>4, <1>8, <1>9, OneChanged DEF Around
<1> QED
  BY <1>5, <1>8, <1>10, ChangeKeeps

(* A client that waits takes a new socket and the place of its descriptor. *)
LEMMA ActivateKeeps ==
    ASSUME Inv, Around, NEW f \in Descriptors, table[f] # NoConn,
           conn[table[f]].state = "inactive", Activate(f)
    PROVE  Inv'
<1> DEFINE c == table[f]
           new == Min(FreeDescriptors)
           r == [conn[c] EXCEPT !.state = "starting", !.fd = new, !.link = "connecting"]
           tab == [table EXCEPT ![f] = NoConn, ![new] = c]
           cs == [conn EXCEPT ![c] = r]
<1>1. Become(clients, tab, cs)
  BY DEF Activate
<1>2. c \in Conns /\ conn[c] # Unused /\ c # NoConn
  BY TableClient
<1>3. conn[c] \in ClientType /\ SoundClient(conn[c]) /\ conn[c].kept \cap unsent = {}
  BY <1>2, ClientKnown
<1>4. conn[c].fd = Closed /\ maxAttempts # 1
  BY <1>3 DEF SoundClient
<1>5. new \in Descriptors /\ \A d \in Conns : conn[d].fd # new
  BY <1>2, <1>4, DescriptorFree DEF Inv, Wired
<1> HIDE DEF new
<1>6. /\ r.peer = conn[c].peer /\ r.fd = new /\ r.kept = conn[c].kept
      /\ r.out = conn[c].out /\ r.link = "connecting" /\ r.state = "starting"
  BY <1>3 DEF ClientType
<1>7. r \in ClientType
  BY <1>3, <1>5 DEF ClientType, States, Links
<1>8. r # Unused
  BY <1>7, UnusedType
<1> HIDE DEF r, c
<1>9. SoundClient(r)
  BY <1>3, <1>4, <1>5, <1>6 DEF SoundClient, Closed, Descriptors
<1>10. cs[c] = r /\ \A d \in Conns : d # c => cs[d] = conn[d]
  BY <1>2 DEF Inv, Wired
<1>11. /\ tab[new] = c /\ (f # new => tab[f] = NoConn)
       /\ \A g \in Descriptors : g # new /\ g # f => tab[g] = table[g]
  BY <1>5 DEF Inv, Wired
<1>12. tab \in [Descriptors -> Conns \cup {NoConn}] /\ cs \in [Conns -> ClientType \cup {Unused}]
  BY <1>2, <1>5, <1>7 DEF Inv, Wired
<1>13. \A g \in Descriptors : g # new => tab[g] # c /\ (tab[g] # NoConn => tab[g] = table[g])
  BY <1>2, <1>11 DEF Inv, Wired, c
<1> HIDE DEF tab, cs
<1>14. Wired(clients, tab, cs)
  <2>1. \A d \in Conns : cs[d] # Unused => SoundClient(cs[d])
    BY <1>9, <1>10 DEF Inv, Wired
  <2>2. \A q \in Peers : clients[q] # NoConn => cs[clients[q]] # Unused /\ cs[clients[q]].peer = q
    BY <1>6, <1>8, <1>10 DEF Inv, Wired
  <2>3. \A g \in Descriptors : tab[g] # NoConn => cs[tab[g]] # Unused
    BY <1>8, <1>10, <1>11, <1>13 DEF Inv, Wired
  <2>4. \A g, h \in Descriptors : tab[g] = tab[h] /\ tab[g] # NoConn => g = h
    BY <1>11, <1>13 DEF Inv, Wired
  <2> QED
    BY <1>12, <2>1, <2>2, <2>3, <2>4 DEF Inv, Wired
<1>15. Served(clients, tab, cs)
  <2>1. ASSUME NEW d \in Conns, cs[d].fd # Closed PROVE tab[cs[d].fd] = d
    <3>1. CASE d = c
      BY <1>6, <1>10, <1>11, <3>1
    <3>2. CASE d # c
      <4>1. conn[d].fd # Closed /\ conn[d] # Unused
        BY <1>10, <2>1, <3>2, UnusedType
      <4>2. conn[d].fd \in Descriptors /\ conn[d].fd # new
        BY <1>5, <4>1 DEF Inv, Wired, ClientType
      <4>3. table[conn[d].fd] = d
        BY <4>1 DEF Inv, Served
      <4>4. conn[d].fd # f
        BY <3>2, <4>3 DEF c
      <4> QED
        BY <1>10, <1>11, <3>2, <4>2, <4>3, <4>4
    <3> QED
      BY <3>1, <3>2
  <2> QED
    BY <1>4, <2>1 DEF Served
<1>16. OnlySent(cs, unsent')
  BY <1>3, <1>6, <1>10 DEF Inv, OnlySent, Around
<1> QED
  BY <1>1, <1>14, <1>15, <1>16, BecomeKeeps DEF Around, Inv

(* A client that waits fails to connect at once, and leaves the table.     *)
LEMMA ActivateFailsKeeps ==
    ASSUME Inv, Around, NEW f \in Descriptors, table[f] # NoConn,
           conn[table[f]].state = "inactive", ActivateFails(f)
    PROVE  Inv'
<1>0. CASE conn[table[f]].attempts >= maxAttempts
  BY <1>0, RemoveKeeps DEF ActivateFails
<1>a. CASE ~(conn[table[f]].attempts >= maxAttempts)
  <2> DEFINE c == table[f]
             r == Inactive(conn[c])
             tab == [table EXCEPT ![f] = NoConn]
             cs == [conn EXCEPT ![c] = r]
  <2>1. Become(clients, tab, cs)
    BY <1>a DEF ActivateFails
  <2>2. c \in Conns /\ conn[c] # Unused /\ c # NoConn
    BY TableClient
  <2>3. conn[c] \in ClientType /\ SoundClient(conn[c]) /\ conn[c].kept \cap unsent = {}
    BY <2>2, ClientKnown
  <2>4. conn[c].fd = Closed /\ maxAttempts # 1
    BY <2>3 DEF SoundClient
  <2>5. /\ r.peer = conn[c].peer /\ r.fd = Closed /\ r.kept = conn[c].kept
        /\ r.out = conn[c].out /\ r.link = "none" /\ r.state = "inactive"
    BY <2>3 DEF ClientType, Inactive
  <2>6. conn[c].attempts + 1 \in 1..maxAttempts
    BY <1>a, <2>3, SetupType DEF ClientType, Inv, Rest
  <2>7. r \in ClientType
    BY <2>3, <2>6 DEF ClientType, Inactive, States, Links
  <2> HIDE DEF r, c
  <2>8. SoundClient(r)
    BY <2>3, <2>4, <2>5 DEF SoundClient
  <2>9. Changed(cs)
    BY <2>2, <2>3, <2>5, <2>7, <2>8, OneChanged DEF Around
  <2>10. tab[f] = NoConn /\ (\A g \in Descriptors : g # f => tab[g] = table[g])
         /\ tab \in [Descriptors -> Conns \cup {NoConn}]
    BY DEF Inv, Wired
  <2>11. cs[c] = r
    BY <2>2 DEF Inv, Wired
  <2> HIDE DEF tab, cs
  <2>12. Wired(clients, table, cs) /\ Served(clients, table, cs) /\ OnlySent(cs, unsent')
    BY <2>9, ChangedFits
  <2>13. Wired(clients, tab, cs)
    <3>1. \A g \in Descriptors : tab[g] # NoConn => cs[tab[g]] # Unused
      BY <2>10, <2>12 DEF Wired
    <3>2. \A g, h \in Descriptors : tab[g] = tab[h] /\ tab[g] # NoConn => g = h
      BY <2>10, <2>12 DEF Wired
    <3> QED
      BY <2>10, <2>12, <3>1, <3>2 DEF Wired
  <2>14. Served(clients, tab, cs)
    <3>1. ASSUME NEW d \in Conns, InUse(clients, tab, d), cs[d].fd # Closed
          PROVE  tab[cs[d].fd] = d
      <4>1. d # c
        BY <2>5, <2>11, <3>1
      <4>2. d # NoConn
        BY ConnectionsAssumption DEF Conns, NoConn
      <4>3. InUse(clients, table, d)
        BY <2>10, <3>1, <4>2 DEF InUse
      <4>4. table[cs[d].fd] = d
        BY <2>12, <3>1, <4>3 DEF Served
      <4>5. cs[d].fd \in Descriptors
        BY <2>12, <3>1, UnusedType DEF Wired, ClientType
      <4> QED
        BY <2>10, <4>1, <4>4, <4>5 DEF c
    <3> QED
      BY <2>4, <3>1 DEF Served
  <2> QED
    BY <2>1, <2>12, <2>13, <2>14, BecomeKeeps DEF Around, Inv
<1> QED
  BY <1>0, <1>a

(* The neighbour answers, and its kernel returns.                          *)
LEMMA AnswerKeeps ==
    ASSUME Inv, NEW c \in Conns, NEW k \in Kernels, Answer(c, k), UNCHANGED setup
    PROVE  Inv'
<1> DEFINE r == [conn[c] EXCEPT !.kept = @ \ {k}, !.out = @ \ {k}]
<1>1. conn[c] # Unused
  BY DEF Answer
<1>2. conn[c] \in ClientType /\ SoundClient(conn[c]) /\ conn[c].kept \cap unsent = {}
  BY <1>1, ClientKnown
<1>3. held' \in [Peers -> SUBSET Kernels]
  <2>1. conn[c].peer \in Peers
    BY <1>2 DEF ClientType
  <2> QED
    BY <2>1 DEF Answer, Inv, Rest
<1>4. Around
  BY <1>3 DEF Answer, Around, Inv, Rest
<1>5. CASE k \in conn[c].kept
  <2>1. /\ r.peer = conn[c].peer /\ r.fd = conn[c].fd /\ r.kept = conn[c].kept \ {k}
        /\ r.out = conn[c].out \ {k} /\ r.link = conn[c].link /\ r.state = conn[c].state
    BY <1>2 DEF ClientType
  <2>2. r \in ClientType
    BY <1>2 DEF ClientType
  <2>3. conn' = [conn EXCEPT ![c] = r]
    BY <1>2, <1>5 DEF Answer, Inv, Wired, ClientType
  <2> HIDE DEF r
  <2>4. SoundClient(r)
    BY <1>2, <2>1 DEF SoundClient
  <2>5. r.kept \cap unsent' = {}
    BY <1>2, <1>4, <2>1 DEF Around
  <2>6. Changed(conn')
    BY <1>1, <1>4, <2>1, <2>2, <2>3, <2>4, <2>5, OneChanged
  <2>7. back' \subseteq Kernels \ unsent'
    BY <1>2, <1>5 DEF Answer, Inv, Rest
  <2> QED
    BY <1>4, <2>6, <2>7, QuietChangeKeeps DEF Answer
<1>6. CASE k \notin conn[c].kept
  <2>1. UNCHANGED <<conn, back, clients, table, unsent>>
    BY <1>6 DEF Answer
  <2>2. Changed(conn')
    BY <2>1 DEF Changed, Inv, Wired, OnlySent
  <2>3. back' \subseteq Kernels \ unsent'
    BY <2>1 DEF Inv, Rest
  <2> QED
    BY <1>4, <2>1, <2>2, <2>3, QuietChangeKeeps
<1> QED
  BY <1>5, <1>6

(* The link of one client or of more changes, but none is closed.          *)
LEMMA LinksKeep ==
    ASSUME Inv, Around, UNCHANGED <<clients, table, back, unsent>>, NEW ls \in SUBSET Conns,
           NEW link \in Links \ {"none"},
           conn' = [c \in Conns |-> IF c \in ls THEN [conn[c] EXCEPT !.link = link] ELSE conn[c]],
           \A c \in ls : conn[c] # Unused /\ conn[c].link # "none"
    PROVE  Inv'
<1>1. ASSUME NEW c \in Conns
      PROVE  \/ conn'[c] = conn[c]
             \/ /\ conn[c] # Unused /\ conn[c].link # "none"
                /\ conn'[c] = [conn[c] EXCEPT !.link = link]
  OBVIOUS
<1>2. ASSUME NEW c \in Conns, conn[c] # Unused, conn[c].link # "none",
             conn'[c] = [conn[c] EXCEPT !.link = link]
      PROVE  /\ conn'[c] \in ClientType /\ SoundClient(conn'[c])
             /\ conn'[c].peer = conn[c].peer /\ conn'[c].fd = conn[c].fd
             /\ conn'[c].kept = conn[c].kept
  <2>1. conn[c] \in ClientType /\ SoundClient(conn[c])
    BY <1>2, ClientKnown
  <2>2. /\ conn'[c].peer = conn[c].peer /\ conn'[c].fd = conn[c].fd
        /\ conn'[c].kept = conn[c].kept /\ conn'[c].out = conn[c].out
        /\ conn'[c].state = conn[c].state /\ conn'[c].link = link
    BY <1>2, <2>1 DEF ClientType
  <2>3. conn'[c] \in ClientType
    BY <1>2, <2>1 DEF ClientType
  <2> QED
    BY <1>2, <2>1, <2>2, <2>3 DEF SoundClient
<1>3. \A c \in Conns : conn'[c] \in ClientType \cup {Unused}
  BY <1>1, <1>2 DEF Inv, Wired
<1>4. conn' \in [Conns -> ClientType \cup {Unused}]
  <2>1. conn' = [c \in Conns |-> conn'[c]]
    OBVIOUS
  <2> QED
    BY <1>3, <2>1
<1>5. \A c \in Conns : conn'[c] = Unused <=> conn[c] = Unused
  BY <1>1, <1>2, UnusedType
<1>6. \A c \in Conns : conn'[c] # Unused =>
         /\ SoundClient(conn'[c]) /\ conn'[c].peer = conn[c].peer
         /\ conn'[c].fd \in {conn[c].fd, Closed} /\ conn'[c].kept \cap unsent' = {}
  BY <1>1, <1>2 DEF Inv, Wired, OnlySent
<1>7. Changed(conn')
  BY <1>4, <1>5, <1>6 DEF Changed
<1>8. back' \subseteq Kernels \ unsent'
  BY DEF Inv, Rest
<1> QED
  BY <1>7, <1>8, QuietChangeKeeps

-----------------------------------------------------------------------------
(* What the loop does with an event of a socket.                           *)
LEMMA HandleKeeps ==
    ASSUME Inv, NEW f \in Descriptors, Handle(f), UNCHANGED setup
    PROVE  Inv'
<1>1. Around /\ table[f] # NoConn
  BY DEF Handle, Watched, environment, Around, Inv, Rest
<1>2. CASE conn[table[f]].link = "established"
  <2>1. Become(clients, table, [conn EXCEPT ![table[f]].state = "started"])
    BY <1>2 DEF Handle
  <2>2. table[f] \in Conns /\ conn[table[f]] # Unused
    BY <1>1, TableClient
  <2> QED
    BY <1>1, <2>1, <2>2, StateKeeps
<1>3. CASE conn[table[f]].link = "refused"
  <2>1. Deactivate(f)
    BY <1>3 DEF Handle
  <2> QED
    BY <1>1, <2>1, DeactivateKeeps
<1>4. CASE conn[table[f]].link = "ended"
  <2>1. Remove(f)
    BY <1>4 DEF Handle
  <2> QED
    BY <1>1, <2>1, RemoveKeeps
<1> QED
  BY <1>2, <1>3, <1>4 DEF Handle

(* The loop fails to write to a neighbour that has gone.                   *)
LEMMA WriteFailsKeeps ==
    ASSUME Inv, NEW f \in Descriptors, WriteFails(f), UNCHANGED setup
    PROVE  Inv'
BY DeactivateKeeps DEF WriteFails, Watched, environment, Around, Inv, Rest

(* The loop removes a client that was stopped.                             *)
LEMMA RemoveStoppedKeeps ==
    ASSUME Inv, NEW f \in Descriptors, RemoveStopped(f), UNCHANGED setup
    PROVE  Inv'
BY RemoveKeeps DEF RemoveStopped, Watched, environment, Around, Inv, Rest

(* connection_timeout has passed: the client waits, or tries again.        *)
LEMMA TimeOutKeeps ==
    ASSUME Inv, NEW f \in Descriptors, TimeOut(f), UNCHANGED setup
    PROVE  Inv'
<1>1. Around /\ table[f] # NoConn
  BY DEF TimeOut, Watched, environment, Around, Inv, Rest
<1>2. CASE Deactivate(f)
  BY <1>1, <1>2, DeactivateKeeps
<1>3. CASE conn[table[f]].state = "inactive" /\ Activate(f)
  BY <1>1, <1>3, ActivateKeeps
<1>4. CASE conn[table[f]].state = "inactive" /\ ActivateFails(f)
  BY <1>1, <1>4, ActivateFailsKeeps
<1> QED
  BY <1>2, <1>3, <1>4 DEF TimeOut

(* The superior of the cache is added.                                     *)
LEMMA AddClientKeeps ==
    ASSUME Inv, NEW p \in Peers, AddClient(p), UNCHANGED setup
    PROVE  Inv'
<1>1. Around
  BY DEF AddClient, Around, Inv, Rest
<1>2. AddNew(p, "connecting", {}) /\ {} \in SUBSET (Kernels \ unsent')
  BY DEF AddClient
<1> QED
  BY <1>1, <1>2, AddNewKeeps

(* A neighbour connects to this node.                                      *)
LEMMA AcceptKeeps ==
    ASSUME Inv, NEW p \in Peers, Accept(p), UNCHANGED setup
    PROVE  Inv'
<1>1. Around
  BY DEF Accept, environment, Around, Inv, Rest
<1>2. AddNew(p, "established", {}) /\ {} \in SUBSET (Kernels \ unsent')
  BY DEF Accept
<1> QED
  BY <1>1, <1>2, AddNewKeeps

(* The discoverer stops the client of its old superior.                    *)
LEMMA StopClientKeeps ==
    ASSUME Inv, NEW p \in Peers, StopClient(p), UNCHANGED setup
    PROVE  Inv'
<1>1. failures' \in 0..MaxFailures
  BY SetupType DEF StopClient, Inv, Rest
<1>2. Around
  BY <1>1 DEF StopClient, Around, Inv, Rest
<1>3. clients[p] \in Conns /\ conn[clients[p]] # Unused
  BY MapClient DEF StopClient
<1>4. Become(clients, table, [conn EXCEPT ![clients[p]].state = "stopped"])
  BY DEF StopClient
<1> QED
  BY <1>2, <1>3, <1>4, StateKeeps

(* The neighbour accepts, drops or refuses the connection.                 *)
LEMMA ConnectedKeeps ==
    ASSUME Inv, NEW c \in Conns, Connected(c), UNCHANGED setup
    PROVE  Inv'
<1>1. PICK link \in Links :
         /\ link \in {"established", "ended", "refused"}
         /\ conn' = [conn EXCEPT ![c].link = link]
  BY DEF Connected
<1>2. conn' = [d \in Conns |-> IF d \in {c} THEN [conn[d] EXCEPT !.link = link] ELSE conn[d]]
  BY <1>1 DEF Inv, Wired
<1>3. conn[c] # Unused /\ conn[c].link # "none"
  BY DEF Connected
<1>4. Around /\ UNCHANGED <<clients, table, back, unsent>>
  BY DEF Connected, environment, Around, Inv, Rest
<1>5. link \in Links \ {"none"} /\ {c} \in SUBSET Conns
  BY <1>1
<1>6. \A d \in {c} : conn[d] # Unused /\ conn[d].link # "none"
  BY <1>3
<1> QED
  BY <1>2, <1>4, <1>5, <1>6, LinksKeep

(* A link ends.                                                            *)
LEMMA LinkEndsKeeps ==
    ASSUME Inv, NEW c \in Conns, LinkEnds(c), UNCHANGED setup
    PROVE  Inv'
<1>1. failures' \in 0..MaxFailures
  BY SetupType DEF LinkEnds, Inv, Rest
<1>2. Around /\ UNCHANGED <<clients, table, back, unsent>>
  BY <1>1 DEF LinkEnds, Around, Inv, Rest
<1>3. conn' = [d \in Conns |-> IF d \in {c} THEN [conn[d] EXCEPT !.link = "ended"] ELSE conn[d]]
  BY DEF LinkEnds, EndLinks
<1>4. "ended" \in Links \ {"none"} /\ {c} \in SUBSET Conns
  BY DEF Links
<1>5. \A d \in {c} : conn[d] # Unused /\ conn[d].link # "none"
  BY DEF LinkEnds
<1> QED
  BY <1>2, <1>3, <1>4, <1>5, LinksKeep

(* The daemon of a neighbour ends and its links with it.                   *)
LEMMA PeerEndsKeeps ==
    ASSUME Inv, NEW p \in Peers, PeerEnds(p), UNCHANGED setup
    PROVE  Inv'
<1> DEFINE ls == {c \in Conns : conn[c] # Unused /\ conn[c].peer = p /\ conn[c].link = "established"}
<1>1. failures' \in 0..MaxFailures
  BY SetupType DEF PeerEnds, Inv, Rest
<1>2. held' \in [Peers -> SUBSET Kernels]
  BY DEF PeerEnds, Inv, Rest
<1>3. Around /\ UNCHANGED <<clients, table, back, unsent>>
  BY <1>1, <1>2 DEF PeerEnds, Around, Inv, Rest
<1>4. conn' = [d \in Conns |-> IF d \in ls THEN [conn[d] EXCEPT !.link = "ended"] ELSE conn[d]]
  BY DEF PeerEnds, EndLinks
<1>5. "ended" \in Links \ {"none"} /\ ls \in SUBSET Conns
  BY DEF Links
<1>6. \A d \in ls : conn[d] # Unused /\ conn[d].link # "none"
  OBVIOUS
<1> HIDE DEF ls
<1> QED
  BY <1>3, <1>4, <1>5, <1>6, LinksKeep

(* The daemon of a neighbour starts.                                       *)
LEMMA PeerStartsKeeps ==
    ASSUME Inv, NEW p \in Peers, PeerStarts(p), UNCHANGED setup
    PROVE  Inv'
<1>1. Around /\ UNCHANGED <<clients, table, back, unsent>>
  BY DEF PeerStarts, Around, Inv, Rest
<1>2. conn' = conn
  BY DEF PeerStarts
<1>3. Changed(conn')
  BY <1>1, <1>2 DEF Changed, Inv, Wired, OnlySent
<1>4. back' \subseteq Kernels \ unsent'
  BY <1>1 DEF Inv, Rest
<1> QED
  BY <1>1, <1>3, <1>4, QuietChangeKeeps

-----------------------------------------------------------------------------
(* Initially there are no clients.                                         *)
LEMMA InvInit == Init => Inv
<1> SUFFICES ASSUME Init PROVE Inv
  OBVIOUS
<1>1. \A c \in Conns : conn[c] = Unused
  BY DEF Init
<1>2. \A p \in Peers : clients[p] = NoConn
  BY DEF Init
<1>3. \A f \in Descriptors : table[f] = NoConn
  BY DEF Init
<1>4. Wired(clients, table, conn)
  <2>1. conn \in [Conns -> ClientType \cup {Unused}]
    BY DEF Init
  <2>2. clients \in [Peers -> Conns \cup {NoConn}] /\ table \in [Descriptors -> Conns \cup {NoConn}]
    BY DEF Init
  <2> QED
    BY <1>1, <1>2, <1>3, <2>1, <2>2 DEF Wired
<1>5. Served(clients, table, conn)
  BY <1>1, <1>2, UnusedType DEF Served
<1>6. Rest
  BY SetupType DEF Init, Rest
<1> QED
  BY <1>1, <1>4, <1>5, <1>6 DEF Inv, OnlySent

(* One step of the node or of its neighbours.                              *)
LEMMA InvStep == Inv /\ [Next]_vars => Inv'
<1> SUFFICES ASSUME Inv, [Next]_vars PROVE Inv'
  OBVIOUS
<1>1. CASE UNCHANGED vars
  BY <1>1 DEF vars, moving, environment, Inv, Wired, Served, OnlySent, Rest, InUse,
              ClientType, SoundClient, Descriptors, maxAttempts, MaxFailures
<1>2. CASE Next
  <2>1. UNCHANGED setup
    BY <1>2 DEF Next
  <2>2. ASSUME NEW k \in Kernels, NEW p \in Peers, Send(k, p) PROVE Inv'
    BY <2>1, <2>2, SendKeeps
  <2>3. ASSUME NEW p \in Peers,
               AddClient(p) \/ StopClient(p) \/ Accept(p) \/ PeerEnds(p) \/ PeerStarts(p)
        PROVE  Inv'
    BY <2>1, <2>3, AddClientKeeps, StopClientKeeps, AcceptKeeps, PeerEndsKeeps, PeerStartsKeeps
  <2>4. ASSUME NEW f \in Descriptors,
               Handle(f) \/ Write(f) \/ WriteFails(f) \/ RemoveStopped(f) \/ TimeOut(f)
        PROVE  Inv'
    BY <2>1, <2>4, HandleKeeps, WriteKeeps, WriteFailsKeeps, RemoveStoppedKeeps, TimeOutKeeps
  <2>5. ASSUME NEW c \in Conns, Connected(c) \/ LinkEnds(c) PROVE Inv'
    BY <2>1, <2>5, ConnectedKeeps, LinkEndsKeeps
  <2>6. ASSUME NEW c \in Conns, NEW k \in Kernels, Answer(c, k) PROVE Inv'
    BY <2>1, <2>6, AnswerKeeps
  <2> QED
    BY <1>2, <2>2, <2>3, <2>4, <2>5, <2>6 DEF Next, Move
<1> QED
  BY <1>1, <1>2

(* The inductive invariant: the map and the table refer to clients of      *)
(* their own, nobody else is a client, and a socket has its place.         *)
THEOREM InvInvariance == Spec => []Inv
BY InvInit, InvStep, PTL DEF Spec

(* What the thread keeps stays within its types, and a client without a    *)
(* socket has no link.                                                     *)
THEOREM TypeCorrect == Spec => []TypeOK
<1>1. Inv => TypeOK
  <2> SUFFICES ASSUME Inv PROVE TypeOK
    OBVIOUS
  <2>1. ASSUME NEW c \in Conns, conn[c] # Unused
        PROVE  /\ conn[c].peer \in Peers /\ conn[c].state \in States /\ conn[c].link \in Links
               /\ conn[c].attempts \in 1..maxAttempts
               /\ conn[c].kept \subseteq Kernels /\ conn[c].out \subseteq conn[c].kept
               /\ (conn[c].link = "none") = (conn[c].fd = Closed)
    <3>1. conn[c] \in ClientType /\ SoundClient(conn[c])
      BY <2>1, ClientKnown
    <3> QED
      BY <3>1 DEF ClientType, SoundClient
  <2> QED
    BY <2>1 DEF TypeOK, Inv, Wired, Rest
<1> QED
  BY <1>1, InvInvariance, PTL

(* handle_events() finds the client of an event by its descriptor: every   *)
(* open socket has its own client in its place, however many clients wait, *)
(* try again and lose their places; and with one attempt every client in   *)
(* the map is in the table, so that it is removed one day.                 *)
THEOREM EverySocketServed == Spec => []SocketsServed
<1>1. Inv => SocketsServed
  <2> SUFFICES ASSUME Inv PROVE SocketsServed
    OBVIOUS
  <2>1. ASSUME NEW c \in Conns, conn[c].fd # Closed PROVE table[conn[c].fd] = c
    <3>1. InUse(clients, table, c)
      BY <2>1, UnusedType DEF Inv
    <3> QED
      BY <2>1, <3>1 DEF Inv, Served
  <2>2. ASSUME maxAttempts = 1, NEW c \in Range(clients) \ {NoConn} PROVE c \in Range(table)
    <3>1. PICK p \in Peers : clients[p] = c
      BY DEF Inv, Wired, Range
    <3>2. PICK f \in Descriptors : table[f] = c
      BY <2>2, <3>1 DEF Inv, Served
    <3> QED
      BY <3>2 DEF Inv, Wired, Range
  <2> QED
    BY <2>1, <2>2 DEF SocketsServed
<1> QED
  BY <1>1, InvInvariance, PTL
=============================================================================
