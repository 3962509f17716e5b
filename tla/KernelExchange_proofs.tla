------------------------ MODULE KernelExchange_proofs ------------------------
(***************************************************************************)
(* Proofs about KernelExchange for any sets of kernels, parents and peers. *)
(***************************************************************************)
EXTENDS KernelExchange, SetLemmas

-----------------------------------------------------------------------------
(* A child handed back extends what the parent got for that child only.    *)
LEMMA HandBackType ==
    ASSUME TypeOK, NEW k \in Kernels, NEW code \in ExitCodes, NEW of \in Kernels,
           HandBack(k, code, of)
    PROVE  returned' \in [Kernels -> Seq(Return)]
<1> DEFINE r == [code |-> code, of |-> of]
<1>1. r \in Return
  BY DEF Return
<1>2. returned[k] \in Seq(Return)
  BY DEF TypeOK
<1>3. Append(returned[k], r) \in Seq(Return)
  BY <1>1, <1>2
<1> QED
  BY <1>3 DEF HandBack, TypeOK

(* Writing a kernel to the connection of a peer keeps the client and the   *)
(* network well typed.                                                     *)
LEMMA SendType ==
    ASSUME TypeOK, NEW p \in Peers, NEW k \in Kernels, Send(p, k)
    PROVE  /\ NextId(p, k) \in Nat
           /\ NextId(p, k) > counter[p]
           /\ conn' \in [Peers -> ClientStates]
           /\ upstream' \in [Peers -> SUBSET Saved]
           /\ counter' \in [Peers -> Nat]
           /\ load' \in [Peers -> Nat]
           /\ identified' \subseteq Parents
           /\ request' \in [Peers -> SUBSET Message]
<1>1. NextId(p, k) \in Nat /\ NextId(p, k) > counter[p]
  BY DEF NextId, TypeOK
<1>2. LoadAfterWrite(p, k) \in Nat
  BY ExchangeAssumption DEF LoadAfterWrite, TypeOK
<1>3. [kernel |-> k, id |-> NextId(p, k)] \in Saved
  BY <1>1 DEF Saved
<1>4. [kernel |-> k, id |-> NextId(p, k), session |-> session[p]] \in Message
  BY <1>1 DEF Message, TypeOK
<1>5. conn' \in [Peers -> ClientStates]
  BY DEF Send, TypeOK, ClientStates
<1>6. upstream' \in [Peers -> SUBSET Saved]
  BY <1>3 DEF Send, TypeOK
<1>7. request' \in [Peers -> SUBSET Message]
  BY <1>4 DEF Send, TypeOK
<1>8. counter' \in [Peers -> Nat] /\ load' \in [Peers -> Nat]
  BY <1>1, <1>2 DEF Send, TypeOK
<1>9. identified' \subseteq Parents
  BY ExchangeAssumption DEF Send, TypeOK
<1> QED
  BY <1>1, <1>5, <1>6, <1>7, <1>8, <1>9

(* What the loss of a client hands back is at most one well-typed entry    *)
(* per child, and only children the client had saved are concerned.        *)
LEMMA RecoveryType ==
    ASSUME TypeOK, NEW p \in Peers, NEW seen \in SUBSET Message,
           NEW answer \in Answers(p, seen), NEW k \in Kernels
    PROVE  /\ SavedKernels(p) \subseteq Kernels
           /\ DOMAIN answer \subseteq SavedKernels(p)
           /\ RecoveryReturn(p, answer, k) \in Seq(Return)
           /\ Len(RecoveryReturn(p, answer, k)) <= 1
           /\ RecoveryReturn(p, answer, k) # <<>> <=>
                 \/ k \in DOMAIN answer
                 \/ k \in SavedKernels(p) /\ pipeline = "started" /\ ~Reroutable(k)
<1>1. SavedKernels(p) \subseteq Kernels
  BY DEF SavedKernels, TypeOK, Saved
<1>2. DOMAIN answer \subseteq SavedKernels(p) /\ \A j \in DOMAIN answer : answer[j] \in Kernels
  BY DEF Answers
<1>3. CASE k \in DOMAIN answer
  <2>1. [code |-> "success", of |-> answer[k]] \in Return
    BY <1>2, <1>3 DEF Return, ExitCodes
  <2> QED
    BY <1>1, <1>2, <1>3, <2>1 DEF RecoveryReturn
<1>4. CASE k \notin DOMAIN answer
  <2>1. [code |-> "endpoint_not_connected", of |-> k] \in Return
    BY DEF Return, ExitCodes
  <2> QED
    BY <1>1, <1>2, <1>4, <2>1 DEF RecoveryReturn
<1> QED
  BY <1>3, <1>4

-----------------------------------------------------------------------------
(* Every action keeps the variables well typed.                            *)
LEMMA TypeStep ==
    ASSUME TypeOK, [Next]_vars
    PROVE  TypeOK'
<1>1. ASSUME NEW k \in Kernels, Submit(k) PROVE TypeOK'
  BY <1>1 DEF Submit, TypeOK, client, network
<1>2. ASSUME NEW k \in Kernels, NEW p \in Peers, SendToNeighbour(k, p) PROVE TypeOK'
  <2>1. Send(p, k)
    BY <1>2 DEF SendToNeighbour
  <2> QED
    BY <1>2, <2>1, SendType DEF SendToNeighbour, TypeOK
<1>3. ASSUME NEW k \in Kernels, SendToLocal(k) PROVE TypeOK'
  BY <1>3 DEF SendToLocal, TypeOK, client, network
<1>4. ASSUME NEW k \in Kernels, ReturnNoResources(k) PROVE TypeOK'
  <2>1. returned' \in [Kernels -> Seq(Return)]
    BY <1>4, HandBackType DEF ReturnNoResources, ExitCodes
  <2> QED
    BY <1>4, <2>1 DEF ReturnNoResources, TypeOK, client, network
<1>5. ASSUME NEW k \in Kernels, SendToDestination(k) PROVE TypeOK'
  <2>1. Destination[k] \in Peers
    BY <1>5, ExchangeAssumption DEF SendToDestination
  <2>2. CASE Send(Destination[k], k) /\ UNCHANGED returned
    BY <1>5, <2>1, <2>2, SendType DEF SendToDestination, TypeOK
  <2>3. CASE HandBack(k, "no_upstream_servers_available", k)
             /\ UNCHANGED <<conn, counter, identified, load, upstream, request>>
    <3>1. returned' \in [Kernels -> Seq(Return)]
      BY <2>3, HandBackType DEF ExitCodes
    <3> QED
      BY <1>5, <2>3, <3>1 DEF SendToDestination, TypeOK
  <2> QED
    BY <1>5, <2>2, <2>3 DEF SendToDestination
<1>6. ASSUME NEW k \in Kernels, ExecuteLocally(k) PROVE TypeOK'
  BY <1>6 DEF ExecuteLocally, TypeOK, client, network
<1>7. ASSUME NEW k \in Kernels, ReturnFinished(k) PROVE TypeOK'
  <2>1. returned' \in [Kernels -> Seq(Return)]
    BY <1>7, HandBackType DEF ReturnFinished, ExitCodes
  <2> QED
    BY <1>7, <2>1 DEF ReturnFinished, TypeOK, client, network
<1>8. ASSUME NEW p \in Peers, NEW m \in request[p], PeerReceives(p, m) PROVE TypeOK'
  BY <1>8 DEF PeerReceives, TypeOK, near, client
<1>9. ASSUME NEW p \in Peers, NEW m \in running[p], PeerReplies(p, m) PROVE TypeOK'
  <2>1. running' \in [Peers -> SUBSET Message]
    BY <1>9 DEF PeerReplies, TypeOK
  <2>2. reply' \in [Peers -> SUBSET Message]
    <3>1. m \in Message
      BY DEF TypeOK
    <3>2. [reply EXCEPT ![p] = @ \cup {m}] \in [Peers -> SUBSET Message]
      BY <3>1 DEF TypeOK
    <3>3. reply' = reply \/ reply' = [reply EXCEPT ![p] = @ \cup {m}]
      BY <1>9 DEF PeerReplies
    <3> QED
      BY <3>2, <3>3 DEF TypeOK
  <2>3. conn' \in [Peers -> ClientStates] /\ link' \in [Peers -> BOOLEAN]
    <3>1. \/ UNCHANGED <<conn, link>>
          \/ /\ conn' = [conn EXCEPT ![p] = "starting"]
             /\ link' = [link EXCEPT ![p] = TRUE]
      BY <1>9 DEF PeerReplies
    <3> QED
      BY <3>1 DEF TypeOK, ClientStates
  <2>4. UNCHANGED <<near, upstream, counter, load, session, request, losses>>
    BY <1>9 DEF PeerReplies
  <2> QED
    BY <2>1, <2>2, <2>3, <2>4 DEF TypeOK, near
<1>10. ASSUME NEW p \in Peers, Connect(p) PROVE TypeOK'
  BY <1>10 DEF Connect, TypeOK, near, network, ClientStates
<1>11. ASSUME NEW p \in Peers, Established(p) PROVE TypeOK'
  BY <1>11 DEF Established, TypeOK, near, ClientStates
<1>12. ASSUME NEW p \in Peers, NEW m \in reply[p], ReceiveReply(p, m) PROVE TypeOK'
  <2>1. m.kernel \in Kernels /\ LoadAfterRead(p, m) \in Nat
    BY ExchangeAssumption DEF LoadAfterRead, TypeOK, Message
  <2>2. /\ upstream' \in [Peers -> SUBSET Saved]
        /\ returned' \in [Kernels -> Seq(Return)]
    <3>1. CASE UNCHANGED <<upstream, returned>>
      BY <3>1 DEF TypeOK
    <3>2. ASSUME NEW s \in Matching(p, m),
                 upstream' = [upstream EXCEPT ![p] = @ \ {s}],
                 HandBack(s.kernel, "success", m.kernel)
          PROVE  /\ upstream' \in [Peers -> SUBSET Saved]
                 /\ returned' \in [Kernels -> Seq(Return)]
      <4>1. s.kernel \in Kernels
        BY DEF Matching, TypeOK, Saved
      <4> QED
        BY <2>1, <3>2, <4>1, HandBackType DEF TypeOK, ExitCodes
    <3> QED
      BY <1>12, <3>1, <3>2 DEF ReceiveReply
  <2> QED
    BY <1>12, <2>1, <2>2 DEF ReceiveReply, TypeOK, ClientStates
<1>13. ASSUME NEW p \in Peers, RemoveClient(p) PROVE TypeOK'
  <2>0. PICK seen \in {{}, reply[p]} : \E answer \in Answers(p, seen) :
           /\ returned' = [k \in Kernels |-> returned[k] \o RecoveryReturn(p, answer, k)]
           /\ queue' = queue \cup Resent(p, answer)
           /\ trash' = trash \cup Trashed(p, answer)
    BY <1>13 DEF RemoveClient
  <2>1. PICK answer \in Answers(p, seen) :
           /\ returned' = [k \in Kernels |-> returned[k] \o RecoveryReturn(p, answer, k)]
           /\ queue' = queue \cup Resent(p, answer)
           /\ trash' = trash \cup Trashed(p, answer)
    BY <2>0
  <2>2. seen \in SUBSET Message
    BY DEF TypeOK
  <2>3. SavedKernels(p) \subseteq Kernels
    BY DEF SavedKernels, TypeOK, Saved
  <2>4. queue' \subseteq Kernels /\ trash' \subseteq Kernels
    BY <2>1, <2>3 DEF Resent, Trashed, TypeOK
  <2>5. returned' \in [Kernels -> Seq(Return)]
    <3>1. \A k \in Kernels : RecoveryReturn(p, answer, k) \in Seq(Return)
      BY <2>2, RecoveryType
    <3>2. \A k \in Kernels : returned[k] \in Seq(Return)
      BY DEF TypeOK
    <3>3. \A k \in Kernels : returned[k] \o RecoveryReturn(p, answer, k) \in Seq(Return)
      BY <3>1, <3>2
    <3> QED
      BY <2>1, <3>3
  <2> QED
    BY <1>13, <2>4, <2>5 DEF RemoveClient, TypeOK, ClientStates
<1>14. ASSUME NEW p \in Peers, BreakLink(p) PROVE TypeOK'
  <2>1. request' \in [Peers -> SUBSET Message] /\ reply' \in [Peers -> SUBSET Message]
    BY <1>14 DEF BreakLink, TypeOK
  <2>2. running' \in [Peers -> SUBSET Message]
    BY <1>14 DEF BreakLink, TypeOK
  <2> QED
    BY <1>14, <2>1, <2>2 DEF BreakLink, TypeOK, near, client
<1>15. ASSUME NEW p \in Peers, StopClient(p) PROVE TypeOK'
  BY <1>15 DEF StopClient, TypeOK, near, ClientStates
<1>16. CASE Stop
  BY <1>16 DEF Stop, TypeOK, network, PipelineStates, ClientStates
<1>17. CASE LoopExit
  BY <1>17 DEF LoopExit, TypeOK, client, network, PipelineStates
<1>18. CASE Clear
  BY <1>18 DEF Clear, TypeOK, network, PipelineStates, SavedKernels, Saved
<1>19. CASE UNCHANGED vars
  BY <1>19 DEF vars, near, client, network, TypeOK
<1> QED
  BY <1>1, <1>2, <1>3, <1>4, <1>5, <1>6, <1>7, <1>8, <1>9, <1>10, <1>11, <1>12,
     <1>13, <1>14, <1>15, <1>16, <1>17, <1>18, <1>19 DEF Next

(* Every state the exchange can be in is well typed: in particular the     *)
(* load never leaves the naturals although replies of an earlier client    *)
(* are subtracted from it.                                                 *)
THEOREM TypeCorrect == Spec => []TypeOK
<1>1. Init => TypeOK
  BY DEF Init, TypeOK, PipelineStates, ClientStates
<1>2. TypeOK /\ [Next]_vars => TypeOK'
  BY TypeStep
<1> QED
  BY <1>1, <1>2, PTL DEF Spec

-----------------------------------------------------------------------------
(* Nothing changes for the copies and the parents when the two variables   *)
(* that hold them do not change.                                           *)
LEMMA CopiesUnchanged ==
    ASSUME UNCHANGED upstream
    PROVE  /\ InFlight' = InFlight
           /\ OneCopy' <=> OneCopy
           /\ \A p \in Peers : SavedKernels(p)' = SavedKernels(p)
BY DEF InFlight, OneCopy, SavedKernels

(* ... nor for the parents, when what they got does not change.            *)
LEMMA ReturnsUnchanged ==
    ASSUME UNCHANGED returned
    PROVE  /\ HandedBack' = HandedBack
           /\ HandedBackOnce' <=> HandedBackOnce
BY DEF HandedBack, HandedBackOnce

(* A kernel that was in no connection is saved in one.                     *)
LEMMA SendCopies ==
    ASSUME TypeOK, OneCopy, NEW p \in Peers, NEW k \in Kernels, Send(p, k), k \notin InFlight
    PROVE  InFlight' = InFlight \cup {k} /\ OneCopy'
<1> DEFINE c == [kernel |-> k, id |-> NextId(p, k)]
<1>1. \A q \in Peers : upstream'[q] = IF q = p THEN upstream[p] \cup {c} ELSE upstream[q]
  BY DEF Send, TypeOK
<1>2. \A q \in Peers :
        SavedKernels(q)' = IF q = p THEN SavedKernels(p) \cup {k} ELSE SavedKernels(q)
  <2>1. c.kernel = k
    OBVIOUS
  <2> HIDE DEF c
  <2>2. \A j : j \in SavedKernels(p)' <=> j \in SavedKernels(p) \cup {k}
    BY <1>1, <2>1 DEF SavedKernels
  <2>3. \A q \in Peers : q # p => SavedKernels(q)' = SavedKernels(q)
    BY <1>1 DEF SavedKernels
  <2> QED
    BY <2>2, <2>3
<1>3. \A q \in Peers : k \notin SavedKernels(q)
  BY DEF InFlight
<1>4. InFlight' = InFlight \cup {k}
  BY <1>2 DEF InFlight
<1>5. \A q, r \in Peers : q # r => SavedKernels(q)' \cap SavedKernels(r)' = {}
  BY <1>2, <1>3 DEF OneCopy
<1>6. \A s \in upstream[p] : s.kernel # k
  BY <1>3 DEF SavedKernels
<1>7. \A q \in Peers : \A s, t \in upstream'[q] : s.kernel = t.kernel => s = t
  BY <1>1, <1>6 DEF OneCopy
<1> QED
  BY <1>4, <1>5, <1>7 DEF OneCopy

(* A kernel that was not handed back before is handed back.                *)
LEMMA HandBackOnce ==
    ASSUME TypeOK, HandedBackOnce, NEW k \in Kernels, k \notin HandedBack,
           NEW code \in ExitCodes, NEW of \in Kernels, HandBack(k, code, of)
    PROVE  HandedBack' = HandedBack \cup {k} /\ HandedBackOnce'
<1> DEFINE r == [code |-> code, of |-> of]
<1>1. r \in Return
  BY DEF Return
<1>2. returned[k] = <<>>
  BY DEF HandedBack
<1>3. Append(returned[k], r) = <<r>>
  BY <1>1, <1>2
<1>4. \A j \in Kernels : returned'[j] = IF j = k THEN <<r>> ELSE returned[j]
  BY <1>3 DEF HandBack, TypeOK
<1>5. <<r>> # <<>> /\ Len(<<r>>) = 1
  BY <1>1
<1>6. HandedBack' = HandedBack \cup {k}
  BY <1>4, <1>5 DEF HandedBack
<1>7. \A j \in Kernels : Len(returned'[j]) <= 1
  <2> TAKE j \in Kernels
  <2>1. CASE j = k
    <3>1. returned'[j] = <<r>>
      BY <1>4, <2>1
    <3>2. Len(returned'[j]) = 1
      BY <1>5, <3>1
    <3> QED
      BY <3>2
  <2>2. CASE j # k
    BY <1>4, <2>2 DEF HandedBackOnce
  <2> QED
    BY <2>1, <2>2
<1> QED
  BY <1>6, <1>7 DEF HandedBackOnce

(* The loss of a client takes its copies away.                             *)
LEMMA ForgetCopies ==
    ASSUME TypeOK, OneCopy, NEW p \in Peers, upstream' = [upstream EXCEPT ![p] = {}]
    PROVE  InFlight' = InFlight \ SavedKernels(p) /\ OneCopy'
<1>1. \A q \in Peers : upstream'[q] = IF q = p THEN {} ELSE upstream[q]
  BY DEF TypeOK
<1>2. \A q \in Peers : SavedKernels(q)' = IF q = p THEN {} ELSE SavedKernels(q)
  BY <1>1 DEF SavedKernels
<1>3. InFlight' = InFlight \ SavedKernels(p)
  BY <1>2 DEF InFlight, OneCopy
<1>4. OneCopy'
  BY <1>1, <1>2 DEF OneCopy
<1> QED
  BY <1>3, <1>4

(* The answer to a copy takes that copy away.                              *)
LEMMA ForgetCopy ==
    ASSUME TypeOK, OneCopy, NEW p \in Peers, NEW s \in upstream[p],
           upstream' = [upstream EXCEPT ![p] = @ \ {s}]
    PROVE  InFlight' = InFlight \ {s.kernel} /\ OneCopy'
<1>1. \A q \in Peers : upstream'[q] = IF q = p THEN upstream[p] \ {s} ELSE upstream[q]
  BY DEF TypeOK
<1>2. \A q \in Peers :
        SavedKernels(q)' = IF q = p THEN SavedKernels(p) \ {s.kernel} ELSE SavedKernels(q)
  BY <1>1 DEF SavedKernels, OneCopy
<1>3. s.kernel \in SavedKernels(p)
  BY DEF SavedKernels
<1>4. InFlight' = InFlight \ {s.kernel}
  BY <1>2, <1>3 DEF InFlight, OneCopy
<1>5. OneCopy'
  BY <1>1, <1>2 DEF OneCopy
<1> QED
  BY <1>4, <1>5

-----------------------------------------------------------------------------
(* No step copies or loses a child: every action moves it from one owner   *)
(* to another.                                                             *)
LEMMA SingleOwnerStep ==
    ASSUME TypeOK, SingleOwner, [Next]_vars
    PROVE  SingleOwner'
<1> USE DEF SingleOwner
<1>1. ASSUME NEW k \in Kernels, Submit(k) PROVE SingleOwner'
  <2>1. UNCHANGED <<upstream, returned>>
    BY <1>1 DEF Submit, client
  <2> QED
    BY <1>1, <2>1, CopiesUnchanged, ReturnsUnchanged DEF Submit, Partition
<1>2. ASSUME NEW k \in Kernels, NEW p \in Peers, SendToNeighbour(k, p) PROVE SingleOwner'
  <2>1. Send(p, k) /\ UNCHANGED returned /\ k \in queue
    BY <1>2 DEF SendToNeighbour
  <2>2. k \notin InFlight
    BY <2>1 DEF Partition
  <2>3. InFlight' = InFlight \cup {k} /\ OneCopy'
    BY <2>1, <2>2, SendCopies
  <2> QED
    BY <1>2, <2>1, <2>3, ReturnsUnchanged DEF SendToNeighbour, Partition
<1>3. ASSUME NEW k \in Kernels, SendToLocal(k) PROVE SingleOwner'
  <2>1. UNCHANGED <<upstream, returned>>
    BY <1>3 DEF SendToLocal, client
  <2> QED
    BY <1>3, <2>1, CopiesUnchanged, ReturnsUnchanged DEF SendToLocal, Partition
<1>4. ASSUME NEW k \in Kernels, ReturnNoResources(k) PROVE SingleOwner'
  <2>1. HandBack(k, "no_resources", k) /\ k \in queue /\ UNCHANGED upstream
    BY <1>4 DEF ReturnNoResources, client
  <2>2. k \notin HandedBack
    BY <2>1 DEF Partition
  <2>3. HandedBack' = HandedBack \cup {k} /\ HandedBackOnce'
    BY <2>1, <2>2, HandBackOnce DEF ExitCodes
  <2> QED
    BY <1>4, <2>1, <2>3, CopiesUnchanged DEF ReturnNoResources, Partition
<1>5. ASSUME NEW k \in Kernels, SendToDestination(k) PROVE SingleOwner'
  <2>1. Destination[k] \in Peers
    BY <1>5, ExchangeAssumption DEF SendToDestination
  <2>2. k \in queue /\ k \notin InFlight /\ k \notin HandedBack
    BY <1>5 DEF SendToDestination, Partition
  <2>3. CASE Send(Destination[k], k) /\ UNCHANGED returned
    <3>1. InFlight' = InFlight \cup {k} /\ OneCopy'
      BY <2>1, <2>2, <2>3, SendCopies
    <3> QED
      BY <1>5, <2>2, <2>3, <3>1, ReturnsUnchanged DEF SendToDestination, Partition
  <2>4. CASE HandBack(k, "no_upstream_servers_available", k) /\ UNCHANGED upstream
    <3>1. HandedBack' = HandedBack \cup {k} /\ HandedBackOnce'
      BY <2>2, <2>4, HandBackOnce DEF ExitCodes
    <3> QED
      BY <1>5, <2>2, <2>4, <3>1, CopiesUnchanged DEF SendToDestination, Partition
  <2> QED
    BY <1>5, <2>3, <2>4 DEF SendToDestination
<1>6. ASSUME NEW k \in Kernels, ExecuteLocally(k) PROVE SingleOwner'
  <2>1. UNCHANGED <<upstream, returned>>
    BY <1>6 DEF ExecuteLocally, client
  <2> QED
    BY <1>6, <2>1, CopiesUnchanged, ReturnsUnchanged DEF ExecuteLocally, Partition
<1>7. ASSUME NEW k \in Kernels, ReturnFinished(k) PROVE SingleOwner'
  <2>1. HandBack(k, "success", k) /\ k \in finished /\ UNCHANGED upstream
    BY <1>7 DEF ReturnFinished, client
  <2>2. k \notin HandedBack
    BY <2>1 DEF Partition
  <2>3. HandedBack' = HandedBack \cup {k} /\ HandedBackOnce'
    BY <2>1, <2>2, HandBackOnce DEF ExitCodes
  <2> QED
    BY <1>7, <2>1, <2>3, CopiesUnchanged DEF ReturnFinished, Partition
<1>8. ASSUME NEW p \in Peers, NEW m \in reply[p], ReceiveReply(p, m) PROVE SingleOwner'
  <2>1. UNCHANGED <<fresh, queue, local, finished, trash>>
    BY <1>8 DEF ReceiveReply
  <2>2. CASE UNCHANGED <<upstream, returned>>
    BY <2>1, <2>2, CopiesUnchanged, ReturnsUnchanged DEF Partition
  <2>3. ASSUME NEW s \in Matching(p, m),
               upstream' = [upstream EXCEPT ![p] = @ \ {s}],
               HandBack(s.kernel, "success", m.kernel)
        PROVE  SingleOwner'
    <3>1. s \in upstream[p] /\ s.kernel \in Kernels /\ m.kernel \in Kernels
      BY DEF Matching, TypeOK, Saved, Message
    <3>2. s.kernel \in InFlight
      BY <3>1 DEF InFlight, SavedKernels
    <3>3. s.kernel \notin HandedBack
      BY <3>2 DEF Partition
    <3>4. HandedBack' = HandedBack \cup {s.kernel} /\ HandedBackOnce'
      BY <2>3, <3>1, <3>3, HandBackOnce DEF ExitCodes
    <3>5. InFlight' = InFlight \ {s.kernel} /\ OneCopy'
      BY <2>3, <3>1, ForgetCopy
    <3> QED
      BY <2>1, <3>2, <3>4, <3>5 DEF Partition
  <2> QED
    BY <1>8, <2>2, <2>3 DEF ReceiveReply
<1>9. ASSUME NEW p \in Peers, RemoveClient(p) PROVE SingleOwner'
  <2>1. PICK seen \in {{}, reply[p]} : \E answer \in Answers(p, seen) :
           /\ returned' = [k \in Kernels |-> returned[k] \o RecoveryReturn(p, answer, k)]
           /\ queue' = queue \cup Resent(p, answer)
           /\ trash' = trash \cup Trashed(p, answer)
    BY <1>9 DEF RemoveClient
  <2>2. PICK answer \in Answers(p, seen) :
           /\ returned' = [k \in Kernels |-> returned[k] \o RecoveryReturn(p, answer, k)]
           /\ queue' = queue \cup Resent(p, answer)
           /\ trash' = trash \cup Trashed(p, answer)
    BY <2>1
  <2>3. seen \in SUBSET Message
    BY DEF TypeOK
  <2> DEFINE B == {k \in Kernels : RecoveryReturn(p, answer, k) # <<>>}
  <2>4. /\ SavedKernels(p) \subseteq InFlight
        /\ SavedKernels(p) \subseteq Kernels
        /\ DOMAIN answer \subseteq SavedKernels(p)
    BY <2>3, RecoveryType DEF InFlight, Answers, SavedKernels, TypeOK, Saved
  <2>5. /\ B \subseteq SavedKernels(p)
        /\ B \cup Resent(p, answer) \cup Trashed(p, answer) = SavedKernels(p)
        /\ B \cap Resent(p, answer) = {}
        /\ B \cap Trashed(p, answer) = {}
        /\ Resent(p, answer) \cap Trashed(p, answer) = {}
    <3>1. \A k \in Kernels : k \in B <=>
             \/ k \in DOMAIN answer
             \/ k \in SavedKernels(p) /\ pipeline = "started" /\ ~Reroutable(k)
      BY <2>3, RecoveryType
    <3>2. pipeline \in {"started", "stopping"}
      BY <1>9 DEF RemoveClient
    <3> HIDE DEF B
    <3>3. B \subseteq Kernels
      BY DEF B
    <3> QED
      BY <2>4, <3>1, <3>2, <3>3 DEF Resent, Trashed
  <2>6. HandedBack' = HandedBack \cup B /\ HandedBackOnce'
    <3>1. \A k \in Kernels : returned'[k] = returned[k] \o RecoveryReturn(p, answer, k)
      BY <2>2
    <3>2. \A k \in Kernels : returned[k] \in Seq(Return) /\ Len(returned[k]) <= 1
      BY DEF TypeOK, HandedBackOnce
    <3>3. \A k \in Kernels : /\ RecoveryReturn(p, answer, k) \in Seq(Return)
                             /\ Len(RecoveryReturn(p, answer, k)) <= 1
      BY <2>3, RecoveryType
    <3>4. \A k \in Kernels : returned[k] = <<>> \/ RecoveryReturn(p, answer, k) = <<>>
      <4>1. B \cap HandedBack = {}
        BY <2>4, <2>5 DEF Partition
      <4> QED
        BY <4>1 DEF HandedBack
    <3>5. \A k \in Kernels :
             returned'[k] = IF returned[k] = <<>> THEN RecoveryReturn(p, answer, k)
                                                  ELSE returned[k]
      <4> TAKE k \in Kernels
      <4>1. CASE returned[k] = <<>>
        BY <3>1, <3>3, <4>1
      <4>2. CASE returned[k] # <<>>
        BY <3>1, <3>2, <3>4, <4>2
      <4> QED
        BY <4>1, <4>2
    <3>6. HandedBackOnce'
      BY <3>2, <3>3, <3>5 DEF HandedBackOnce
    <3>7. HandedBack' = HandedBack \cup B
      BY <3>4, <3>5 DEF HandedBack
    <3> QED
      BY <3>6, <3>7
  <2>7. InFlight' = InFlight \ SavedKernels(p) /\ OneCopy'
    BY <1>9, ForgetCopies DEF RemoveClient
  <2>8. UNCHANGED <<fresh, local, finished>>
    BY <1>9 DEF RemoveClient
  <2> HIDE DEF B
  <2> QED
    BY <2>2, <2>4, <2>5, <2>6, <2>7, <2>8 DEF Partition
<1>10. CASE Clear
  <2>1. UNCHANGED <<returned, fresh>>
    BY <1>10 DEF Clear
  <2>2. \A p \in Peers : SavedKernels(p)' = {} /\ upstream'[p] = {}
    BY <1>10 DEF Clear, SavedKernels
  <2>3. InFlight' = {} /\ OneCopy'
    BY <2>2 DEF InFlight, OneCopy
  <2> QED
    BY <1>10, <2>1, <2>3, ReturnsUnchanged DEF Clear, Partition, InFlight
<1>11. ASSUME UNCHANGED <<fresh, queue, local, finished, trash, upstream, returned>>
       PROVE  SingleOwner'
  BY <1>11, CopiesUnchanged, ReturnsUnchanged DEF Partition
<1>12. ASSUME NEW p \in Peers, NEW m \in request[p], PeerReceives(p, m) PROVE SingleOwner'
  BY <1>12, <1>11 DEF PeerReceives, near, client
<1>13. ASSUME NEW p \in Peers, NEW m \in running[p], PeerReplies(p, m) PROVE SingleOwner'
  BY <1>13, <1>11 DEF PeerReplies, near
<1>14. ASSUME NEW p \in Peers, Connect(p) PROVE SingleOwner'
  BY <1>14, <1>11 DEF Connect, near
<1>15. ASSUME NEW p \in Peers, Established(p) PROVE SingleOwner'
  BY <1>15, <1>11 DEF Established, near
<1>16. ASSUME NEW p \in Peers, BreakLink(p) PROVE SingleOwner'
  BY <1>16, <1>11 DEF BreakLink, near, client
<1>17. ASSUME NEW p \in Peers, StopClient(p) PROVE SingleOwner'
  BY <1>17, <1>11 DEF StopClient, near
<1>18. CASE Stop
  BY <1>18, <1>11 DEF Stop
<1>19. CASE LoopExit
  BY <1>19, <1>11 DEF LoopExit, client
<1>20. CASE UNCHANGED vars
  BY <1>20, <1>11 DEF vars, near, client
<1> QED
  BY <1>1, <1>2, <1>3, <1>4, <1>5, <1>6, <1>7, <1>8, <1>9, <1>10, <1>12, <1>13,
     <1>14, <1>15, <1>16, <1>17, <1>18, <1>19, <1>20 DEF Next

(* Whatever connections break, whichever replies are late and whenever the *)
(* pipeline stops, every child has exactly one owner and is handed back at *)
(* most once.                                                              *)
THEOREM OneOwner == Spec => []SingleOwner
<1>1. Init => SingleOwner
  BY DEF Init, SingleOwner, Partition, OneCopy, HandedBackOnce, InFlight, SavedKernels,
         HandedBack
<1>2. TypeOK /\ SingleOwner /\ [Next]_vars => SingleOwner'
  BY SingleOwnerStep
<1> QED
  BY <1>1, <1>2, TypeCorrect, PTL DEF Spec

-----------------------------------------------------------------------------
(* What makes a reply of the current session unambiguous: ids in use are   *)
(* not above the counter of the client, so a new id is new.                *)
CounterAbove ==
    \A p \in Peers :
        /\ \A s \in upstream[p] : s.id <= counter[p]
        /\ \A m \in request[p] \cup running[p] \cup reply[p] :
              /\ m.session <= session[p]
              /\ m.session = session[p] => m.id <= counter[p]

(* A peer whose messages and client stay as they are, or get fewer.        *)
LEMMA FewerMessages ==
    ASSUME NEW p \in Peers, TypeOK, CounterAbove, AnswersOwnSession,
           session'[p] = session[p], counter'[p] = counter[p],
           upstream'[p] \subseteq upstream[p],
           request'[p] \cup running'[p] \cup reply'[p]
               \subseteq request[p] \cup running[p] \cup reply[p]
    PROVE  /\ \A s \in upstream'[p] : s.id <= counter'[p]
           /\ \A m \in request'[p] \cup running'[p] \cup reply'[p] :
                 /\ m.session <= session'[p]
                 /\ m.session = session'[p] => m.id <= counter'[p]
           /\ \A m \in OfThisSession(p)' : \A s \in Matching(p, m)' : s.kernel = m.kernel
BY DEF CounterAbove, AnswersOwnSession, OfThisSession, Matching

(* Sending draws an id above all ids in use.                               *)
LEMMA SendFresh ==
    ASSUME NEW p \in Peers, NEW k \in Kernels, TypeOK, CounterAbove, AnswersOwnSession,
           Send(p, k), UNCHANGED <<session, running, reply>>
    PROVE  CounterAbove' /\ AnswersOwnSession'
<1> DEFINE id == NextId(p, k)
           c == [kernel |-> k, id |-> id]
           n == [kernel |-> k, id |-> id, session |-> session[p]]
<1>1. id \in Nat /\ id > counter[p] /\ counter[p] \in Nat /\ session[p] \in Nat
  BY SendType DEF TypeOK
<1>2. /\ upstream'[p] = upstream[p] \cup {c}
      /\ request'[p] = request[p] \cup {n}
      /\ counter'[p] = id
  BY DEF Send, TypeOK
<1>3. /\ c.id = id /\ c.kernel = k
      /\ n.id = id /\ n.kernel = k /\ n.session = session[p]
  OBVIOUS
<1>4. /\ \A s \in upstream[p] : s.id \in Nat /\ s.id <= counter[p]
      /\ \A m \in request[p] \cup running[p] \cup reply[p] :
            /\ m.id \in Nat
            /\ m.session <= session[p]
            /\ m.session = session[p] => m.id <= counter[p]
  BY DEF CounterAbove, TypeOK, Saved, Message
<1>5. ASSUME NEW q \in Peers, q # p
      PROVE  /\ \A s \in upstream'[q] : s.id <= counter'[q]
             /\ \A m \in request'[q] \cup running'[q] \cup reply'[q] :
                   /\ m.session <= session'[q]
                   /\ m.session = session'[q] => m.id <= counter'[q]
             /\ \A m \in OfThisSession(q)' : \A s \in Matching(q, m)' : s.kernel = m.kernel
  <2>1. upstream'[q] = upstream[q] /\ request'[q] = request[q] /\ counter'[q] = counter[q]
    BY <1>5 DEF Send, TypeOK
  <2> QED
    BY <2>1, FewerMessages
<1> HIDE DEF id, c, n
<1>6. \A s \in upstream'[p] : s.id <= counter'[p]
  BY <1>1, <1>2, <1>3, <1>4
<1>7. \A m \in request'[p] \cup running'[p] \cup reply'[p] :
         /\ m.session <= session'[p]
         /\ m.session = session'[p] => m.id <= counter'[p]
  BY <1>1, <1>2, <1>3, <1>4
<1>8. \A m \in OfThisSession(p)' : \A s \in Matching(p, m)' : s.kernel = m.kernel
  <2> SUFFICES ASSUME NEW m \in OfThisSession(p)', NEW s \in Matching(p, m)'
               PROVE  s.kernel = m.kernel
    OBVIOUS
  <2>1. /\ m \in OfThisSession(p) \cup {n}
        /\ s \in upstream[p] \cup {c}
        /\ s.id = m.id
    BY <1>2 DEF OfThisSession, Matching
  <2>2. \A x \in OfThisSession(p) : x.id # id
    BY <1>1, <1>4 DEF OfThisSession
  <2>3. \A x \in upstream[p] : x.id # id
    BY <1>1, <1>4
  <2>4. CASE m \in OfThisSession(p) /\ s \in upstream[p]
    BY <2>1, <2>4 DEF AnswersOwnSession, Matching
  <2>5. CASE m = n \/ s = c
    BY <1>3, <2>1, <2>2, <2>3, <2>5
  <2> QED
    BY <2>1, <2>4, <2>5
<1> QED
  BY <1>5, <1>6, <1>7, <1>8 DEF CounterAbove, AnswersOwnSession

(* No step makes a reply of the current session ambiguous.                 *)
LEMMA OwnSessionStep ==
    ASSUME TypeOK, CounterAbove, AnswersOwnSession, [Next]_vars
    PROVE  CounterAbove' /\ AnswersOwnSession'
<1>1. ASSUME \A q \in Peers :
                /\ session'[q] = session[q] /\ counter'[q] = counter[q]
                /\ upstream'[q] \subseteq upstream[q]
                /\ request'[q] \cup running'[q] \cup reply'[q]
                      \subseteq request[q] \cup running[q] \cup reply[q]
      PROVE  CounterAbove' /\ AnswersOwnSession'
  <2>1. ASSUME NEW q \in Peers
        PROVE  /\ \A s \in upstream'[q] : s.id <= counter'[q]
               /\ \A m \in request'[q] \cup running'[q] \cup reply'[q] :
                     /\ m.session <= session'[q]
                     /\ m.session = session'[q] => m.id <= counter'[q]
               /\ \A m \in OfThisSession(q)' : \A s \in Matching(q, m)' : s.kernel = m.kernel
    BY <1>1, FewerMessages
  <2> QED
    BY <2>1 DEF CounterAbove, AnswersOwnSession
<1>2. ASSUME UNCHANGED <<session, counter, upstream, request, running, reply>>
      PROVE  CounterAbove' /\ AnswersOwnSession'
  BY <1>2, <1>1
<1>3. ASSUME NEW k \in Kernels, Submit(k) PROVE CounterAbove' /\ AnswersOwnSession'
  BY <1>3, <1>2 DEF Submit, client, network
<1>4. ASSUME NEW k \in Kernels, NEW p \in Peers, SendToNeighbour(k, p)
      PROVE  CounterAbove' /\ AnswersOwnSession'
  BY <1>4, SendFresh DEF SendToNeighbour
<1>5. ASSUME NEW k \in Kernels, SendToLocal(k) PROVE CounterAbove' /\ AnswersOwnSession'
  BY <1>5, <1>2 DEF SendToLocal, client, network
<1>6. ASSUME NEW k \in Kernels, ReturnNoResources(k)
      PROVE  CounterAbove' /\ AnswersOwnSession'
  BY <1>6, <1>2 DEF ReturnNoResources, client, network
<1>7. ASSUME NEW k \in Kernels, SendToDestination(k)
      PROVE  CounterAbove' /\ AnswersOwnSession'
  <2>1. Destination[k] \in Peers
    BY <1>7, ExchangeAssumption DEF SendToDestination
  <2>2. CASE Send(Destination[k], k)
    BY <1>7, <2>1, <2>2, SendFresh DEF SendToDestination
  <2>3. CASE UNCHANGED <<conn, counter, identified, load, upstream, request>>
    BY <1>7, <2>3, <1>2 DEF SendToDestination
  <2> QED
    BY <1>7, <2>2, <2>3 DEF SendToDestination
<1>8. ASSUME NEW k \in Kernels, ExecuteLocally(k) PROVE CounterAbove' /\ AnswersOwnSession'
  BY <1>8, <1>2 DEF ExecuteLocally, client, network
<1>9. ASSUME NEW k \in Kernels, ReturnFinished(k) PROVE CounterAbove' /\ AnswersOwnSession'
  BY <1>9, <1>2 DEF ReturnFinished, client, network
<1>10. ASSUME NEW p \in Peers, NEW m \in request[p], PeerReceives(p, m)
       PROVE  CounterAbove' /\ AnswersOwnSession'
  BY <1>10, <1>1 DEF PeerReceives, client, TypeOK
<1>11. ASSUME NEW p \in Peers, NEW m \in running[p], PeerReplies(p, m)
       PROVE  CounterAbove' /\ AnswersOwnSession'
  <2>1. running'[p] \cup reply'[p] \subseteq running[p] \cup reply[p]
    BY <1>11 DEF PeerReplies, TypeOK
  <2>2. \A q \in Peers : q # p => running'[q] = running[q] /\ reply'[q] = reply[q]
    BY <1>11 DEF PeerReplies, TypeOK
  <2>3. UNCHANGED <<upstream, counter, session, request>>
    BY <1>11 DEF PeerReplies
  <2> QED
    BY <2>1, <2>2, <2>3, <1>1
<1>12. ASSUME NEW p \in Peers, Connect(p) PROVE CounterAbove' /\ AnswersOwnSession'
  BY <1>12, <1>2 DEF Connect, network
<1>13. ASSUME NEW p \in Peers, Established(p) PROVE CounterAbove' /\ AnswersOwnSession'
  BY <1>13, <1>2 DEF Established
<1>14. ASSUME NEW p \in Peers, NEW m \in reply[p], ReceiveReply(p, m)
       PROVE  CounterAbove' /\ AnswersOwnSession'
  <2>1. \A q \in Peers : reply'[q] \subseteq reply[q] /\ upstream'[q] \subseteq upstream[q]
    BY <1>14 DEF ReceiveReply, TypeOK
  <2>2. UNCHANGED <<session, counter, request, running>>
    BY <1>14 DEF ReceiveReply
  <2> QED
    BY <2>1, <2>2, <1>1
<1>15. ASSUME NEW p \in Peers, RemoveClient(p) PROVE CounterAbove' /\ AnswersOwnSession'
  <2>1. /\ upstream'[p] = {} /\ request'[p] = {} /\ reply'[p] = {}
        /\ session'[p] = session[p] + 1
        /\ running' = running
    BY <1>15 DEF RemoveClient, TypeOK
  <2>2. \A m \in running[p] : m.session <= session[p] /\ m.session \in Nat
    BY DEF CounterAbove, TypeOK, Message
  <2>3. session[p] \in Nat
    BY DEF TypeOK
  <2>4. \A m \in request'[p] \cup running'[p] \cup reply'[p] :
           m.session <= session'[p] /\ m.session # session'[p]
    BY <2>1, <2>2, <2>3
  <2>5. OfThisSession(p)' = {}
    BY <2>4 DEF OfThisSession
  <2>6. ASSUME NEW q \in Peers, q # p
        PROVE  /\ \A s \in upstream'[q] : s.id <= counter'[q]
               /\ \A m \in request'[q] \cup running'[q] \cup reply'[q] :
                     /\ m.session <= session'[q]
                     /\ m.session = session'[q] => m.id <= counter'[q]
               /\ \A m \in OfThisSession(q)' : \A s \in Matching(q, m)' : s.kernel = m.kernel
    <3>1. /\ upstream'[q] = upstream[q] /\ request'[q] = request[q]
          /\ reply'[q] = reply[q] /\ running'[q] = running[q]
          /\ counter'[q] = counter[q] /\ session'[q] = session[q]
      BY <1>15, <2>6 DEF RemoveClient, TypeOK
    <3> QED
      BY <3>1, FewerMessages
  <2> QED
    BY <2>1, <2>4, <2>5, <2>6 DEF CounterAbove, AnswersOwnSession
<1>16. ASSUME NEW p \in Peers, BreakLink(p) PROVE CounterAbove' /\ AnswersOwnSession'
  <2>1. \A q \in Peers : /\ request'[q] \subseteq request[q]
                         /\ reply'[q] \subseteq reply[q]
                         /\ running'[q] \subseteq running[q]
    BY <1>16 DEF BreakLink, TypeOK
  <2>2. UNCHANGED <<session, counter, upstream>>
    BY <1>16 DEF BreakLink, client
  <2> QED
    BY <2>1, <2>2, <1>1
<1>17. ASSUME NEW p \in Peers, StopClient(p) PROVE CounterAbove' /\ AnswersOwnSession'
  BY <1>17, <1>2 DEF StopClient
<1>18. CASE Stop
  BY <1>18, <1>2 DEF Stop, network
<1>19. CASE LoopExit
  BY <1>19, <1>2 DEF LoopExit, client, network
<1>20. CASE Clear
  BY <1>20, <1>1 DEF Clear, network
<1>21. CASE UNCHANGED vars
  BY <1>21, <1>2 DEF vars, client, network
<1> QED
  BY <1>3, <1>4, <1>5, <1>6, <1>7, <1>8, <1>9, <1>10, <1>11, <1>12, <1>13, <1>14,
     <1>15, <1>16, <1>17, <1>18, <1>19, <1>20, <1>21 DEF Next

(* As long as a client lives, find_kernel pairs the reply to a kernel with *)
(* the copy of that kernel and of no other.                                *)
THEOREM RepliesUnambiguous == Spec => []AnswersOwnSession
<1>1. Init => CounterAbove /\ AnswersOwnSession
  BY DEF Init, CounterAbove, AnswersOwnSession, OfThisSession
<1>2. TypeOK /\ CounterAbove /\ AnswersOwnSession /\ [Next]_vars
         => CounterAbove' /\ AnswersOwnSession'
  BY OwnSessionStep
<1> QED
  BY <1>1, <1>2, TypeCorrect, PTL DEF Spec

-----------------------------------------------------------------------------
(* The status of a child, when it has one owner.                           *)
OwnerStatus(k) ==
    IF k \in HandedBack THEN "returned"
    ELSE IF k \in trash THEN "discarded"
    ELSE IF k \in fresh THEN "fresh"
    ELSE "pending"

(* The status of a child follows from where it is.                         *)
LEMMA StatusByOwner ==
    TypeOK /\ SingleOwner => \A k \in Kernels : StatusOf(k) = OwnerStatus(k)
<1> SUFFICES ASSUME TypeOK, SingleOwner, NEW k \in Kernels
             PROVE  StatusOf(k) = OwnerStatus(k)
  OBVIOUS
<1>1. returned[k] \in Seq(Return) /\ Len(returned[k]) \in Nat /\ Len(returned[k]) <= 1
  BY DEF TypeOK, SingleOwner, HandedBackOnce
<1>2. k \in HandedBack <=> returned[k] # <<>>
  BY DEF HandedBack
<1>3. returned[k] = <<>> <=> Len(returned[k]) = 0
  BY <1>1
<1>4. CASE Len(returned[k]) = 1
  BY <1>2, <1>3, <1>4 DEF StatusOf, OwnerStatus
<1>5. CASE Len(returned[k]) = 0
  BY <1>2, <1>3, <1>5 DEF StatusOf, OwnerStatus
<1>6. \A n \in Nat : n <= 1 => n = 0 \/ n = 1
  OBVIOUS
<1>7. Len(returned[k]) = 0 \/ Len(returned[k]) = 1
  BY <1>1, <1>6
<1> QED
  BY <1>4, <1>5, <1>7

(* The same after a step.                                                  *)
LEMMA StatusByOwnerNext ==
    (TypeOK /\ SingleOwner)' => (\A k \in Kernels : StatusOf(k) = OwnerStatus(k))'
BY StatusByOwner, PTL

(* A step that hands children R back, throws children D away and leaves    *)
(* the rest with their parents or pending is a step of KernelService.      *)
LEMMA SettleStep ==
    ASSUME TypeOK, SingleOwner, TypeOK', SingleOwner',
           NEW R, NEW D,
           R \subseteq Kernels \ (fresh \cup HandedBack \cup trash),
           D \subseteq Kernels \ (fresh \cup HandedBack \cup trash),
           R \cap D = {}, D # {} => pipeline # "started",
           fresh' = fresh, HandedBack' = HandedBack \cup R, trash' = trash \cup D,
           (pipeline' # "started") = (pipeline # "started")
    PROVE  [Service!Next]_Service!vars
<1>1. \A k \in Kernels : StatusOf(k) = OwnerStatus(k)
  BY StatusByOwner
<1>2. \A k \in Kernels : StatusOf(k)' = OwnerStatus(k)'
  BY StatusByOwnerNext
<1>3. \A k \in Kernels : StatusOf(k)' = IF k \in R THEN "returned"
                                        ELSE IF k \in D THEN "discarded" ELSE StatusOf(k)
  BY <1>1, <1>2 DEF OwnerStatus
<1>4. R \subseteq Service!Pending /\ D \subseteq Service!Pending
  BY <1>1 DEF OwnerStatus, Service!Pending
<1>5. CASE R \cup D = {}
  <2>1. \A k \in Kernels : StatusOf(k)' = StatusOf(k)
    BY <1>3, <1>5
  <2> QED
    BY <2>1 DEF Service!vars
<1>6. CASE R \cup D # {}
  <2>1. [k \in Kernels |-> StatusOf(k)]' =
          [k \in Kernels |-> IF k \in R THEN "returned"
                             ELSE IF k \in D THEN "discarded"
                             ELSE [j \in Kernels |-> StatusOf(j)][k]]
    BY <1>3
  <2>2. Service!Settle(R, D)
    BY <1>6, <2>1 DEF Service!Settle
  <2> QED
    BY <1>4, <2>2 DEF Service!Next
<1> QED
  BY <1>5, <1>6

(* Every step of the exchange is a step of the service or changes nothing  *)
(* that the parents can see.                                               *)
LEMMA ServiceStep ==
    ASSUME TypeOK, SingleOwner, [Next]_vars
    PROVE  [Service!Next]_Service!vars
<1>1. TypeOK'
  BY TypeStep
<1>2. SingleOwner'
  BY SingleOwnerStep
<1>3. ASSUME UNCHANGED <<fresh, returned, trash>>,
             (pipeline' # "started") = (pipeline # "started")
      PROVE  [Service!Next]_Service!vars
  <2>1. /\ {} \subseteq Kernels \ (fresh \cup HandedBack \cup trash)
        /\ {} \cap {} = {}
        /\ HandedBack' = HandedBack \cup {} /\ trash' = trash \cup {} /\ fresh' = fresh
    BY <1>3, ReturnsUnchanged
  <2> QED
    BY <1>1, <1>2, <1>3, <2>1, SettleStep
<1>4. ASSUME NEW k \in Kernels, k \notin fresh \cup HandedBack \cup trash,
             HandedBack' = HandedBack \cup {k},
             UNCHANGED <<pipeline, fresh, trash>>
      PROVE  [Service!Next]_Service!vars
  <2>1. /\ {k} \subseteq Kernels \ (fresh \cup HandedBack \cup trash)
        /\ {} \subseteq Kernels \ (fresh \cup HandedBack \cup trash)
        /\ {k} \cap {} = {} /\ trash' = trash \cup {} /\ fresh' = fresh
        /\ (pipeline' # "started") = (pipeline # "started")
    BY <1>4
  <2> QED
    BY <1>1, <1>2, <1>4, <2>1, SettleStep
<1>5. ASSUME NEW k \in Kernels, Submit(k) PROVE [Service!Next]_Service!vars
  <2>1. /\ k \in fresh /\ k \notin HandedBack /\ k \notin trash
        /\ fresh' = fresh \ {k} /\ trash' = trash /\ HandedBack' = HandedBack
        /\ pipeline' = pipeline
    BY <1>5, ReturnsUnchanged DEF Submit, SingleOwner, Partition
  <2>2. \A j \in Kernels : StatusOf(j) = OwnerStatus(j) /\ StatusOf(j)' = OwnerStatus(j)'
    BY <1>1, <1>2, StatusByOwner, StatusByOwnerNext
  <2>3. StatusOf(k) = "fresh" /\ StatusOf(k)' = "pending"
    BY <2>1, <2>2 DEF OwnerStatus
  <2>4. \A j \in Kernels : j # k => StatusOf(j)' = StatusOf(j)
    BY <2>1, <2>2 DEF OwnerStatus
  <2>5. [j \in Kernels |-> StatusOf(j)]' =
           [j \in Kernels |-> IF j \in {k} THEN "pending"
                              ELSE [i \in Kernels |-> StatusOf(i)][j]]
    BY <2>3, <2>4
  <2>6. Service!Submit({k})
    BY <2>1, <2>3, <2>5 DEF Service!Submit
  <2> QED
    BY <2>6 DEF Service!Next
<1>6. ASSUME NEW k \in Kernels, NEW p \in Peers, SendToNeighbour(k, p)
      PROVE  [Service!Next]_Service!vars
  BY <1>6, <1>3 DEF SendToNeighbour
<1>7. ASSUME NEW k \in Kernels, SendToLocal(k) PROVE [Service!Next]_Service!vars
  BY <1>7, <1>3 DEF SendToLocal
<1>8. ASSUME NEW k \in Kernels, ReturnNoResources(k) PROVE [Service!Next]_Service!vars
  <2>1. k \notin fresh \cup HandedBack \cup trash
    BY <1>8 DEF ReturnNoResources, SingleOwner, Partition
  <2>2. HandedBack' = HandedBack \cup {k}
    BY <1>8, <2>1, HandBackOnce DEF ReturnNoResources, ExitCodes, SingleOwner
  <2> QED
    BY <1>8, <2>1, <2>2, <1>4 DEF ReturnNoResources
<1>9. ASSUME NEW k \in Kernels, SendToDestination(k) PROVE [Service!Next]_Service!vars
  <2>1. k \notin fresh \cup HandedBack \cup trash
    BY <1>9 DEF SendToDestination, SingleOwner, Partition
  <2>2. CASE UNCHANGED returned
    BY <1>9, <2>2, <1>3 DEF SendToDestination
  <2>3. CASE HandBack(k, "no_upstream_servers_available", k)
    <3>1. HandedBack' = HandedBack \cup {k}
      BY <2>1, <2>3, HandBackOnce DEF ExitCodes, SingleOwner
    <3> QED
      BY <1>9, <2>1, <3>1, <1>4 DEF SendToDestination
  <2> QED
    BY <1>9, <2>2, <2>3 DEF SendToDestination
<1>10. ASSUME NEW k \in Kernels, ExecuteLocally(k) PROVE [Service!Next]_Service!vars
  BY <1>10, <1>3 DEF ExecuteLocally
<1>11. ASSUME NEW k \in Kernels, ReturnFinished(k) PROVE [Service!Next]_Service!vars
  <2>1. k \notin fresh \cup HandedBack \cup trash
    BY <1>11 DEF ReturnFinished, SingleOwner, Partition
  <2>2. HandedBack' = HandedBack \cup {k}
    BY <1>11, <2>1, HandBackOnce DEF ReturnFinished, ExitCodes, SingleOwner
  <2> QED
    BY <1>11, <2>1, <2>2, <1>4 DEF ReturnFinished
<1>12. ASSUME NEW p \in Peers, NEW m \in request[p], PeerReceives(p, m)
       PROVE  [Service!Next]_Service!vars
  BY <1>12, <1>3 DEF PeerReceives, near
<1>13. ASSUME NEW p \in Peers, NEW m \in running[p], PeerReplies(p, m)
       PROVE  [Service!Next]_Service!vars
  BY <1>13, <1>3 DEF PeerReplies, near
<1>14. ASSUME NEW p \in Peers, Connect(p) PROVE [Service!Next]_Service!vars
  BY <1>14, <1>3 DEF Connect, near
<1>15. ASSUME NEW p \in Peers, Established(p) PROVE [Service!Next]_Service!vars
  BY <1>15, <1>3 DEF Established, near
<1>16. ASSUME NEW p \in Peers, NEW m \in reply[p], ReceiveReply(p, m)
       PROVE  [Service!Next]_Service!vars
  <2>1. UNCHANGED <<pipeline, fresh, trash>>
    BY <1>16 DEF ReceiveReply
  <2>2. CASE UNCHANGED returned
    BY <2>1, <2>2, <1>3
  <2>3. ASSUME NEW s \in Matching(p, m), HandBack(s.kernel, "success", m.kernel)
        PROVE  [Service!Next]_Service!vars
    <3>1. s \in upstream[p] /\ s.kernel \in Kernels /\ m.kernel \in Kernels
      BY DEF Matching, TypeOK, Saved, Message
    <3>2. s.kernel \in InFlight
      BY <3>1 DEF InFlight, SavedKernels
    <3>3. s.kernel \notin fresh \cup HandedBack \cup trash
      BY <3>2 DEF SingleOwner, Partition
    <3>4. HandedBack' = HandedBack \cup {s.kernel}
      BY <2>3, <3>1, <3>3, HandBackOnce DEF ExitCodes, SingleOwner
    <3> QED
      BY <2>1, <3>1, <3>3, <3>4, <1>4
  <2> QED
    BY <1>16, <2>2, <2>3 DEF ReceiveReply
<1>17. ASSUME NEW p \in Peers, RemoveClient(p) PROVE [Service!Next]_Service!vars
  <2>1. fresh' = fresh /\ pipeline' = pipeline /\ trash \subseteq trash'
    BY <1>17 DEF RemoveClient
  <2>2. pipeline = "started" => trash' = trash
    BY <1>17 DEF RemoveClient, Trashed
  <2>3. HandedBack \subseteq HandedBack'
    <3>1. PICK seen \in {{}, reply[p]} : \E answer \in Answers(p, seen) :
             returned' = [k \in Kernels |-> returned[k] \o RecoveryReturn(p, answer, k)]
      BY <1>17 DEF RemoveClient
    <3>2. PICK answer \in Answers(p, seen) :
             returned' = [k \in Kernels |-> returned[k] \o RecoveryReturn(p, answer, k)]
      BY <3>1
    <3>3. seen \in SUBSET Message
      BY DEF TypeOK
    <3>4. ASSUME NEW k \in HandedBack PROVE k \in HandedBack'
      <4>1. /\ k \in Kernels
            /\ returned[k] \in Seq(Return) /\ returned[k] # <<>>
            /\ RecoveryReturn(p, answer, k) \in Seq(Return)
        BY <3>3, <3>4, RecoveryType DEF HandedBack, TypeOK
      <4>2. returned[k] \o RecoveryReturn(p, answer, k) # <<>>
        BY <4>1
      <4> QED
        BY <3>2, <4>1, <4>2 DEF HandedBack
    <3> QED
      BY <3>4
  <2> DEFINE R == HandedBack' \ HandedBack
             D == trash' \ trash
  <2>4. /\ R \subseteq Kernels \ (fresh \cup HandedBack \cup trash)
        /\ D \subseteq Kernels \ (fresh \cup HandedBack \cup trash)
        /\ R \cap D = {}
        /\ HandedBack' = HandedBack \cup R /\ trash' = trash \cup D
    <3>1. /\ HandedBack' \cap trash' = {}
          /\ fresh' \cap (HandedBack' \cup trash') = {}
          /\ HandedBack' \cup trash' \subseteq Kernels
      BY <1>2 DEF SingleOwner, Partition
    <3> QED
      BY <2>1, <2>3, <3>1
  <2>5. D # {} => pipeline # "started"
    BY <2>2
  <2> HIDE DEF R, D
  <2> QED
    BY <1>1, <1>2, <2>1, <2>4, <2>5, SettleStep
<1>18. ASSUME NEW p \in Peers, BreakLink(p) PROVE [Service!Next]_Service!vars
  BY <1>18, <1>3 DEF BreakLink, near
<1>19. ASSUME NEW p \in Peers, StopClient(p) PROVE [Service!Next]_Service!vars
  BY <1>19, <1>3 DEF StopClient, near
<1>20. CASE Stop
  <2>1. UNCHANGED <<fresh, returned, trash>> /\ pipeline' # "started"
    BY <1>20 DEF Stop
  <2>2. \A k \in Kernels : StatusOf(k)' = StatusOf(k)
    BY <2>1 DEF StatusOf
  <2>3. Service!Close
    BY <2>1, <2>2 DEF Service!Close
  <2> QED
    BY <2>3 DEF Service!Next
<1>21. CASE LoopExit
  BY <1>21, <1>3 DEF LoopExit
<1>22. CASE Clear
  <2> DEFINE D == queue \cup finished \cup local \cup InFlight
  <2>1. /\ UNCHANGED <<fresh, returned>>
        /\ trash' = trash \cup D
        /\ pipeline # "started" /\ pipeline' # "started"
    BY <1>22 DEF Clear, InFlight
  <2>2. D \subseteq Kernels \ (fresh \cup HandedBack \cup trash)
    BY DEF SingleOwner, Partition
  <2>3. HandedBack' = HandedBack
    BY <2>1, ReturnsUnchanged
  <2> HIDE DEF D
  <2>4. HandedBack' = HandedBack \cup {} /\ {} \subseteq Kernels /\ {} \cap D = {}
    BY <2>3
  <2> QED
    BY <1>1, <1>2, <2>1, <2>2, <2>4, SettleStep
<1>23. CASE UNCHANGED vars
  BY <1>23, <1>3 DEF vars, near
<1> QED
  BY <1>5, <1>6, <1>7, <1>8, <1>9, <1>10, <1>11, <1>12, <1>13, <1>14, <1>15, <1>16,
     <1>17, <1>18, <1>19, <1>20, <1>21, <1>22, <1>23 DEF Next

(* A parent that uses the pipelines can rely on what KernelService         *)
(* promises: no child comes back twice, none comes back after it was       *)
(* thrown away, and none is thrown away before the pipeline is stopped.    *)
THEOREM ExchangeImplementsService == Spec => ImplementsService
<1>1. Init => Service!Init
  <2> SUFFICES ASSUME Init PROVE Service!Init
    OBVIOUS
  <2>1. ASSUME NEW k \in Kernels PROVE StatusOf(k) = "fresh"
    <3>1. returned[k] = <<>> /\ k \in fresh /\ k \notin trash
      BY DEF Init
    <3> QED
      BY <3>1 DEF StatusOf
  <2> QED
    BY <2>1 DEF Init, Service!Init
<1>2. TypeOK /\ SingleOwner /\ [Next]_vars => [Service!Next]_Service!vars
  BY ServiceStep
<1> QED
  BY <1>1, <1>2, TypeCorrect, OneOwner, PTL DEF Spec, ImplementsService, Service!Spec

-----------------------------------------------------------------------------
(* The kernels of some copies, and what makes the load of the first client *)
(* of a peer exact: every message of that client is the message of one     *)
(* copy, and is in one place.                                              *)
Named(copies) == {s.kernel : s \in copies}

Exact(copies, sent, taken, back, weight) ==
    /\ IsFiniteSet(Named(copies))
    /\ weight = SumOver(Weight, Named(copies))
    /\ \A m \in sent \cup taken \cup back :
          [kernel |-> m.kernel, id |-> m.id] \in copies /\ m.session = 0
    /\ sent \cap taken = {} /\ sent \cap back = {} /\ taken \cap back = {}

FirstExact ==
    \A p \in Peers : session[p] = 0 /\ pipeline # "cleared" =>
        Exact(upstream[p], request[p], running[p], reply[p], load[p])

(* Messages that move or get lost leave the load exact.                    *)
LEMMA ExactMoved ==
    ASSUME NEW copies, NEW sent, NEW taken, NEW back, NEW weight, NEW s, NEW t, NEW b,
           Exact(copies, sent, taken, back, weight),
           s \cup t \cup b \subseteq sent \cup taken \cup back,
           (s \cap t = {}) /\ (s \cap b = {}) /\ (t \cap b = {})
    PROVE  Exact(copies, s, t, b, weight)
BY DEF Exact

(* The weight of a kernel that is sent to the peer is added.               *)
LEMMA ExactSent ==
    ASSUME TypeOK, SingleOwner, NEW p \in Peers, NEW k \in Kernels, k \in queue,
           \A j \in PointToPoint : Weight[j] = 0,
           session[p] = 0,
           Exact(upstream[p], request[p], running[p], reply[p], load[p]),
           Send(p, k), UNCHANGED <<running, reply>>
    PROVE  Exact(upstream'[p], request'[p], running'[p], reply'[p], load'[p])
<1> DEFINE c == [kernel |-> k, id |-> NextId(p, k)]
           n == [kernel |-> k, id |-> NextId(p, k), session |-> session[p]]
<1>1. /\ upstream'[p] = upstream[p] \cup {c} /\ request'[p] = request[p] \cup {n}
      /\ load'[p] = LoadAfterWrite(p, k)
  BY DEF Send, TypeOK
<1>2. k \notin Named(upstream[p])
  BY DEF SingleOwner, Partition, InFlight, SavedKernels, Named
<1>3. /\ c = [kernel |-> n.kernel, id |-> n.id] /\ n.session = 0
      /\ c.kernel = k /\ n.kernel = k
  OBVIOUS
<1> HIDE DEF c, n
<1>4. Named(upstream'[p]) = Named(upstream[p]) \cup {k}
  BY <1>1, <1>3 DEF Named
<1>5. n \notin request[p] \cup running[p] \cup reply[p]
  BY <1>2, <1>3 DEF Exact, Named
<1>6. IsFiniteSet(Named(upstream[p])) /\ load[p] = SumOver(Weight, Named(upstream[p]))
  BY DEF Exact
<1>7. Named(upstream[p]) \subseteq Kernels
  BY DEF Named, TypeOK, Saved
<1>8. IsFiniteSet(Named(upstream'[p]))
  BY <1>4, <1>6, FS_AddElement
<1>9. SumOver(Weight, Named(upstream'[p])) = SumOver(Weight, Named(upstream[p])) + Weight[k]
  <2> DEFINE S == Named(upstream[p])
  <2>1. IsFiniteSet(S) /\ k \notin S /\ Weight[k] \in Nat
    BY <1>2, <1>6, ExchangeAssumption
  <2>2. \A y \in S : Weight[y] \in Nat
    BY <1>7, ExchangeAssumption
  <2> HIDE DEF S
  <2>3. SumOver(Weight, S \cup {k}) = SumOver(Weight, S) + Weight[k]
    BY <2>1, <2>2, SumAdd
  <2> QED
    BY <1>4, <2>3 DEF S
<1>10. load'[p] = load[p] + Weight[k]
  BY <1>1, ExchangeAssumption DEF LoadAfterWrite, TypeOK
<1>11. load'[p] = SumOver(Weight, Named(upstream'[p]))
  BY <1>6, <1>9, <1>10
<1>12. \A m \in request'[p] \cup running'[p] \cup reply'[p] :
          [kernel |-> m.kernel, id |-> m.id] \in upstream'[p] /\ m.session = 0
  BY <1>1, <1>3 DEF Exact
<1>13. /\ request'[p] \cap running'[p] = {} /\ request'[p] \cap reply'[p] = {}
       /\ running'[p] \cap reply'[p] = {}
  BY <1>1, <1>5 DEF Exact
<1> QED
  BY <1>8, <1>11, <1>12, <1>13 DEF Exact

(* The weight of a kernel that has returned is subtracted.                 *)
LEMMA ExactReturned ==
    ASSUME TypeOK, SingleOwner, AnswersOwnSession, NEW p \in Peers, NEW m \in reply[p],
           session[p] = 0,
           Exact(upstream[p], request[p], running[p], reply[p], load[p]),
           ReceiveReply(p, m)
    PROVE  Exact(upstream'[p], request'[p], running'[p], reply'[p], load'[p])
<1> DEFINE c == [kernel |-> m.kernel, id |-> m.id]
           S == Named(upstream[p])
<1>1. c \in upstream[p] /\ m.session = 0 /\ m \in OfThisSession(p) /\ c \in Matching(p, m)
      /\ m.kernel \in S
  BY DEF Exact, OfThisSession, Matching, Named
<1>2. PICK s \in Matching(p, m) : upstream' = [upstream EXCEPT ![p] = @ \ {s}]
  BY <1>1 DEF ReceiveReply
<1>3. s \in upstream[p] /\ s.kernel = m.kernel
  BY <1>1 DEF AnswersOwnSession, Matching
<1>4. s = c
  BY <1>1, <1>3 DEF SingleOwner, OneCopy
<1>5. /\ upstream'[p] = upstream[p] \ {c} /\ reply'[p] = reply[p] \ {m}
      /\ load'[p] = LoadAfterRead(p, m) /\ request' = request /\ running' = running
  BY <1>2, <1>4 DEF ReceiveReply, TypeOK
<1>6. Named(upstream'[p]) = S \ {m.kernel}
  BY <1>1, <1>5 DEF SingleOwner, OneCopy, Named
<1>7. IsFiniteSet(S) /\ load[p] = SumOver(Weight, S)
  BY DEF Exact
<1>8. S \subseteq Kernels
  BY DEF Named, TypeOK, Saved
<1>9. \A x \in S : Weight[x] \in Nat
  BY <1>8, ExchangeAssumption
<1>10. m.kernel \in S
  BY <1>1
<1>11. \A x \in reply[p] \cup request[p] \cup running[p] : x \in Message
  BY DEF TypeOK
<1>12. ASSUME NEW x \in request'[p] \cup running'[p] \cup reply'[p]
       PROVE  [kernel |-> x.kernel, id |-> x.id] \in upstream'[p] /\ x.session = 0
  <2>1. x # m /\ x \in request[p] \cup running[p] \cup reply[p]
    BY <1>5 DEF Exact
  <2>2. [kernel |-> x.kernel, id |-> x.id] \in upstream[p] /\ x.session = 0
    BY <2>1 DEF Exact
  <2>3. x.kernel # m.kernel \/ x.id # m.id
    BY <1>1, <1>11, <2>1, <2>2 DEF Message
  <2> QED
    BY <1>5, <2>2, <2>3
<1> HIDE DEF c, S
<1>13. SumOver(Weight, S) = SumOver(Weight, S \ {m.kernel}) + Weight[m.kernel]
  BY <1>7, <1>9, <1>10, SumRemove
<1>14. IsFiniteSet(S \ {m.kernel})
  BY <1>7, FS_RemoveElement
<1>15. SumOver(Weight, S \ {m.kernel}) \in Nat
  <2>1. \A x \in S \ {m.kernel} : Weight[x] \in Nat
    BY <1>9
  <2> QED
    BY <1>14, <2>1, SumType
<1>16. load'[p] = SumOver(Weight, S \ {m.kernel})
  BY <1>5, <1>7, <1>9, <1>10, <1>13, <1>15 DEF LoadAfterRead
<1>17. /\ request'[p] \cap running'[p] = {} /\ request'[p] \cap reply'[p] = {}
       /\ running'[p] \cap reply'[p] = {}
  BY <1>5 DEF Exact
<1> QED
  BY <1>6, <1>12, <1>14, <1>16, <1>17 DEF Exact

(* The load of a first client stays exact in every step.                   *)
LEMMA FirstExactStep ==
    ASSUME TypeOK, SingleOwner, AnswersOwnSession, FirstExact, [Next]_vars,
           \A j \in PointToPoint : Weight[j] = 0
    PROVE  FirstExact'
<1>1. ASSUME UNCHANGED <<session, upstream, load, pipeline>>,
             NEW p \in Peers,
             \A q \in Peers : q # p => /\ request'[q] = request[q] /\ running'[q] = running[q]
                                       /\ reply'[q] = reply[q],
             request'[p] \cup running'[p] \cup reply'[p]
                 \subseteq request[p] \cup running[p] \cup reply[p],
             session[p] = 0 /\ pipeline # "cleared" =>
                /\ request'[p] \cap running'[p] = {} /\ request'[p] \cap reply'[p] = {}
                /\ running'[p] \cap reply'[p] = {}
      PROVE  FirstExact'
  <2>1. ASSUME NEW q \in Peers, session'[q] = 0, pipeline' # "cleared"
        PROVE  Exact(upstream[q], request'[q], running'[q], reply'[q], load[q])
    <3>1. Exact(upstream[q], request[q], running[q], reply[q], load[q])
      BY <1>1, <2>1 DEF FirstExact
    <3>2. CASE q = p
      <4>1. /\ request'[q] \cup running'[q] \cup reply'[q]
                   \subseteq request[q] \cup running[q] \cup reply[q]
            /\ request'[q] \cap running'[q] = {} /\ request'[q] \cap reply'[q] = {}
            /\ running'[q] \cap reply'[q] = {}
        BY <1>1, <2>1, <3>2
      <4> QED
        BY <3>1, <4>1, ExactMoved
    <3>3. CASE q # p
      BY <1>1, <3>1, <3>3
    <3> QED
      BY <3>2, <3>3
  <2> QED
    BY <1>1, <2>1 DEF FirstExact
<1>2. ASSUME UNCHANGED <<session, upstream, load, request, running, reply>>,
             pipeline' # "cleared" => pipeline # "cleared"
      PROVE  FirstExact'
  <2>1. ASSUME NEW q \in Peers, session'[q] = 0, pipeline' # "cleared"
        PROVE  Exact(upstream'[q], request'[q], running'[q], reply'[q], load'[q])
    BY <1>2, <2>1 DEF FirstExact
  <2> QED
    BY <2>1 DEF FirstExact
<1>3. ASSUME NEW p \in Peers, NEW k \in Kernels, Send(p, k), k \in queue,
             UNCHANGED <<pipeline, session, running, reply>>
      PROVE  FirstExact'
  <2>1. ASSUME NEW q \in Peers, session'[q] = 0, pipeline' # "cleared"
        PROVE  Exact(upstream'[q], request'[q], running'[q], reply'[q], load'[q])
    <3>1. Exact(upstream[q], request[q], running[q], reply[q], load[q]) /\ session[q] = 0
      BY <1>3, <2>1 DEF FirstExact
    <3>2. CASE q = p
      BY <1>3, <3>1, <3>2, ExactSent
    <3>3. CASE q # p
      <4>1. upstream'[q] = upstream[q] /\ request'[q] = request[q] /\ load'[q] = load[q]
        BY <1>3, <3>3 DEF Send, TypeOK
      <4> QED
        BY <1>3, <3>1, <4>1
    <3> QED
      BY <3>2, <3>3
  <2> QED
    BY <2>1 DEF FirstExact
<1>4. ASSUME NEW k \in Kernels, Submit(k) PROVE FirstExact'
  BY <1>2, <1>4 DEF Submit, client, network
<1>5. ASSUME NEW k \in Kernels, NEW p \in Peers, SendToNeighbour(k, p) PROVE FirstExact'
  BY <1>3, <1>5 DEF SendToNeighbour
<1>6. ASSUME NEW k \in Kernels, SendToLocal(k) PROVE FirstExact'
  BY <1>2, <1>6 DEF SendToLocal, client, network
<1>7. ASSUME NEW k \in Kernels, ReturnNoResources(k) PROVE FirstExact'
  BY <1>2, <1>7 DEF ReturnNoResources, client, network
<1>8. ASSUME NEW k \in Kernels, SendToDestination(k) PROVE FirstExact'
  <2>1. Destination[k] \in Peers
    BY <1>8, ExchangeAssumption DEF SendToDestination
  <2>2. UNCHANGED <<pipeline, session, running, reply>> /\ k \in queue
    BY <1>8 DEF SendToDestination
  <2>3. CASE Send(Destination[k], k)
    BY <1>3, <2>1, <2>2, <2>3
  <2>4. CASE UNCHANGED <<conn, counter, identified, load, upstream, request>>
    BY <1>2, <2>2, <2>4
  <2> QED
    BY <1>8, <2>3, <2>4 DEF SendToDestination
<1>9. ASSUME NEW k \in Kernels, ExecuteLocally(k) PROVE FirstExact'
  BY <1>2, <1>9 DEF ExecuteLocally, client, network
<1>10. ASSUME NEW k \in Kernels, ReturnFinished(k) PROVE FirstExact'
  BY <1>2, <1>10 DEF ReturnFinished, client, network
<1>11. ASSUME NEW p \in Peers, NEW m \in request[p], PeerReceives(p, m) PROVE FirstExact'
  <2>1. /\ UNCHANGED <<session, upstream, load, pipeline, reply>>
        /\ request' = [request EXCEPT ![p] = @ \ {m}]
        /\ running' = [running EXCEPT ![p] = @ \cup {m}]
    BY <1>11 DEF PeerReceives, client, near
  <2>2. /\ request'[p] = request[p] \ {m} /\ running'[p] = running[p] \cup {m}
        /\ \A q \in Peers : q # p => request'[q] = request[q] /\ running'[q] = running[q]
    BY <2>1 DEF TypeOK
  <2>3. session[p] = 0 /\ pipeline # "cleared" =>
           /\ request'[p] \cap running'[p] = {} /\ request'[p] \cap reply'[p] = {}
           /\ running'[p] \cap reply'[p] = {}
    BY <2>1, <2>2 DEF FirstExact, Exact
  <2> QED
    BY <1>1, <2>1, <2>2, <2>3
<1>12. ASSUME NEW p \in Peers, NEW m \in running[p], PeerReplies(p, m) PROVE FirstExact'
  <2>1. /\ UNCHANGED <<session, upstream, load, pipeline, request>>
        /\ running' = [running EXCEPT ![p] = @ \ {m}]
        /\ reply' = reply \/ reply' = [reply EXCEPT ![p] = @ \cup {m}]
    BY <1>12 DEF PeerReplies, near
  <2>2. /\ running'[p] = running[p] \ {m}
        /\ reply'[p] \subseteq reply[p] \cup {m}
        /\ \A q \in Peers : q # p => reply'[q] = reply[q] /\ running'[q] = running[q]
    BY <2>1 DEF TypeOK
  <2>3. session[p] = 0 /\ pipeline # "cleared" =>
           /\ request'[p] \cap running'[p] = {} /\ request'[p] \cap reply'[p] = {}
           /\ running'[p] \cap reply'[p] = {}
    BY <2>1, <2>2 DEF FirstExact, Exact
  <2>4. request'[p] \cup running'[p] \cup reply'[p]
             \subseteq request[p] \cup running[p] \cup reply[p]
    BY <2>1, <2>2
  <2> QED
    BY <1>1, <2>1, <2>2, <2>3, <2>4
<1>13. ASSUME NEW p \in Peers, Connect(p) PROVE FirstExact'
  BY <1>2, <1>13 DEF Connect, near, network
<1>14. ASSUME NEW p \in Peers, Established(p) PROVE FirstExact'
  BY <1>2, <1>14 DEF Established, near
<1>15. ASSUME NEW p \in Peers, NEW m \in reply[p], ReceiveReply(p, m) PROVE FirstExact'
  <2>1. UNCHANGED <<session, pipeline, request, running>>
    BY <1>15 DEF ReceiveReply
  <2>2. ASSUME NEW q \in Peers, session'[q] = 0, pipeline' # "cleared"
        PROVE  Exact(upstream'[q], request'[q], running'[q], reply'[q], load'[q])
    <3>1. Exact(upstream[q], request[q], running[q], reply[q], load[q]) /\ session[q] = 0
      BY <2>1, <2>2 DEF FirstExact
    <3>2. CASE q = p
      BY <1>15, <3>1, <3>2, ExactReturned
    <3>3. CASE q # p
      <4>1. upstream'[q] = upstream[q] /\ reply'[q] = reply[q] /\ load'[q] = load[q]
        BY <1>15, <3>3 DEF ReceiveReply, TypeOK
      <4> QED
        BY <2>1, <3>1, <4>1
    <3> QED
      BY <3>2, <3>3
  <2> QED
    BY <2>2 DEF FirstExact
<1>16. ASSUME NEW p \in Peers, RemoveClient(p) PROVE FirstExact'
  <2>1. /\ UNCHANGED <<pipeline, running>>
        /\ session' = [session EXCEPT ![p] = @ + 1]
        /\ upstream' = [upstream EXCEPT ![p] = {}]
        /\ load' = [load EXCEPT ![p] = 0]
        /\ request' = [request EXCEPT ![p] = {}]
        /\ reply' = [reply EXCEPT ![p] = {}]
    BY <1>16 DEF RemoveClient
  <2>2. session'[p] # 0
    BY <2>1 DEF TypeOK
  <2>3. ASSUME NEW q \in Peers, q # p
        PROVE  /\ session'[q] = session[q] /\ upstream'[q] = upstream[q] /\ load'[q] = load[q]
               /\ request'[q] = request[q] /\ running'[q] = running[q] /\ reply'[q] = reply[q]
    BY <2>1, <2>3 DEF TypeOK
  <2> QED
    BY <2>1, <2>2, <2>3 DEF FirstExact
<1>17. ASSUME NEW p \in Peers, BreakLink(p) PROVE FirstExact'
  <2>1. UNCHANGED <<session, upstream, load, pipeline>>
    BY <1>17 DEF BreakLink, client, near
  <2>2. /\ \A q \in Peers : q # p => /\ request'[q] = request[q] /\ running'[q] = running[q]
                                     /\ reply'[q] = reply[q]
        /\ request'[p] \subseteq request[p] /\ running'[p] \subseteq running[p]
        /\ reply'[p] \subseteq reply[p]
    BY <1>17 DEF BreakLink, TypeOK
  <2>3. session[p] = 0 /\ pipeline # "cleared" =>
           /\ request'[p] \cap running'[p] = {} /\ request'[p] \cap reply'[p] = {}
           /\ running'[p] \cap reply'[p] = {}
    BY <2>2 DEF FirstExact, Exact
  <2>4. request'[p] \cup running'[p] \cup reply'[p]
             \subseteq request[p] \cup running[p] \cup reply[p]
    BY <2>2
  <2> QED
    BY <1>1, <2>1, <2>2, <2>3, <2>4
<1>18. ASSUME NEW p \in Peers, StopClient(p) PROVE FirstExact'
  BY <1>2, <1>18 DEF StopClient, near
<1>19. CASE Stop
  BY <1>2, <1>19 DEF Stop, network
<1>20. CASE LoopExit
  BY <1>2, <1>20 DEF LoopExit, client, network
<1>21. CASE Clear
  BY <1>21 DEF Clear, FirstExact
<1>22. CASE UNCHANGED vars
  BY <1>2, <1>22 DEF vars, near, client, network
<1> QED
  BY <1>4, <1>5, <1>6, <1>7, <1>8, <1>9, <1>10, <1>11, <1>12, <1>13, <1>14, <1>15,
     <1>16, <1>17, <1>18, <1>19, <1>20, <1>21, <1>22 DEF Next

(* The load from which the scheduler picks a neighbour is the weight of    *)
(* what was sent there and has not returned: in the first session of every *)
(* client, if the kernels that are sent in the point_to_point phase weigh  *)
(* nothing, as the service kernels of the daemon do.  No message may be    *)
(* read twice or read without its copy, because read() subtracts before it *)
(* looks for the copy.                                                     *)
THEOREM FirstLoadExact ==
    ASSUME \A j \in PointToPoint : Weight[j] = 0
    PROVE  Spec => []LoadExact
<1>1. Init => FirstExact
  <2> SUFFICES ASSUME Init, NEW p \in Peers
               PROVE  Exact(upstream[p], request[p], running[p], reply[p], load[p])
    BY DEF FirstExact
  <2>1. /\ upstream[p] = {} /\ request[p] = {} /\ running[p] = {} /\ reply[p] = {}
        /\ load[p] = 0
    BY DEF Init
  <2>2. Named({}) = {}
    BY DEF Named
  <2> QED
    BY <2>1, <2>2, FS_EmptySet, SumEmpty DEF Exact
<1>2. TypeOK /\ SingleOwner /\ AnswersOwnSession /\ FirstExact /\ [Next]_vars => FirstExact'
  BY FirstExactStep
<1>3. FirstExact => LoadExact
  <2> SUFFICES ASSUME FirstExact, NEW p \in Peers, session[p] = 0, pipeline # "cleared"
               PROVE  load[p] = FoldSet(LAMBDA k, sum : sum + Weight[k], 0, SavedKernels(p))
    BY DEF LoadExact
  <2>1. load[p] = SumOver(Weight, Named(upstream[p]))
    BY DEF FirstExact, Exact
  <2>2. Named(upstream[p]) = SavedKernels(p)
    BY DEF Named, SavedKernels
  <2> QED
    BY <2>1, <2>2 DEF SumOver
<1> QED
  BY <1>1, <1>2, <1>3, TypeCorrect, OneOwner, RepliesUnambiguous, PTL DEF Spec
=============================================================================
