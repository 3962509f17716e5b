---------------------------- MODULE KernelChannel -----------------------------
(***************************************************************************)
(* What connections promise to those who write kernels to them, without    *)
(* bytes: a connection is a queue.  A kernel leaves it whole if it was     *)
(* written as a whole, in the order of writing, and either is received by  *)
(* the process it is for or is written to the next connection.             *)
(***************************************************************************)
EXTENDS Naturals, Sequences

CONSTANTS Kernels, Connections, Applications, Target, First, Reader, Forward,
          FilteredParent

VARIABLES queue,     \* the kernels that are written and not read
          holding,   \* the kernel that the reader passes on
          torn,      \* the connection does not work, and nobody knows
          unsent, lost, received

chan == <<queue, holding, torn, unsent, lost, received>>

WholeIn(s, n) == {k \in Kernels : \E i \in 1..n : s[i].kernel = k /\ s[i].whole}

Put(c, e) == queue' = [queue EXCEPT ![c] = Append(@, e)]

\* A kernel is written, or only a part of it, or nothing.
Send(k) ==
    LET c == First[k]
    IN  /\ k \in unsent
        /\ unsent' = unsent \ {k}
        /\ \/ ~torn[c] /\ Put(c, [kernel |-> k, whole |-> TRUE]) /\ lost' = lost
           \/ ~torn[c] /\ Put(c, [kernel |-> k, whole |-> FALSE]) /\ lost' = lost \cup {k}
           \/ queue' = queue /\ lost' = lost \cup {k}
        /\ UNCHANGED <<holding, torn, received>>

Deliver(k, whole) ==
    received' = Append(received, [kernel |-> k, whole |-> whole]) /\ lost' = lost
Refuse(k) == lost' = lost \cup {k} /\ received' = received

\* The first kernel of the queue is received, or kept for the next connection;
\* what was not written as a whole is dropped or kept, but not received, unless
\* what is missing is taken from the filter of a parent.
Receive(c) ==
    /\ holding[c] = {} /\ queue[c] # <<>>
    /\ queue' = [queue EXCEPT ![c] = Tail(@)]
    /\ LET e == Head(queue[c])
           k == e.kernel
       IN  \/ /\ Target[k] = Reader[c] /\ e.whole
              /\ \/ k \notin FilteredParent /\ Deliver(k, TRUE)
                 \/ k \in FilteredParent /\ Refuse(k)
                 \/ k \in FilteredParent /\ Deliver(k, FALSE)
              /\ holding' = holding
           \/ /\ Target[k] # Reader[c]
              /\ holding' = [holding EXCEPT ![c] = {e}]
              /\ UNCHANGED <<lost, received>>
           \/ /\ ~e.whole
              /\ \/ Refuse(k)
                 \/ Target[k] = Reader[c] /\ k \in FilteredParent /\ Deliver(k, FALSE)
              /\ holding' = holding
    /\ UNCHANGED <<torn, unsent>>

Pass(c) ==
    \E e \in holding[c] :
        LET next == Forward[c][Target[e.kernel]]
        IN  /\ holding' = [holding EXCEPT ![c] = {}]
            /\ \/ ~torn[next] /\ Put(next, e) /\ lost' = lost
               \/ torn[next] /\ queue' = queue /\ lost' = lost \cup {e.kernel}
            /\ UNCHANGED <<torn, unsent, received>>

\* A connection fails: the first n kernels are lost, or all of them and those
\* that follow as well, until it fails for good.
Fail(c) ==
    /\ holding[c] = {}
    /\ \E n \in 0..Len(queue[c]) :
          /\ queue' = [queue EXCEPT ![c] = SubSeq(@, n + 1, Len(@))]
          /\ lost' = lost \cup WholeIn(queue[c], n)
          /\ torn' \in {[torn EXCEPT ![c] = FALSE]}
                       \cup (IF n = Len(queue[c]) THEN {[torn EXCEPT ![c] = TRUE]} ELSE {})
    /\ UNCHANGED <<holding, unsent, received>>

Init ==
    /\ queue = [c \in Connections |-> <<>>]
    /\ holding = [c \in Connections |-> {}]
    /\ torn = [c \in Connections |-> FALSE]
    /\ unsent = Kernels /\ lost = {} /\ received = <<>>

Next == \/ \E k \in Kernels : Send(k)
        \/ \E c \in Connections : Receive(c) \/ Pass(c) \/ Fail(c)

\* Every kernel that is sent is received in the end, or lost.
Settled(k) == k \in lost \/ \E i \in 1..Len(received) : received[i].kernel = k
Arrives == \A k \in Kernels : k \notin unsent ~> Settled(k)

Safety == Init /\ [][Next]_chan

Spec == Safety /\ Arrives
=============================================================================
