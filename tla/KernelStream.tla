----------------------------- MODULE KernelStream -----------------------------
(***************************************************************************)
(* Kernels as bytes (core/kernel_buffer, core/connection): how a kernel is *)
(* written to the output buffer of a connection, cut into the pieces that  *)
(* the socket takes, put together in the input buffer of the other side,   *)
(* read there, and passed on by the processes on its way that do not know  *)
(* its type.                                                               *)
(*                                                                         *)
(* A unit stands for a run of bytes that is written by one call: the size  *)
(* of a frame; the header of a kernel; the type and the base of an object; *)
(* its node filter; and what the class of the object writes itself.  A     *)
(* buffer may end between any two units.  A connection is one direction of *)
(* a socket or of a pair of pipes, and its bytes are one sequence in which *)
(*                                                                         *)
(*     position <= filled <= flushed <= length                             *)
(*                                                                         *)
(* divide what is read, what is in the input buffer, what is in the socket *)
(* and what is in the output buffer.                                       *)
(***************************************************************************)
EXTENDS Naturals, Sequences

CONSTANTS Kernels,         \* the kernels that are sent
          Connections,
          Applications,
          Target,          \* target_application_id() of a kernel
          First,           \* the connection its sender writes it to
          Reader,          \* this_application::id() of the process that reads
          Forward,         \* where that process passes on what is for another one
          Filtered,        \* the kernels with a node filter
          Carrying,        \* the kernels that carry their parent
          FilteredParent,  \* those whose parent has a node filter
          MaxBreaks        \* bound: connections lost in a behaviour

ASSUME KernelStreamAssumption ==
    /\ Target \in [Kernels -> Applications]
    /\ First \in [Kernels -> Connections]
    /\ Reader \in [Connections -> Applications]
    /\ Forward \in [Connections -> [Applications -> Connections]]
    /\ Filtered \subseteq Kernels
    /\ FilteredParent \subseteq Carrying /\ Carrying \subseteq Kernels
    /\ MaxBreaks \in Nat

VARIABLES stream,    \* the bytes of a connection, from the first one written
          flushed,   \* how many of them the writer has given to the socket
          filled,    \* how many of them the reader has taken from the socket
          position,  \* how many of them the reader has read
          passing,   \* what the thread that reads the connection passes on
          torn,      \* the reader has lost the bounds of the frames
          breaks,
          \* history
          frames,    \* the frames of the stream
          taken,     \* how many of them are read, or will never be
          unsent,    \* kernels that are not sent yet
          lost,      \* kernels that nobody will receive
          received   \* what the applications have received

vars == <<stream, flushed, filled, position, passing, torn, breaks,
          frames, taken, unsent, lost, received>>

buffers == <<flushed, filled, position>>

-----------------------------------------------------------------------------
(***************************************************************************)
(* Writing.                                                                *)
(***************************************************************************)
Size(n) == [part |-> "size", size |-> n]
Unit(part, whose, k) == [part |-> part, whose |-> whose, kernel |-> k]

Parts == {"header", "base", "filter", "own"}
Units == [part : {"size"}, size : Nat]
    \cup [part : Parts, whose : {"kernel", "parent"}, kernel : Kernels]

HasFilter(k, whose) == IF whose = "kernel" THEN k \in Filtered ELSE k \in FilteredParent

\* write_native(): the type, the base, the filter of the base if there is one.
Object(k, whose) ==
    <<Unit("base", whose, k)>>
        \o (IF HasFilter(k, whose) THEN <<Unit("filter", whose, k)>> ELSE <<>>)
        \o <<Unit("own", whose, k)>>

\* The whole kernel.  Nothing but its own header says that there is a filter.
Body(k) == <<Unit("header", "kernel", k)>>
               \o Object(k, "kernel")
               \o (IF k \in Carrying THEN Object(k, "parent") ELSE <<>>)

\* kernel_write_guard: the size comes first and counts itself.
Frame(body) == <<Size(Len(body) + 1)>> \o body

Start(c, i) == frames[c][i].at
End(c, i) == IF i = 0 THEN 0 ELSE frames[c][i].at + Len(frames[c][i].body) + 1
Whole(frame) == frame.body = Body(frame.kernel)

\* The kernels of the frames first..last that are written as a whole.
KernelsOf(c, first, last) ==
    {k \in Kernels : \E i \in first..last : frames[c][i].kernel = k /\ Whole(frames[c][i])}

\* The guard puts the size before whatever was written when an exception was
\* thrown; where nothing was, it leaves nothing.
WriteFrame(c, k, body) ==
    IF torn[c] \/ body = <<>>
    THEN UNCHANGED <<stream, frames>>
    ELSE /\ stream' = [stream EXCEPT ![c] = @ \o Frame(body)]
         /\ frames' = [frames EXCEPT ![c] =
                           Append(@, [at |-> Len(stream[c]), kernel |-> k, body |-> body])]

\* connection::send(): the type is unknown, the parent is null or the class
\* throws after n units, or nothing goes wrong.
Send(k) ==
    /\ k \in unsent
    /\ unsent' = unsent \ {k}
    /\ \E n \in 0..Len(Body(k)) :
          /\ WriteFrame(First[k], k, SubSeq(Body(k), 1, n))
          /\ lost' = IF n = Len(Body(k)) /\ ~torn[First[k]] THEN lost ELSE lost \cup {k}
    /\ UNCHANGED <<buffers, passing, torn, breaks, taken, received>>

-----------------------------------------------------------------------------
(***************************************************************************)
(* Reading.                                                                *)
(***************************************************************************)

\* The parts that the reader expects of an object: the filter only where the
\* fields of the object say so.
Layout(filtered) == IF filtered THEN <<"base", "filter", "own">> ELSE <<"base", "own">>

\* k->read(): whether the units suffice, and whether each is what it is taken for.
Suffice(units, layout) == Len(units) >= Len(layout)
Match(units, layout, whose) ==
    \A i \in 1..Len(layout) : units[i].part = layout[i] /\ units[i].whose = whose

Rest(units, n) == SubSeq(units, n + 1, Len(units))

\* What becomes of a kernel that is read by the process it is for.  The fields
\* of the kernel come with the header, those of a carried parent do not: the
\* reader finds no filter in the parent.  (A type that the reader does not know
\* is left out: the programs on both sides are the same.)
ReadAs(units, layout) ==
    LET object == Rest(units, 1)
        parent == Rest(object, Len(layout))
        carries == units[1].kernel \in Carrying
    IN  IF ~Suffice(object, layout) \/ (carries /\ ~Suffice(parent, Layout(FALSE)))
        THEN "exception"
        ELSE IF /\ Match(object, layout, "kernel")
                /\ carries => Match(parent, Layout(FALSE), "parent")
             THEN "whole"
             ELSE "garbage"

\* (A slip: the kernel is read before it gets the fields of its header.)
Native_BeforeSwap(units) == ReadAs(units, Layout(FALSE))

Native(units) == ReadAs(units, Layout(units[1].kernel \in Filtered))

\* A kernel for another application: the header, the type, the base and the
\* filter are read, and the rest is kept as it is.
HeadLength(k) == IF k \in Filtered THEN 3 ELSE 2

Foreign(units) ==
    LET n == HeadLength(units[1].kernel)
    IN  [head |-> SubSeq(units, 1, n), payload |-> Rest(units, n)]

\* foreign_kernel::write() and the header before it.
ForeignBody(fk) == fk.head \o fk.payload

Nothing == [head |-> <<>>, payload |-> <<>>]

FrameSize(c) == stream[c][position[c] + 1].size

\* (A slip: a frame that ends the buffer is left for later.)
Readable_Strict(c) ==
    /\ ~torn[c]
    /\ filled[c] > position[c]
    /\ filled[c] - position[c] > FrameSize(c)

\* kernel_read_guard: the size is there, and so are the units it counts.
Readable(c) ==
    /\ ~torn[c]
    /\ filled[c] > position[c]
    /\ filled[c] - position[c] >= FrameSize(c)

\* The units between the size and the limit that the guard sets.
Contents(c) == SubSeq(stream[c], position[c] + 2, position[c] + FrameSize(c))

\* An exception ends the reading of one kernel.
Drop(k) == lost' = lost \cup {k} /\ UNCHANGED <<passing, received>>
Accept(k, whole) ==
    /\ received' = Append(received, [kernel |-> k, whole |-> whole])
    /\ UNCHANGED <<passing, lost>>

ReceiveNative(units) ==
    LET k == units[1].kernel
    IN  \/ Native(units) = "whole" /\ Accept(k, TRUE)
        \/ Native(units) \in {"garbage", "exception"} /\ Drop(k)
        \/ Native(units) = "garbage" /\ Accept(k, FALSE)

ReceiveForeign(c, units) ==
    IF Len(units) >= HeadLength(units[1].kernel)
    THEN /\ passing' = [passing EXCEPT ![c] = Foreign(units)]
         /\ UNCHANGED <<received, lost>>
    ELSE Drop(units[1].kernel)

\* (A slip: after an exception the reader goes on where it stopped reading.)
Receive_NoSkip(c) ==
    /\ passing[c] = Nothing
    /\ Readable(c)
    /\ LET units == Contents(c)
       IN  IF Target[units[1].kernel] = Reader[c]
           THEN /\ ReceiveNative(units)
                /\ position' = [position EXCEPT ![c] =
                       IF Native(units) = "exception" THEN @ + 2 ELSE @ + FrameSize(c)]
           ELSE /\ ReceiveForeign(c, units)
                /\ position' = [position EXCEPT ![c] = @ + FrameSize(c)]
    /\ taken' = [taken EXCEPT ![c] = @ + 1]
    /\ UNCHANGED <<stream, flushed, filled, torn, breaks, frames, unsent>>

\* One turn of the loop of receive_kernels(): whatever happens to the kernel,
\* the guard leaves the buffer at the end of the frame.
Receive(c) ==
    /\ passing[c] = Nothing
    /\ Readable(c)
    /\ position' = [position EXCEPT ![c] = @ + FrameSize(c)]
    /\ taken' = [taken EXCEPT ![c] = @ + 1]
    /\ LET units == Contents(c)
       IN  IF Target[units[1].kernel] = Reader[c]
           THEN ReceiveNative(units)
           ELSE ReceiveForeign(c, units)
    /\ UNCHANGED <<stream, flushed, filled, torn, breaks, frames, unsent>>

\* forward_foreign(), with the mutex of the reader released: the kernel is
\* written to the connection that leads to its application.
Pass(c) ==
    /\ passing[c] # Nothing
    /\ LET body == ForeignBody(passing[c])
           k == body[1].kernel
           next == Forward[c][Target[k]]
       IN  /\ WriteFrame(next, k, body)
           /\ lost' = IF torn[next] THEN lost \cup {k} ELSE lost
    /\ passing' = [passing EXCEPT ![c] = Nothing]
    /\ UNCHANGED <<buffers, torn, breaks, taken, unsent, received>>

-----------------------------------------------------------------------------
(***************************************************************************)
(* The socket.                                                             *)
(***************************************************************************)

\* flush(): the socket takes as much as it has room for, and the buffer is
\* compacted.
Flush(c) ==
    /\ ~torn[c]
    /\ \E n \in (flushed[c] + 1)..Len(stream[c]) : flushed' = [flushed EXCEPT ![c] = n]
    /\ UNCHANGED <<stream, filled, position, passing, torn, breaks,
                   frames, taken, unsent, lost, received>>

\* The loop of the reader is over, and no frame is left complete.
Idle(c) == passing[c] = Nothing /\ ~Readable(c)

\* fill(): as much as the socket has got.
Fill(c) ==
    /\ Idle(c)
    /\ ~torn[c]
    /\ \E n \in (filled[c] + 1)..flushed[c] : filled' = [filled EXCEPT ![c] = n]
    /\ UNCHANGED <<stream, flushed, position, passing, torn, breaks,
                   frames, taken, unsent, lost, received>>

\* Both sides give the connection up, and the next one has new buffers.
Break(c) ==
    /\ breaks < MaxBreaks
    /\ Idle(c)
    /\ breaks' = breaks + 1
    /\ lost' = lost \cup KernelsOf(c, taken[c] + 1, Len(frames[c]))
    /\ taken' = [taken EXCEPT ![c] = Len(frames[c])]
    /\ flushed' = [flushed EXCEPT ![c] = Len(stream[c])]
    /\ filled' = [filled EXCEPT ![c] = Len(stream[c])]
    /\ position' = [position EXCEPT ![c] = Len(stream[c])]
    /\ torn' = [torn EXCEPT ![c] = FALSE]
    /\ UNCHANGED <<stream, passing, frames, unsent, received>>

\* deactivate() and activate(): the client connects again and keeps what its
\* output buffer holds, the server has a new client with an empty buffer.  What
\* was in the socket is gone.
ReconnectAt(c, m) ==
    /\ lost' = lost \cup KernelsOf(c, taken[c] + 1, m)
    /\ taken' = [taken EXCEPT ![c] = m]
    /\ filled' = [filled EXCEPT ![c] = flushed[c]]
    /\ position' = [position EXCEPT ![c] = flushed[c]]
    /\ UNCHANGED <<flushed, torn>>

\* Where a part of a frame is gone, the rest of it is taken for a frame, and no
\* kernel is received until both sides begin again.
ReconnectTorn(c) ==
    /\ lost' = lost \cup KernelsOf(c, taken[c] + 1, Len(frames[c]))
    /\ taken' = [taken EXCEPT ![c] = Len(frames[c])]
    /\ torn' = [torn EXCEPT ![c] = TRUE]
    /\ UNCHANGED buffers

Reconnect(c) ==
    /\ breaks < MaxBreaks
    /\ Idle(c)
    /\ ~torn[c]
    /\ breaks' = breaks + 1
    /\ \/ \E m \in taken[c]..Len(frames[c]) : End(c, m) = flushed[c] /\ ReconnectAt(c, m)
       \/ /\ \A m \in taken[c]..Len(frames[c]) : End(c, m) # flushed[c]
          /\ ReconnectTorn(c)
    /\ UNCHANGED <<stream, passing, frames, unsent, received>>

-----------------------------------------------------------------------------
Init ==
    /\ stream = [c \in Connections |-> <<>>]
    /\ flushed = [c \in Connections |-> 0]
    /\ filled = [c \in Connections |-> 0]
    /\ position = [c \in Connections |-> 0]
    /\ passing = [c \in Connections |-> Nothing]
    /\ torn = [c \in Connections |-> FALSE]
    /\ breaks = 0
    /\ frames = [c \in Connections |-> <<>>]
    /\ taken = [c \in Connections |-> 0]
    /\ unsent = Kernels
    /\ lost = {}
    /\ received = <<>>

Next == \/ \E k \in Kernels : Send(k)
        \/ \E c \in Connections : \/ Flush(c) \/ Fill(c) \/ Receive(c) \/ Pass(c)
                                  \/ Break(c) \/ Reconnect(c)

\* The loop of a pipeline runs for ever: it flushes what it can, takes what
\* has come and passes it on.
Fairness == \A c \in Connections :
                WF_vars(Flush(c)) /\ WF_vars(Fill(c)) /\ WF_vars(Receive(c)) /\ WF_vars(Pass(c))

Spec == Init /\ [][Next]_vars /\ Fairness

-----------------------------------------------------------------------------
(***************************************************************************)
(* Properties.                                                             *)
(***************************************************************************)

\* What is written, flushed, filled and read are sequences of units and
\* positions in them (byte_buffer, connection::flush, fill).
TypeOK ==
    /\ stream \in [Connections -> Seq(Units)]
    /\ flushed \in [Connections -> Nat]
    /\ filled \in [Connections -> Nat]
    /\ position \in [Connections -> Nat]
    /\ passing \in [Connections -> [head : Seq(Units), payload : Seq(Units)]]
    /\ torn \in [Connections -> BOOLEAN]
    /\ breaks \in 0..MaxBreaks
    /\ frames \in [Connections -> Seq([at : Nat, kernel : Kernels, body : Seq(Units)])]
    /\ taken \in [Connections -> Nat]
    /\ \A c \in Connections : taken[c] <= Len(frames[c])
    /\ unsent \subseteq Kernels
    /\ lost \subseteq Kernels
    /\ received \in Seq([kernel : Kernels, whole : BOOLEAN])

\* The reader of a connection stands between two frames, whatever was thrown
\* while one was written, passed on or read, and however the socket cut them
\* (kernel_write_guard, kernel_read_guard).
Aligned ==
    \A c \in Connections :
        /\ ~torn[c] => position[c] = End(c, taken[c])
        /\ position[c] <= filled[c] /\ filled[c] <= flushed[c] /\ flushed[c] <= Len(stream[c])

\* The connections are queues of kernels (KernelChannel).
KernelIn(fk) == ForeignBody(fk)[1].kernel
Entry(k, body) == [kernel |-> k, whole |-> body = Body(k)]
Queue == [c \in Connections |->
             [i \in 1..(Len(frames[c]) - taken[c]) |->
                 LET f == frames[c][taken[c] + i] IN Entry(f.kernel, f.body)]]
Holding == [c \in Connections |->
               IF passing[c] = Nothing THEN {}
               ELSE {Entry(KernelIn(passing[c]), ForeignBody(passing[c]))}]
Channel == INSTANCE KernelChannel WITH queue <- Queue, holding <- Holding

\* Kernels leave a connection in the order they were written to it, each as it
\* was written; only the failure of its own write or of a connection, or the
\* filter of its parent, keeps one from being received; and none that is sent
\* stays on the way (kernel_buffer::write, read, the loop of receive_kernels()).
IsChannel == Channel!Spec
=============================================================================
