------------------------- MODULE KernelStream_proofs -------------------------
(***************************************************************************)
(* Proofs about KernelStream, for any kernels, connections and processes:  *)
(* the readers stay between frames, and the connections are the queues of  *)
(* KernelChannel.                                                          *)
(***************************************************************************)
EXTENDS KernelStream, SequenceTheorems, TLAPS

-----------------------------------------------------------------------------
(***************************************************************************)
(* What is written.                                                        *)
(***************************************************************************)
Frames == [at : Nat, kernel : Kernels, body : Seq(Units)]

\* A body that is written as far as its class did not throw.
IsPart(k, body) == \E n \in 1..Len(Body(k)) : body = SubSeq(Body(k), 1, n)

LEMMA Single ==
    ASSUME NEW S, NEW e \in S
    PROVE  <<e>> \in Seq(S) /\ Len(<<e>>) = 1 /\ <<e>>[1] = e
OBVIOUS

\* Two sequences, one after the other.
LEMMA Concatenation ==
    ASSUME NEW S, NEW s \in Seq(S), NEW t \in Seq(S)
    PROVE  /\ s \o t \in Seq(S)
           /\ Len(s \o t) = Len(s) + Len(t)
           /\ \A i \in 1..Len(s) : (s \o t)[i] = s[i]
           /\ \A i \in 1..Len(t) : (s \o t)[Len(s) + i] = t[i]
<1>1. /\ s \o t \in Seq(S)
      /\ Len(s \o t) = Len(s) + Len(t)
      /\ \A i \in 1..Len(s) + Len(t) :
             (s \o t)[i] = IF i <= Len(s) THEN s[i] ELSE t[i - Len(s)]
  BY ConcatProperties
<1>2. Len(s) \in Nat /\ Len(t) \in Nat
  BY LenProperties
<1>3. ASSUME NEW i \in 1..Len(s)
      PROVE  (s \o t)[i] = s[i]
  BY <1>1, <1>2
<1>4. ASSUME NEW i \in 1..Len(t)
      PROVE  (s \o t)[Len(s) + i] = t[i]
  <2>1. Len(s) + i \in 1..Len(s) + Len(t) /\ ~(Len(s) + i <= Len(s)) /\ (Len(s) + i) - Len(s) = i
    BY <1>2
  <2> QED BY <1>1, <2>1
<1> QED BY <1>1, <1>3, <1>4

LEMMA UnitTypes ==
    /\ \A n \in Nat : Size(n) \in Units
    /\ \A part \in Parts, whose \in {"kernel", "parent"}, k \in Kernels :
           Unit(part, whose, k) \in Units
BY DEF Units, Size, Unit

ObjectLength(k, whose) == IF HasFilter(k, whose) THEN 3 ELSE 2

LEMMA ObjectLengths ==
    ASSUME NEW k, NEW whose
    PROVE  /\ ObjectLength(k, whose) \in Nat
           /\ HasFilter(k, whose) => ObjectLength(k, whose) = 3
           /\ ~HasFilter(k, whose) => ObjectLength(k, whose) = 2
BY DEF ObjectLength

\* An object begins with its base and ends with what its class writes.
LEMMA ObjectParts ==
    ASSUME NEW k \in Kernels, NEW whose \in {"kernel", "parent"}
    PROVE  /\ Object(k, whose) \in Seq(Units)
           /\ Len(Object(k, whose)) = ObjectLength(k, whose)
           /\ Object(k, whose)[1] = Unit("base", whose, k)
           /\ HasFilter(k, whose) => Object(k, whose)[2] = Unit("filter", whose, k)
           /\ Object(k, whose)[ObjectLength(k, whose)] = Unit("own", whose, k)
<1> DEFINE base == Unit("base", whose, k)
           filter == Unit("filter", whose, k)
           own == Unit("own", whose, k)
           middle == IF HasFilter(k, whose) THEN <<filter>> ELSE <<>>
<1>1. base \in Units /\ filter \in Units /\ own \in Units
  BY UnitTypes DEF Parts
<1>2. Object(k, whose) = (<<base>> \o middle) \o <<own>>
  BY DEF Object
<1> HIDE DEF base, filter, own
<1>3. /\ middle \in Seq(Units)
      /\ Len(middle) = ObjectLength(k, whose) - 2
      /\ HasFilter(k, whose) => middle[1] = filter
  <2>1. CASE HasFilter(k, whose)
    BY <1>1, <2>1, Single DEF ObjectLength
  <2>2. CASE ~HasFilter(k, whose)
    BY <2>2, EmptySeq DEF ObjectLength
  <2> QED BY <2>1, <2>2
<1> HIDE DEF middle
<1> DEFINE first == <<base>>
           last == <<own>>
<1>4. /\ first \in Seq(Units) /\ Len(first) = 1 /\ first[1] = base
      /\ last \in Seq(Units) /\ Len(last) = 1 /\ last[1] = own
  BY <1>1, Single
<1> HIDE DEF first, last
<1> DEFINE start == first \o middle
<1>5. /\ start \in Seq(Units)
      /\ Len(start) = ObjectLength(k, whose) - 1
      /\ start[1] = base
      /\ HasFilter(k, whose) => start[2] = filter
  <2>1. /\ first \o middle \in Seq(Units)
        /\ Len(first \o middle) = Len(first) + Len(middle)
        /\ \A i \in 1..Len(first) : (first \o middle)[i] = first[i]
        /\ \A i \in 1..Len(middle) : (first \o middle)[Len(first) + i] = middle[i]
    <3>1. first \in Seq(Units) /\ middle \in Seq(Units)
      BY <1>3, <1>4
    <3> QED BY <3>1, Concatenation
  <2>2. Len(first \o middle) = ObjectLength(k, whose) - 1
    BY <1>3, <1>4, <2>1, ObjectLengths
  <2>3. (first \o middle)[1] = base
    BY <1>4, <2>1
  <2>4. ASSUME HasFilter(k, whose) PROVE (first \o middle)[2] = filter
    <3>1. Len(middle) = 1 /\ 1 + 1 = 2
      BY <1>3, <2>4, ObjectLengths
    <3> QED BY <1>3, <1>4, <2>1, <2>4, <3>1
  <2> QED BY <2>1, <2>2, <2>3, <2>4
<1> HIDE DEF start
<1>6. /\ start \o last \in Seq(Units)
      /\ Len(start \o last) = Len(start) + 1
      /\ \A i \in 1..Len(start) : (start \o last)[i] = start[i]
      /\ (start \o last)[Len(start) + 1] = last[1]
  <2>1. start \in Seq(Units) /\ last \in Seq(Units)
    BY <1>4, <1>5
  <2>2. /\ start \o last \in Seq(Units)
        /\ Len(start \o last) = Len(start) + Len(last)
        /\ \A i \in 1..Len(start) : (start \o last)[i] = start[i]
        /\ \A i \in 1..Len(last) : (start \o last)[Len(start) + i] = last[i]
    BY <2>1, Concatenation
  <2> QED BY <1>4, <2>2
<1>7. Object(k, whose) = start \o last
  BY <1>2 DEF start, first, last
<1>8. CASE HasFilter(k, whose)
  <2>1. ObjectLength(k, whose) = 3 /\ Len(start) = 2
    BY <1>5, <1>8, ObjectLengths
  <2> QED BY <1>4, <1>5, <1>6, <1>7, <1>8, <2>1 DEF base, filter, own
<1>9. CASE ~HasFilter(k, whose)
  <2>1. ObjectLength(k, whose) = 2 /\ Len(start) = 1
    BY <1>5, <1>9, ObjectLengths
  <2> QED BY <1>4, <1>5, <1>6, <1>7, <1>9, <2>1 DEF base, own
<1> QED BY <1>8, <1>9

BodyLength(k) == 1 + ObjectLength(k, "kernel")
                   + (IF k \in Carrying THEN ObjectLength(k, "parent") ELSE 0)

\* A kernel is written as its header, its own object and that of its parent.
LEMMA BodyParts ==
    ASSUME NEW k \in Kernels
    PROVE  /\ Body(k) \in Seq(Units)
           /\ Len(Body(k)) = BodyLength(k)
           /\ Body(k)[1] = Unit("header", "kernel", k)
           /\ \A i \in 1..ObjectLength(k, "kernel") : Body(k)[1 + i] = Object(k, "kernel")[i]
           /\ k \in Carrying =>
                  \A i \in 1..ObjectLength(k, "parent") :
                      Body(k)[1 + ObjectLength(k, "kernel") + i] = Object(k, "parent")[i]
<1> DEFINE head == <<Unit("header", "kernel", k)>>
           own == Object(k, "kernel")
           parent == IF k \in Carrying THEN Object(k, "parent") ELSE <<>>
           n == ObjectLength(k, "kernel")
<1>1. head \in Seq(Units) /\ Len(head) = 1 /\ head[1] = Unit("header", "kernel", k)
  <2>1. Unit("header", "kernel", k) \in Units
    BY UnitTypes DEF Parts
  <2> QED BY <2>1, Single
<1>2. own \in Seq(Units) /\ Len(own) = n /\ n \in Nat
  BY ObjectParts DEF ObjectLength
<1>3. /\ parent \in Seq(Units)
      /\ Len(parent) = IF k \in Carrying THEN ObjectLength(k, "parent") ELSE 0
      /\ k \in Carrying => parent = Object(k, "parent")
  <2>1. CASE k \in Carrying
    BY <2>1, ObjectParts
  <2>2. CASE k \notin Carrying
    BY <2>2, EmptySeq
  <2> QED BY <2>1, <2>2
<1>4. Body(k) = (head \o own) \o parent
  BY DEF Body
<1> HIDE DEF head, own, parent, n
<1>5. /\ head \o own \in Seq(Units)
      /\ Len(head \o own) = 1 + n
      /\ (head \o own)[1] = head[1]
      /\ \A i \in 1..n : (head \o own)[1 + i] = own[i]
  <2>1. /\ head \o own \in Seq(Units)
        /\ Len(head \o own) = Len(head) + Len(own)
        /\ \A i \in 1..Len(head) : (head \o own)[i] = head[i]
        /\ \A i \in 1..Len(own) : (head \o own)[Len(head) + i] = own[i]
    <3>1. head \in Seq(Units) /\ own \in Seq(Units)
      BY <1>1, <1>2
    <3> QED BY <3>1, Concatenation
  <2> QED BY <1>1, <1>2, <2>1
<1>6. ObjectLength(k, "parent") \in Nat
  BY DEF ObjectLength
<1> DEFINE front == head \o own
<1> HIDE DEF front
<1>7. /\ front \o parent \in Seq(Units)
      /\ Len(front \o parent) = 1 + n + Len(parent)
      /\ \A i \in 1..(1 + n) : (front \o parent)[i] = front[i]
      /\ \A i \in 1..Len(parent) : (front \o parent)[1 + n + i] = parent[i]
  <2>1. front \in Seq(Units) /\ Len(front) = 1 + n
    BY <1>5 DEF front
  <2>2. /\ front \o parent \in Seq(Units)
        /\ Len(front \o parent) = Len(front) + Len(parent)
        /\ \A i \in 1..Len(front) : (front \o parent)[i] = front[i]
        /\ \A i \in 1..Len(parent) : (front \o parent)[Len(front) + i] = parent[i]
    <3>1. front \in Seq(Units) /\ parent \in Seq(Units)
      BY <1>3, <2>1
    <3> QED BY <3>1, Concatenation
  <2> QED BY <2>1, <2>2
<1>8. Body(k) = front \o parent
  BY <1>4 DEF front
<1>9. /\ front[1] = Unit("header", "kernel", k)
      /\ \A i \in 1..n : front[1 + i] = own[i]
  BY <1>1, <1>5 DEF front
<1>10. Len(Body(k)) = BodyLength(k)
  BY <1>3, <1>6, <1>7, <1>8 DEF BodyLength, n
<1>11. Body(k)[1] = Unit("header", "kernel", k)
  BY <1>2, <1>7, <1>8, <1>9
<1>12. \A i \in 1..ObjectLength(k, "kernel") : Body(k)[1 + i] = Object(k, "kernel")[i]
  BY <1>2, <1>7, <1>8, <1>9 DEF n, own
<1>13. ASSUME k \in Carrying
       PROVE  \A i \in 1..ObjectLength(k, "parent") :
                  Body(k)[1 + ObjectLength(k, "kernel") + i] = Object(k, "parent")[i]
  BY <1>3, <1>6, <1>7, <1>8, <1>13 DEF n
<1> QED BY <1>7, <1>8, <1>10, <1>11, <1>12, <1>13

LEMMA PartProperties ==
    ASSUME NEW k \in Kernels, NEW body, IsPart(k, body)
    PROVE  /\ body \in Seq(Units)
           /\ Len(body) \in Nat \ {0} /\ Len(body) <= BodyLength(k)
           /\ \A i \in 1..Len(body) : body[i] = Body(k)[i]
           /\ body[1] = Unit("header", "kernel", k)
           /\ body # <<>>
<1>1. /\ Body(k) \in Seq(Units) /\ Len(Body(k)) = BodyLength(k)
      /\ Body(k)[1] = Unit("header", "kernel", k)
  BY BodyParts
<1>2. PICK n \in 1..Len(Body(k)) : body = SubSeq(Body(k), 1, n)
  BY DEF IsPart
<1>3. Len(Body(k)) \in Nat /\ \A i \in 1..Len(Body(k)) : Body(k)[i] \in Units
  BY <1>1, LenProperties, ElementOfSeq
<1>4. n \in Int /\ 1 <= n /\ n <= Len(Body(k)) /\ \A i \in 1..n : Body(k)[i] \in Units
  BY <1>3
<1>5. /\ SubSeq(Body(k), 1, n) \in Seq(Units)
      /\ Len(SubSeq(Body(k), 1, n)) = n
      /\ \A i \in 1..n : SubSeq(Body(k), 1, n)[i] = Body(k)[i]
  BY <1>3, <1>4
<1>6. body # <<>>
  BY <1>2, <1>4, <1>5, EmptySeq
<1> QED BY <1>1, <1>2, <1>4, <1>5, <1>6

LEMMA FrameParts ==
    ASSUME NEW body \in Seq(Units)
    PROVE  /\ Frame(body) \in Seq(Units)
           /\ Len(Frame(body)) = Len(body) + 1
           /\ Frame(body)[1] = Size(Len(body) + 1)
           /\ \A j \in 1..Len(body) : Frame(body)[1 + j] = body[j]
<1> DEFINE first == <<Size(Len(body) + 1)>>
<1>1. first \in Seq(Units) /\ Len(first) = 1 /\ first[1] = Size(Len(body) + 1)
  <2>1. Size(Len(body) + 1) \in Units
    BY UnitTypes, LenProperties
  <2> QED BY <2>1, Single
<1>2. Frame(body) = first \o body
  BY DEF Frame
<1> HIDE DEF first
<1>3. /\ first \o body \in Seq(Units)
      /\ Len(first \o body) = Len(first) + Len(body)
      /\ \A i \in 1..Len(first) : (first \o body)[i] = first[i]
      /\ \A i \in 1..Len(body) : (first \o body)[Len(first) + i] = body[i]
  <2>1. first \in Seq(Units)
    BY <1>1
  <2> QED BY <2>1, Concatenation
<1>4. Len(body) \in Nat
  BY LenProperties
<1> QED BY <1>1, <1>2, <1>3, <1>4

-----------------------------------------------------------------------------
(***************************************************************************)
(* Where it is written.                                                    *)
(***************************************************************************)
EndOf(fs, i) == IF i = 0 THEN 0 ELSE fs[i].at + Len(fs[i].body) + 1

\* The i-th frame begins where the one before it ends.
FrameAt(fs, bytes, i) ==
    /\ fs[i].at = EndOf(fs, i - 1)
    /\ EndOf(fs, i) <= Len(bytes)
    /\ bytes[fs[i].at + 1] = Size(Len(fs[i].body) + 1)
    /\ \A j \in 1..Len(fs[i].body) : bytes[fs[i].at + 1 + j] = fs[i].body[j]
    /\ IsPart(fs[i].kernel, fs[i].body)

\* A stream is its frames, one after the other.
Laid(fs, bytes) ==
    /\ \A i \in 1..Len(fs) : FrameAt(fs, bytes, i)
    /\ EndOf(fs, Len(fs)) = Len(bytes)

Written(bytes, k, body) == [at |-> Len(bytes), kernel |-> k, body |-> body]

LEMMA Lay ==
    ASSUME NEW fs \in Seq(Frames), NEW bytes \in Seq(Units), Laid(fs, bytes),
           NEW k \in Kernels, NEW body, IsPart(k, body)
    PROVE  /\ Append(fs, Written(bytes, k, body)) \in Seq(Frames)
           /\ bytes \o Frame(body) \in Seq(Units)
           /\ Laid(Append(fs, Written(bytes, k, body)), bytes \o Frame(body))
<1> DEFINE f == Written(bytes, k, body)
           fs2 == Append(fs, f)
           bytes2 == bytes \o Frame(body)
<1>1. body \in Seq(Units) /\ Len(body) \in Nat
  BY PartProperties
<1>2. Len(bytes) \in Nat /\ Len(fs) \in Nat
  BY LenProperties
<1>3. f \in Frames /\ f.at = Len(bytes) /\ f.kernel = k /\ f.body = body
  BY <1>1, <1>2 DEF Frames, Written
<1> HIDE DEF f
<1>4. /\ fs2 \in Seq(Frames) /\ Len(fs2) = Len(fs) + 1
      /\ \A i \in 1..Len(fs) : fs2[i] = fs[i]
      /\ fs2[Len(fs) + 1] = f
  BY <1>3, AppendProperties
<1>5. /\ Frame(body) \in Seq(Units)
      /\ Len(Frame(body)) = Len(body) + 1
      /\ Frame(body)[1] = Size(Len(body) + 1)
      /\ \A j \in 1..Len(body) : Frame(body)[1 + j] = body[j]
  BY <1>1, FrameParts
<1>6. /\ bytes2 \in Seq(Units) /\ Len(bytes2) = Len(bytes) + Len(Frame(body))
      /\ \A i \in 1..Len(bytes) : bytes2[i] = bytes[i]
      /\ \A i \in 1..Len(Frame(body)) : bytes2[Len(bytes) + i] = Frame(body)[i]
  <2>1. Frame(body) \in Seq(Units)
    BY <1>5
  <2> QED BY <2>1, Concatenation
<1> HIDE DEF fs2, bytes2
<1>7. \A i \in 1..Len(fs) : fs[i] \in Frames
  BY ElementOfSeq
<1>8. \A i \in 0..Len(fs) : EndOf(fs2, i) = EndOf(fs, i)
  BY <1>2, <1>4 DEF EndOf
<1>9. EndOf(fs2, Len(fs) + 1) = Len(bytes2)
  <2>1. EndOf(fs2, Len(fs) + 1) = f.at + Len(f.body) + 1
    BY <1>2, <1>4 DEF EndOf
  <2>2. EndOf(fs2, Len(fs) + 1) = Len(bytes) + Len(body) + 1
    BY <1>3, <2>1
  <2>3. Len(bytes2) = Len(bytes) + (Len(body) + 1)
    BY <1>5, <1>6
  <2> QED BY <1>1, <1>2, <2>2, <2>3
<1>10. ASSUME NEW i \in 1..Len(fs)
       PROVE  FrameAt(fs2, bytes2, i)
  <2>1. FrameAt(fs, bytes, i) /\ fs2[i] = fs[i] /\ fs[i] \in Frames
    BY <1>4, <1>7 DEF Laid
  <2>2. EndOf(fs2, i) = EndOf(fs, i) /\ EndOf(fs2, i - 1) = EndOf(fs, i - 1)
    BY <1>2, <1>8
  <2>3. fs[i].at \in Nat /\ Len(fs[i].body) \in Nat
    BY <2>1, LenProperties DEF Frames
  <2>4. fs[i].at + Len(fs[i].body) + 1 <= Len(bytes)
    BY <2>1 DEF FrameAt, EndOf
  <2>5. bytes2[fs[i].at + 1] = bytes[fs[i].at + 1]
    <3>1. fs[i].at + 1 \in 1..Len(bytes)
      BY <1>2, <2>3, <2>4
    <3> QED BY <1>6, <3>1
  <2>6. ASSUME NEW j \in 1..Len(fs[i].body)
        PROVE  bytes2[fs[i].at + 1 + j] = fs[i].body[j]
    <3>1. fs[i].at + 1 + j \in 1..Len(bytes)
      BY <1>2, <2>3, <2>4
    <3>2. bytes2[fs[i].at + 1 + j] = bytes[fs[i].at + 1 + j]
      BY <1>6, <3>1
    <3> QED BY <2>1, <3>2 DEF FrameAt
  <2>7. EndOf(fs, i) <= Len(bytes2)
    <3>1. EndOf(fs, i) = fs[i].at + Len(fs[i].body) + 1
      BY DEF EndOf
    <3> QED BY <1>1, <1>2, <1>5, <1>6, <2>3, <2>4, <3>1
  <2> QED BY <2>1, <2>2, <2>5, <2>6, <2>7 DEF FrameAt
<1>11. FrameAt(fs2, bytes2, Len(fs) + 1)
  <2>1. (Len(fs) + 1) - 1 = Len(fs) /\ Len(fs) \in 0..Len(fs)
    BY <1>2
  <2>2. EndOf(fs2, (Len(fs) + 1) - 1) = Len(bytes)
    BY <1>8, <2>1 DEF Laid
  <2>3. bytes2[Len(bytes) + 1] = Size(Len(body) + 1)
    <3>1. 1 \in 1..Len(Frame(body))
      BY <1>1, <1>5
    <3> QED BY <1>5, <1>6, <3>1
  <2>4. ASSUME NEW j \in 1..Len(body)
        PROVE  bytes2[Len(bytes) + 1 + j] = body[j]
    <3>1. 1 + j \in 1..Len(Frame(body)) /\ Len(bytes) + 1 + j = Len(bytes) + (1 + j)
      BY <1>1, <1>2, <1>5
    <3> QED BY <1>5, <1>6, <3>1
  <2>5. EndOf(fs2, Len(fs) + 1) <= Len(bytes2)
    BY <1>1, <1>2, <1>5, <1>6, <1>9
  <2> QED BY <1>3, <1>4, <2>2, <2>3, <2>4, <2>5 DEF FrameAt
<1>12. \A i \in 1..Len(fs2) : FrameAt(fs2, bytes2, i)
  <2>1. \A i \in 1..(Len(fs) + 1) : i \in 1..Len(fs) \/ i = Len(fs) + 1
    BY <1>2
  <2> QED BY <1>4, <1>10, <1>11, <2>1
<1>13. Laid(fs2, bytes2)
  BY <1>4, <1>9, <1>12 DEF Laid
<1> QED BY <1>4, <1>6, <1>13 DEF fs2, bytes2, f

-----------------------------------------------------------------------------
(***************************************************************************)
(* The inductive invariant: a stream is its frames, the reader stands at   *)
(* the end of one of them, and what is passed on is a part of a kernel.    *)
(***************************************************************************)
PassedOn(c) ==
    passing[c] # Nothing => \E k \in Kernels : IsPart(k, ForeignBody(passing[c]))

StreamInv == /\ TypeOK
             /\ Aligned
             /\ \A c \in Connections : Laid(frames[c], stream[c]) /\ PassedOn(c)

LEMMA EndIsEndOf == \A c, i : End(c, i) = EndOf(frames[c], i)
BY DEF End, EndOf

\* The state of one connection.
LEMMA StateOf ==
    ASSUME StreamInv, NEW c \in Connections
    PROVE  /\ stream[c] \in Seq(Units) /\ frames[c] \in Seq(Frames)
           /\ Len(stream[c]) \in Nat /\ Len(frames[c]) \in Nat
           /\ position[c] \in Nat /\ filled[c] \in Nat /\ flushed[c] \in Nat
           /\ taken[c] \in Nat /\ taken[c] <= Len(frames[c])
           /\ position[c] <= filled[c] /\ filled[c] <= flushed[c]
           /\ flushed[c] <= Len(stream[c])
           /\ ~torn[c] => position[c] = EndOf(frames[c], taken[c])
           /\ Laid(frames[c], stream[c])
<1>1. /\ stream[c] \in Seq(Units) /\ frames[c] \in Seq(Frames)
      /\ position[c] \in Nat /\ filled[c] \in Nat /\ flushed[c] \in Nat
      /\ taken[c] \in Nat /\ taken[c] <= Len(frames[c])
  BY DEF StreamInv, TypeOK, Frames
<1>2. Len(stream[c]) \in Nat /\ Len(frames[c]) \in Nat
  BY <1>1, LenProperties
<1>3. /\ position[c] <= filled[c] /\ filled[c] <= flushed[c] /\ flushed[c] <= Len(stream[c])
      /\ ~torn[c] => position[c] = EndOf(frames[c], taken[c])
      /\ Laid(frames[c], stream[c])
  BY EndIsEndOf DEF StreamInv, Aligned
<1> QED BY <1>1, <1>2, <1>3

\* Where the reader finds a frame complete, it finds the one it has to read.
LEMMA NextFrame ==
    ASSUME StreamInv, NEW c \in Connections, Readable(c)
    PROVE  LET f == frames[c][taken[c] + 1]
           IN  /\ taken[c] + 1 \in 1..Len(frames[c])
               /\ f \in Frames /\ f.kernel \in Kernels
               /\ IsPart(f.kernel, f.body)
               /\ FrameSize(c) = Len(f.body) + 1
               /\ position[c] + FrameSize(c) = EndOf(frames[c], taken[c] + 1)
               /\ position[c] + FrameSize(c) <= filled[c]
               /\ Contents(c) = f.body
<1> DEFINE f == frames[c][taken[c] + 1]
<1>1. /\ frames[c] \in Seq(Frames) /\ stream[c] \in Seq(Units)
      /\ Len(stream[c]) \in Nat /\ Len(frames[c]) \in Nat
      /\ position[c] \in Nat /\ filled[c] \in Nat /\ filled[c] <= Len(stream[c])
      /\ taken[c] \in Nat /\ taken[c] <= Len(frames[c])
      /\ position[c] = EndOf(frames[c], taken[c])
      /\ Laid(frames[c], stream[c])
  BY StateOf DEF Readable
<1>2. taken[c] # Len(frames[c])
  BY <1>1 DEF Laid, Readable
<1>3. taken[c] + 1 \in 1..Len(frames[c]) /\ (taken[c] + 1) - 1 = taken[c]
  <2>1. taken[c] \in Nat /\ Len(frames[c]) \in Nat /\ taken[c] <= Len(frames[c])
    BY <1>1
  <2> QED BY <1>2, <2>1
<1>4. f \in Frames
  BY <1>1, <1>3, ElementOfSeq
<1>5. FrameAt(frames[c], stream[c], taken[c] + 1)
  BY <1>1, <1>3 DEF Laid
<1>6. f.kernel \in Kernels /\ f.body \in Seq(Units) /\ Len(f.body) \in Nat
  BY <1>4, LenProperties DEF Frames
<1>7. f.at = position[c]
  BY <1>1, <1>3, <1>5 DEF FrameAt
<1>8. FrameSize(c) = Len(f.body) + 1
  BY <1>5, <1>7 DEF FrameAt, FrameSize, Size
<1>9. EndOf(frames[c], taken[c] + 1) = f.at + Len(f.body) + 1
  BY <1>1 DEF EndOf
<1>10. position[c] + FrameSize(c) = EndOf(frames[c], taken[c] + 1)
  BY <1>1, <1>6, <1>7, <1>8, <1>9
<1>11. position[c] + FrameSize(c) <= filled[c]
  <2>1. filled[c] - position[c] >= FrameSize(c)
    BY DEF Readable
  <2>2. filled[c] \in Nat /\ position[c] \in Nat
    BY <1>1
  <2>3. FrameSize(c) \in Nat
    <3>1. \A n \in Nat : n + 1 \in Nat
      OBVIOUS
    <3> QED BY <1>6, <1>8, <3>1
  <2> QED BY <2>1, <2>2, <2>3
<1>12. Contents(c) = f.body
  <2> DEFINE from == position[c] + 2
             to == position[c] + FrameSize(c)
             n == Len(f.body)
  <2> HIDE DEF n
  <2>1. /\ position[c] \in Nat /\ filled[c] \in Nat /\ Len(stream[c]) \in Nat
        /\ filled[c] <= Len(stream[c]) /\ n \in Nat
    BY <1>1, <1>6 DEF n
  <2>2. FrameSize(c) = n + 1
    BY <1>8 DEF n
  <2>3. from \in Int /\ to \in Int /\ to = position[c] + n + 1 /\ to - from + 1 = n
    BY <2>1, <2>2
  <2>4. \A i \in from..to : i \in 1..Len(stream[c])
    BY <2>1, <2>2, <1>11
  <2>5. \A i \in from..to : stream[c][i] \in Units
    BY <1>1, <2>4, ElementOfSeq
  <2> HIDE DEF from, to
  <2>6. /\ SubSeq(stream[c], from, to) \in Seq(Units)
        /\ Len(SubSeq(stream[c], from, to)) = IF from <= to THEN to - from + 1 ELSE 0
        /\ \A i \in 1..(to - from + 1) :
               SubSeq(stream[c], from, to)[i] = stream[c][from + i - 1]
    BY <2>3, <2>5, SubSeqProperties
  <2>7. n \in Nat /\ (~(from <= to) => n = 0)
    BY <1>6, <2>3 DEF n
  <2>8. Len(SubSeq(stream[c], from, to)) = n
    BY <2>3, <2>6, <2>7
  <2>9. ASSUME NEW i \in 1..n
        PROVE  SubSeq(stream[c], from, to)[i] = f.body[i]
    <3>1. from + i - 1 = f.at + 1 + i
      BY <1>1, <1>7, <2>7 DEF from
    <3>2. i \in 1..(to - from + 1)
      BY <2>3
    <3>3. stream[c][f.at + 1 + i] = f.body[i]
      BY <1>5 DEF FrameAt, n
    <3> QED BY <2>6, <3>1, <3>2, <3>3
  <2>10. SubSeq(stream[c], from, to) = f.body
    BY <1>6, <2>6, <2>8, <2>9, SeqEqual DEF n
  <2> QED BY <2>10 DEF Contents, from, to
<1> QED BY <1>3, <1>4, <1>5, <1>6, <1>8, <1>10, <1>11, <1>12 DEF FrameAt

-----------------------------------------------------------------------------
(***************************************************************************)
(* Every step preserves it.                                                *)
(***************************************************************************)

\* A frame that is written disturbs no reader.
LEMMA WriteKeeps ==
    ASSUME StreamInv, NEW d \in Connections, NEW k \in Kernels, NEW body,
           body = <<>> \/ IsPart(k, body),
           WriteFrame(d, k, body), UNCHANGED <<buffers, taken, torn>>
    PROVE  /\ stream' \in [Connections -> Seq(Units)]
           /\ frames' \in [Connections -> Seq(Frames)]
           /\ Aligned'
           /\ \A c \in Connections : Laid(frames'[c], stream'[c]) /\ taken'[c] <= Len(frames'[c])
<1>1. /\ stream \in [Connections -> Seq(Units)] /\ frames \in [Connections -> Seq(Frames)]
  BY DEF StreamInv, TypeOK, Frames
<1>2. CASE torn[d] \/ body = <<>>
  <2>1. UNCHANGED <<stream, frames>>
    BY <1>2 DEF WriteFrame
  <2>2. Aligned'
    <3>1. Aligned /\ UNCHANGED <<stream, flushed, filled, position, torn, taken, frames>>
      BY <2>1 DEF StreamInv, buffers
    <3> QED BY <3>1 DEF Aligned, End
  <2>3. \A c \in Connections : Laid(frames[c], stream[c]) /\ taken[c] <= Len(frames[c])
    BY StateOf
  <2> QED BY <1>1, <2>1, <2>2, <2>3
<1>3. CASE ~(torn[d] \/ body = <<>>)
  <2> DEFINE f == Written(stream[d], k, body)
  <2>1. /\ stream' = [stream EXCEPT ![d] = stream[d] \o Frame(body)]
        /\ frames' = [frames EXCEPT ![d] = Append(frames[d], f)]
    BY <1>3 DEF WriteFrame, Written
  <2>2. /\ Append(frames[d], f) \in Seq(Frames)
        /\ stream[d] \o Frame(body) \in Seq(Units)
        /\ Laid(Append(frames[d], f), stream[d] \o Frame(body))
    BY <1>3, StateOf, Lay
  <2>3. Len(Append(frames[d], f)) = Len(frames[d]) + 1
    BY StateOf
  <2>4. \A i \in 0..Len(frames[d]) : EndOf(Append(frames[d], f), i) = EndOf(frames[d], i)
    <3>1. \A i \in 1..Len(frames[d]) : Append(frames[d], f)[i] = frames[d][i]
      BY StateOf
    <3> QED BY <3>1, StateOf DEF EndOf
  <2>5. Len(stream[d]) <= Len(stream[d] \o Frame(body))
    <3>1. body \in Seq(Units)
      BY <1>3, PartProperties
    <3>2. Frame(body) \in Seq(Units) /\ Len(Frame(body)) \in Nat
      BY <3>1, FrameParts, LenProperties
    <3>3. stream[d] \in Seq(Units) /\ Len(stream[d]) \in Nat
      BY StateOf
    <3>4. Len(stream[d] \o Frame(body)) = Len(stream[d]) + Len(Frame(body))
      BY <3>2, <3>3, Concatenation
    <3> QED BY <3>2, <3>3, <3>4
  <2> HIDE DEF f
  <2>6. stream' \in [Connections -> Seq(Units)] /\ frames' \in [Connections -> Seq(Frames)]
    BY <1>1, <2>1, <2>2
  <2>7. ASSUME NEW c \in Connections
        PROVE  /\ Laid(frames'[c], stream'[c]) /\ taken'[c] <= Len(frames'[c])
               /\ ~torn'[c] => position'[c] = End(c, taken[c])'
               /\ position'[c] <= filled'[c] /\ filled'[c] <= flushed'[c]
               /\ flushed'[c] <= Len(stream'[c])
    <3> DEFINE fs == frames'[c]
               bytes == stream'[c]
    <3>0. /\ position'[c] = position[c] /\ filled'[c] = filled[c] /\ flushed'[c] = flushed[c]
          /\ taken'[c] = taken[c] /\ torn'[c] = torn[c]
      BY DEF buffers
    <3>1. End(c, taken[c])' = EndOf(fs, taken[c])
      BY <3>0 DEF End, EndOf
    <3>2. CASE c = d
      <4>1. fs = Append(frames[d], f) /\ bytes = stream[d] \o Frame(body)
        BY <1>1, <2>1, <3>2
      <4>2. taken[d] \in 0..Len(frames[d]) /\ Len(frames[d]) \in Nat
        BY StateOf
      <4>3. EndOf(fs, taken[c]) = EndOf(frames[c], taken[c])
        BY <2>4, <3>2, <4>1, <4>2
      <4>4. flushed[c] <= Len(bytes)
        <5>1. flushed[d] \in Nat /\ flushed[d] <= Len(stream[d]) /\ Len(stream[d]) \in Nat
          BY StateOf
        <5>2. Len(stream[d] \o Frame(body)) \in Nat
          BY <2>2, LenProperties
        <5> QED BY <2>5, <3>2, <4>1, <5>1, <5>2
      <4>5. ~torn[c] => position[c] = EndOf(frames[c], taken[c])
        BY StateOf
      <4>6. position[c] <= filled[c] /\ filled[c] <= flushed[c]
        BY StateOf
      <4>7. taken[c] <= Len(fs)
        BY <2>3, <3>2, <4>1, <4>2
      <4>8. Laid(fs, bytes)
        BY <2>2, <4>1
      <4> QED BY <3>0, <3>1, <4>3, <4>4, <4>5, <4>6, <4>7, <4>8
    <3>3. CASE c # d
      <4>1. fs = frames[c] /\ bytes = stream[c]
        BY <1>1, <2>1, <3>3
      <4>2. /\ Laid(frames[c], stream[c]) /\ taken[c] <= Len(frames[c])
            /\ ~torn[c] => position[c] = EndOf(frames[c], taken[c])
            /\ position[c] <= filled[c] /\ filled[c] <= flushed[c]
            /\ flushed[c] <= Len(stream[c])
        BY StateOf
      <4> QED BY <3>0, <3>1, <4>1, <4>2
    <3> QED BY <3>2, <3>3
  <2>8. Aligned'
    BY <2>7 DEF Aligned
  <2> QED BY <2>6, <2>7, <2>8
<1> QED BY <1>2, <1>3

\* What a thread passes on is as long as what it has read.
LEMMA ForeignKeeps ==
    ASSUME NEW k \in Kernels, NEW units, IsPart(k, units), HeadLength(k) <= Len(units)
    PROVE  /\ Foreign(units) \in [head : Seq(Units), payload : Seq(Units)]
           /\ ForeignBody(Foreign(units)) = units
           /\ Foreign(units) # Nothing
<1> DEFINE n == HeadLength(k)
           head == SubSeq(units, 1, n)
           payload == Rest(units, n)
<1>1. units \in Seq(Units) /\ Len(units) \in Nat /\ units[1] = Unit("header", "kernel", k)
  BY PartProperties
<1>2. n \in Nat /\ 2 <= n /\ n <= Len(units)
  BY DEF HeadLength
<1>3. Foreign(units) = [head |-> head, payload |-> payload]
  BY <1>1 DEF Foreign, Unit
<1> HIDE DEF n
<1>4. \A i \in 1..Len(units) : units[i] \in Units
  BY <1>1, ElementOfSeq
<1>5. head \in Seq(Units) /\ Len(head) = n
  <2>1. \A i \in 1..n : units[i] \in Units
    BY <1>1, <1>2, <1>4
  <2>2. n \in Int /\ 1 \in Int /\ 1 <= n /\ n - 1 + 1 = n
    BY <1>2
  <2> QED BY <2>1, <2>2, SubSeqProperties
<1>6. payload \in Seq(Units)
  <2>1. \A i \in (n + 1)..Len(units) : units[i] \in Units
    BY <1>1, <1>2, <1>4
  <2>2. n + 1 \in Int /\ Len(units) \in Int
    BY <1>1, <1>2
  <2> QED BY <2>1, <2>2, SubSeqProperties DEF Rest
<1>7. head \o payload = units
  <2>1. SubSeq(units, 1, n) \o SubSeq(units, n + 1, Len(units)) = SubSeq(units, 1, Len(units))
    <3>1. 1 \in 1..(Len(units) + 1) /\ n \in (1 - 1)..Len(units) /\ Len(units) \in n..Len(units)
      BY <1>1, <1>2
    <3> QED BY <1>1, <3>1, ConcatAdjacentSubSeq
  <2>2. SubSeq(units, 1, Len(units)) = units
    BY <1>1, SubSeqFull
  <2> QED BY <2>1, <2>2 DEF Rest
<1>8. head # <<>>
  BY <1>2, <1>5, EmptySeq
<1> HIDE DEF head, payload
<1> QED BY <1>3, <1>5, <1>6, <1>7, <1>8 DEF ForeignBody, Nothing

\* A kernel that is sent is written from its beginning.
LEMMA SendWrites ==
    ASSUME NEW k \in Kernels, NEW n \in 0..Len(Body(k))
    PROVE  SubSeq(Body(k), 1, n) = <<>> \/ IsPart(k, SubSeq(Body(k), 1, n))
<1>1. CASE n = 0
  BY <1>1, SubSeqEmpty
<1>2. CASE n # 0
  <2>1. n \in 1..Len(Body(k))
    <3>1. Len(Body(k)) \in Nat
      BY BodyParts, LenProperties
    <3> QED BY <1>2, <3>1
  <2> QED BY <2>1 DEF IsPart
<1> QED BY <1>1, <1>2

LEMMA InitInv ==
    ASSUME Init
    PROVE  StreamInv
<1>1. <<>> \in Seq(Units) /\ <<>> \in Seq(Frames) /\ Len(<<>>) = 0
      /\ <<>> \in Seq([kernel : Kernels, whole : BOOLEAN])
  BY EmptySeq
<1>2. TypeOK
  BY <1>1, KernelStreamAssumption DEF Init, TypeOK, Nothing, KernelStreamAssumption, Frames
<1>3. Aligned
  BY <1>1 DEF Init, Aligned, End
<1>4. \A c \in Connections : Laid(frames[c], stream[c])
  BY <1>1 DEF Init, Laid, EndOf
<1>5. \A c \in Connections : PassedOn(c)
  BY DEF Init, PassedOn
<1> QED BY <1>2, <1>3, <1>4, <1>5 DEF StreamInv

LEMMA SendKeeps ==
    ASSUME StreamInv, NEW k \in Kernels, Send(k)
    PROVE  StreamInv'
<1>1. PICK n \in 0..Len(Body(k)) :
          /\ WriteFrame(First[k], k, SubSeq(Body(k), 1, n))
          /\ lost' = IF n = Len(Body(k)) /\ ~torn[First[k]] THEN lost ELSE lost \cup {k}
  BY DEF Send
<1>2. First[k] \in Connections
  BY KernelStreamAssumption DEF KernelStreamAssumption
<1>3. /\ unsent' = unsent \ {k}
      /\ UNCHANGED <<buffers, passing, torn, breaks, taken, received>>
  BY DEF Send
<1>4. /\ stream' \in [Connections -> Seq(Units)]
      /\ frames' \in [Connections -> Seq(Frames)]
      /\ Aligned'
      /\ \A c \in Connections : Laid(frames'[c], stream'[c]) /\ taken'[c] <= Len(frames'[c])
  BY <1>1, <1>2, <1>3, SendWrites, WriteKeeps
<1>5. lost' \subseteq Kernels /\ unsent' \subseteq Kernels
  BY <1>1, <1>3 DEF StreamInv, TypeOK
<1>6. TypeOK'
  BY <1>3, <1>4, <1>5 DEF StreamInv, TypeOK, Frames, buffers
<1>7. \A c \in Connections : PassedOn(c)'
  BY <1>3 DEF StreamInv, PassedOn
<1> QED BY <1>4, <1>6, <1>7 DEF StreamInv

\* The frame that is read is received, dropped or kept to be passed on.
LEMMA ReceiveReads ==
    ASSUME StreamInv, NEW c \in Connections, Receive(c)
    PROVE  LET f == frames[c][taken[c] + 1]
               k == f.kernel
           IN  /\ k \in Kernels /\ IsPart(k, f.body)
               /\ taken[c] + 1 \in 1..Len(frames[c])
               /\ position' = [position EXCEPT ![c] = EndOf(frames[c], taken[c] + 1)]
               /\ EndOf(frames[c], taken[c] + 1) <= filled[c]
               /\ taken' = [taken EXCEPT ![c] = taken[c] + 1]
               /\ UNCHANGED <<stream, flushed, filled, torn, breaks, frames, unsent>>
               /\ \/ Target[k] = Reader[c] /\ ReceiveNative(f.body)
                  \/ Target[k] # Reader[c] /\ ReceiveForeign(c, f.body)
               /\ passing[c] = Nothing
               /\ f.body[1].kernel = k
<1> DEFINE f == frames[c][taken[c] + 1]
           k == f.kernel
<1>1. Readable(c)
  BY DEF Receive
<1>2. /\ taken[c] + 1 \in 1..Len(frames[c])
      /\ k \in Kernels /\ IsPart(k, f.body)
      /\ position[c] + FrameSize(c) = EndOf(frames[c], taken[c] + 1)
      /\ position[c] + FrameSize(c) <= filled[c]
      /\ Contents(c) = f.body
  BY <1>1, NextFrame
<1>3. f.body[1].kernel = k
  <2>1. f.body[1] = Unit("header", "kernel", k)
    BY <1>2, PartProperties
  <2> QED BY <2>1 DEF Unit
<1>4. \/ Target[k] = Reader[c] /\ ReceiveNative(f.body)
      \/ Target[k] # Reader[c] /\ ReceiveForeign(c, f.body)
  BY <1>2, <1>3 DEF Receive
<1>5. /\ position' = [position EXCEPT ![c] = position[c] + FrameSize(c)]
      /\ taken' = [taken EXCEPT ![c] = taken[c] + 1]
      /\ UNCHANGED <<stream, flushed, filled, torn, breaks, frames, unsent>>
      /\ passing[c] = Nothing
  BY DEF Receive
<1> HIDE DEF f
<1> QED BY <1>2, <1>3, <1>4, <1>5 DEF f

LEMMA ReceiveKeeps ==
    ASSUME StreamInv, NEW c \in Connections, Receive(c)
    PROVE  StreamInv'
<1> DEFINE f == frames[c][taken[c] + 1]
           k == f.kernel
           end == EndOf(frames[c], taken[c] + 1)
<1>1. /\ k \in Kernels /\ IsPart(k, f.body)
      /\ taken[c] + 1 \in 1..Len(frames[c])
      /\ position' = [position EXCEPT ![c] = end]
      /\ end <= filled[c]
      /\ taken' = [taken EXCEPT ![c] = taken[c] + 1]
      /\ UNCHANGED <<stream, flushed, filled, torn, breaks, frames, unsent>>
      /\ ReceiveNative(f.body) \/ ReceiveForeign(c, f.body)
      /\ f.body[1].kernel = k
  BY ReceiveReads
<1>2. /\ passing \in [Connections -> [head : Seq(Units), payload : Seq(Units)]]
      /\ received \in Seq([kernel : Kernels, whole : BOOLEAN])
      /\ lost \subseteq Kernels
      /\ taken \in [Connections -> Nat] /\ position \in [Connections -> Nat]
      /\ \A d \in Connections : PassedOn(d)
  BY DEF StreamInv, TypeOK
<1>3. end \in Nat
  <2>1. f \in Frames
    <3>1. frames[c] \in Seq(Frames)
      BY StateOf
    <3> QED BY <1>1, <3>1, ElementOfSeq
  <2>2. f.at \in Nat /\ Len(f.body) \in Nat
    BY <2>1, LenProperties DEF Frames
  <2>3. end = IF taken[c] + 1 = 0 THEN 0 ELSE f.at + Len(f.body) + 1
    BY DEF EndOf
  <2> HIDE DEF f, end
  <2> QED BY <2>2, <2>3
<1> HIDE DEF end
<1>4. /\ received' \in Seq([kernel : Kernels, whole : BOOLEAN])
      /\ lost' \subseteq Kernels
      /\ passing' \in [Connections -> [head : Seq(Units), payload : Seq(Units)]]
      /\ \A d \in Connections : PassedOn(d)'
  <2>1. CASE ReceiveNative(f.body)
    <3>1. \/ \E whole \in BOOLEAN : received' = Append(received, [kernel |-> k, whole |-> whole])
                                     /\ UNCHANGED <<passing, lost>>
          \/ lost' = lost \cup {k} /\ UNCHANGED <<passing, received>>
      BY <1>1, <2>1 DEF ReceiveNative, Accept, Drop
    <3>2. received' \in Seq([kernel : Kernels, whole : BOOLEAN])
      <4>1. \A whole \in BOOLEAN : [kernel |-> k, whole |-> whole] \in [kernel : Kernels, whole : BOOLEAN]
        BY <1>1
      <4>2. \A e \in [kernel : Kernels, whole : BOOLEAN] :
               Append(received, e) \in Seq([kernel : Kernels, whole : BOOLEAN])
        BY <1>2, AppendProperties
      <4> QED BY <1>2, <3>1, <4>1, <4>2
    <3>3. lost' \subseteq Kernels /\ passing' = passing
      BY <1>1, <1>2, <3>1
    <3> QED BY <1>2, <3>2, <3>3 DEF PassedOn
  <2>2. CASE ReceiveForeign(c, f.body) /\ Len(f.body) >= HeadLength(k)
    <3>1. passing' = [passing EXCEPT ![c] = Foreign(f.body)] /\ UNCHANGED <<received, lost>>
      BY <1>1, <2>2 DEF ReceiveForeign
    <3>2. HeadLength(k) \in Nat /\ Len(f.body) \in Nat
      BY <1>1, PartProperties DEF HeadLength
    <3>3. /\ Foreign(f.body) \in [head : Seq(Units), payload : Seq(Units)]
          /\ ForeignBody(Foreign(f.body)) = f.body
      BY <1>1, <2>2, <3>2, ForeignKeeps
    <3>4. \A d \in Connections : PassedOn(d)'
      BY <1>1, <1>2, <3>1, <3>3 DEF PassedOn
    <3> QED BY <1>2, <3>1, <3>3, <3>4
  <2>3. CASE ReceiveForeign(c, f.body) /\ ~(Len(f.body) >= HeadLength(k))
    <3>1. lost' = lost \cup {k} /\ UNCHANGED <<passing, received>>
      BY <1>1, <2>3 DEF ReceiveForeign, Drop
    <3> QED BY <1>1, <1>2, <3>1 DEF PassedOn
  <2> QED BY <1>1, <2>1, <2>2, <2>3
<1>5. /\ taken' \in [Connections -> Nat] /\ position' \in [Connections -> Nat]
      /\ \A d \in Connections : taken'[d] <= Len(frames'[d])
  <2>1. taken[c] + 1 \in Nat /\ taken[c] + 1 <= Len(frames[c])
    BY <1>1, <1>2, StateOf
  <2>2. \A d \in Connections : taken[d] <= Len(frames[d])
    BY StateOf
  <2>3. frames' = frames
    BY <1>1
  <2> QED BY <1>1, <1>2, <1>3, <2>1, <2>2, <2>3
<1>6. TypeOK'
  BY <1>1, <1>4, <1>5 DEF StreamInv, TypeOK
<1>7. ASSUME NEW d \in Connections
      PROVE  /\ ~torn'[d] => position'[d] = End(d, taken[d])'
             /\ position'[d] <= filled'[d] /\ filled'[d] <= flushed'[d]
             /\ flushed'[d] <= Len(stream'[d])
  <2>1. End(d, taken[d])' = EndOf(frames[d], taken'[d])
    BY <1>1 DEF End, EndOf
  <2>2. /\ filled[d] <= flushed[d] /\ flushed[d] <= Len(stream[d]) /\ position[d] <= filled[d]
        /\ ~torn[d] => position[d] = EndOf(frames[d], taken[d])
    BY StateOf
  <2>3. CASE d = c
    BY <1>1, <1>2, <2>1, <2>2, <2>3 DEF end
  <2>4. CASE d # c
    BY <1>1, <1>2, <2>1, <2>2, <2>4
  <2> QED BY <2>3, <2>4
<1>8. Aligned'
  BY <1>7 DEF Aligned
<1>9. \A d \in Connections : Laid(frames[d], stream[d])'
  BY <1>1, StateOf
<1> QED BY <1>4, <1>6, <1>8, <1>9 DEF StreamInv

LEMMA PassKeeps ==
    ASSUME StreamInv, NEW c \in Connections, Pass(c)
    PROVE  StreamInv'
<1> DEFINE body == ForeignBody(passing[c])
           k == body[1].kernel
           next == Forward[c][Target[k]]
<1>1. PICK j \in Kernels : IsPart(j, body)
  BY DEF Pass, StreamInv, PassedOn
<1>2. k = j
  <2>1. body[1] = Unit("header", "kernel", j)
    BY <1>1, PartProperties
  <2> QED BY <2>1 DEF Unit
<1>3. next \in Connections
  BY <1>2, KernelStreamAssumption DEF KernelStreamAssumption
<1>4. /\ WriteFrame(next, k, body)
      /\ lost' = IF torn[next] THEN lost \cup {k} ELSE lost
      /\ passing' = [passing EXCEPT ![c] = Nothing]
      /\ UNCHANGED <<buffers, torn, breaks, taken, unsent, received>>
  BY DEF Pass
<1> HIDE DEF body, k, next
<1>5. /\ stream' \in [Connections -> Seq(Units)]
      /\ frames' \in [Connections -> Seq(Frames)]
      /\ Aligned'
      /\ \A d \in Connections : Laid(frames'[d], stream'[d]) /\ taken'[d] <= Len(frames'[d])
  BY <1>1, <1>2, <1>3, <1>4, WriteKeeps
<1>6. lost' \subseteq Kernels
  BY <1>2, <1>4 DEF StreamInv, TypeOK
<1>7. passing' \in [Connections -> [head : Seq(Units), payload : Seq(Units)]]
  <2>1. Nothing \in [head : Seq(Units), payload : Seq(Units)]
    BY EmptySeq DEF Nothing
  <2> QED BY <1>4, <2>1 DEF StreamInv, TypeOK
<1>8. TypeOK'
  BY <1>4, <1>5, <1>6, <1>7 DEF StreamInv, TypeOK, Frames, buffers
<1>9. \A d \in Connections : PassedOn(d)'
  BY <1>4 DEF StreamInv, PassedOn, TypeOK
<1> QED BY <1>5, <1>8, <1>9 DEF StreamInv

\* Steps of the socket: nothing is written, passed on or received.
LEMMA SocketKeeps ==
    ASSUME StreamInv, NEW c \in Connections,
           NEW t \in Nat, NEW p \in Nat, NEW m \in Nat, NEW n \in Nat, NEW b \in BOOLEAN,
           t <= Len(frames[c]), ~b => p = EndOf(frames[c], t),
           p <= m, m <= n, n <= Len(stream[c]),
           taken' = [taken EXCEPT ![c] = t],
           position' = [position EXCEPT ![c] = p],
           filled' = [filled EXCEPT ![c] = m],
           flushed' = [flushed EXCEPT ![c] = n],
           torn' = [torn EXCEPT ![c] = b],
           breaks' \in 0..MaxBreaks,
           lost' \subseteq Kernels,
           UNCHANGED <<stream, passing, frames, unsent, received>>
    PROVE  StreamInv'
<1>1. TypeOK
  BY DEF StreamInv
<1>2. TypeOK'
  <2>1. \A d \in Connections : taken'[d] <= Len(frames'[d])
    BY <1>1 DEF TypeOK
  <2> QED BY <1>1, <2>1 DEF TypeOK
<1>3. ASSUME NEW d \in Connections
      PROVE  /\ ~torn'[d] => position'[d] = End(d, taken[d])'
             /\ position'[d] <= filled'[d] /\ filled'[d] <= flushed'[d]
             /\ flushed'[d] <= Len(stream'[d])
  <2>1. End(d, taken[d])' = EndOf(frames[d], taken'[d])
    BY DEF End, EndOf
  <2>2. /\ filled[d] <= flushed[d] /\ flushed[d] <= Len(stream[d]) /\ position[d] <= filled[d]
        /\ ~torn[d] => position[d] = EndOf(frames[d], taken[d])
    BY StateOf
  <2>3. CASE d = c
    BY <1>1, <2>1, <2>3 DEF TypeOK
  <2>4. CASE d # c
    BY <1>1, <2>1, <2>2, <2>4 DEF TypeOK
  <2> QED BY <2>3, <2>4
<1>4. Aligned'
  BY <1>3 DEF Aligned
<1>5. \A d \in Connections : Laid(frames[d], stream[d])' /\ PassedOn(d)'
  BY DEF StreamInv, PassedOn
<1> QED BY <1>2, <1>4, <1>5 DEF StreamInv

LEMMA FlushKeeps ==
    ASSUME StreamInv, NEW c \in Connections, Flush(c)
    PROVE  StreamInv'
<1>1. PICK n \in (flushed[c] + 1)..Len(stream[c]) : flushed' = [flushed EXCEPT ![c] = n]
  BY DEF Flush
<1>2. /\ taken \in [Connections -> Nat] /\ position \in [Connections -> Nat]
      /\ filled \in [Connections -> Nat] /\ torn \in [Connections -> BOOLEAN]
      /\ breaks \in 0..MaxBreaks /\ lost \subseteq Kernels
  BY DEF StreamInv, TypeOK
<1>3. /\ taken' = [taken EXCEPT ![c] = taken[c]] /\ position' = [position EXCEPT ![c] = position[c]]
      /\ filled' = [filled EXCEPT ![c] = filled[c]] /\ torn' = [torn EXCEPT ![c] = torn[c]]
      /\ breaks' = breaks /\ lost' = lost
      /\ UNCHANGED <<stream, passing, frames, unsent, received>>
  BY <1>2 DEF Flush
<1>4. /\ taken[c] \in Nat /\ position[c] \in Nat /\ filled[c] \in Nat /\ torn[c] \in BOOLEAN
      /\ taken[c] <= Len(frames[c]) /\ position[c] <= filled[c]
      /\ ~torn[c] => position[c] = EndOf(frames[c], taken[c])
  BY <1>2, StateOf
<1>5. n \in Nat /\ filled[c] <= n /\ n <= Len(stream[c])
  <2>1. /\ filled[c] \in Nat /\ flushed[c] \in Nat /\ Len(stream[c]) \in Nat
        /\ filled[c] <= flushed[c]
    BY StateOf
  <2> QED BY <1>1, <2>1
<1> QED BY <1>1, <1>2, <1>3, <1>4, <1>5, SocketKeeps

LEMMA FillKeeps ==
    ASSUME StreamInv, NEW c \in Connections, Fill(c)
    PROVE  StreamInv'
<1>1. PICK m \in (filled[c] + 1)..flushed[c] : filled' = [filled EXCEPT ![c] = m]
  BY DEF Fill
<1>2. /\ taken \in [Connections -> Nat] /\ position \in [Connections -> Nat]
      /\ flushed \in [Connections -> Nat] /\ torn \in [Connections -> BOOLEAN]
      /\ breaks \in 0..MaxBreaks /\ lost \subseteq Kernels
  BY DEF StreamInv, TypeOK
<1>3. /\ taken' = [taken EXCEPT ![c] = taken[c]] /\ position' = [position EXCEPT ![c] = position[c]]
      /\ flushed' = [flushed EXCEPT ![c] = flushed[c]] /\ torn' = [torn EXCEPT ![c] = torn[c]]
      /\ breaks' = breaks /\ lost' = lost
      /\ UNCHANGED <<stream, passing, frames, unsent, received>>
  BY <1>2 DEF Fill
<1>4. /\ taken[c] \in Nat /\ position[c] \in Nat /\ flushed[c] \in Nat /\ torn[c] \in BOOLEAN
      /\ taken[c] <= Len(frames[c]) /\ flushed[c] <= Len(stream[c])
      /\ ~torn[c] => position[c] = EndOf(frames[c], taken[c])
  BY <1>2, StateOf
<1>5. m \in Nat /\ position[c] <= m /\ m <= flushed[c]
  <2>1. /\ position[c] \in Nat /\ filled[c] \in Nat /\ flushed[c] \in Nat
        /\ position[c] <= filled[c]
    BY StateOf
  <2> QED BY <1>1, <2>1
<1> QED BY <1>1, <1>2, <1>3, <1>4, <1>5, SocketKeeps

LEMMA KernelsOfType == \A c, i, j : KernelsOf(c, i, j) \subseteq Kernels
BY DEF KernelsOf

LEMMA BreakKeeps ==
    ASSUME StreamInv, NEW c \in Connections, Break(c)
    PROVE  StreamInv'
<1>1. /\ Len(frames[c]) \in Nat /\ Len(stream[c]) \in Nat
      /\ Len(stream[c]) = EndOf(frames[c], Len(frames[c]))
  BY StateOf DEF Laid
<1>2. breaks' \in 0..MaxBreaks /\ lost' \subseteq Kernels
  <2>1. breaks \in 0..MaxBreaks /\ lost \subseteq Kernels /\ MaxBreaks \in Nat
    BY KernelStreamAssumption DEF StreamInv, TypeOK, KernelStreamAssumption
  <2> QED BY <2>1, KernelsOfType DEF Break
<1>3. /\ taken' = [taken EXCEPT ![c] = Len(frames[c])]
      /\ flushed' = [flushed EXCEPT ![c] = Len(stream[c])]
      /\ filled' = [filled EXCEPT ![c] = Len(stream[c])]
      /\ position' = [position EXCEPT ![c] = Len(stream[c])]
      /\ torn' = [torn EXCEPT ![c] = FALSE]
      /\ UNCHANGED <<stream, passing, frames, unsent, received>>
  BY DEF Break
<1>4. Len(frames[c]) <= Len(frames[c]) /\ Len(stream[c]) <= Len(stream[c])
  BY <1>1
<1> QED BY <1>1, <1>2, <1>3, <1>4, SocketKeeps

LEMMA ReconnectKeeps ==
    ASSUME StreamInv, NEW c \in Connections, Reconnect(c)
    PROVE  StreamInv'
<1>1. /\ Len(frames[c]) \in Nat /\ position[c] \in Nat /\ filled[c] \in Nat /\ flushed[c] \in Nat
      /\ position[c] <= filled[c] /\ filled[c] <= flushed[c] /\ flushed[c] <= Len(stream[c])
      /\ taken[c] \in Nat
  BY StateOf
<1>2. /\ filled \in [Connections -> Nat] /\ position \in [Connections -> Nat]
      /\ flushed \in [Connections -> Nat] /\ torn \in [Connections -> BOOLEAN]
  BY DEF StreamInv, TypeOK
<1>3. breaks' \in 0..MaxBreaks /\ UNCHANGED <<stream, passing, frames, unsent, received>>
  <2>1. breaks \in 0..MaxBreaks /\ MaxBreaks \in Nat
    BY KernelStreamAssumption DEF StreamInv, TypeOK, KernelStreamAssumption
  <2> QED BY <2>1 DEF Reconnect
<1>4. lost \subseteq Kernels
  BY DEF StreamInv, TypeOK
<1>5. CASE \E m \in taken[c]..Len(frames[c]) : End(c, m) = flushed[c] /\ ReconnectAt(c, m)
  <2>1. PICK m \in taken[c]..Len(frames[c]) : End(c, m) = flushed[c] /\ ReconnectAt(c, m)
    BY <1>5
  <2>2. m \in Nat /\ m <= Len(frames[c]) /\ flushed[c] = EndOf(frames[c], m)
    BY <1>1, <2>1, EndIsEndOf
  <2>3. /\ taken' = [taken EXCEPT ![c] = m]
        /\ filled' = [filled EXCEPT ![c] = flushed[c]]
        /\ position' = [position EXCEPT ![c] = flushed[c]]
        /\ flushed' = [flushed EXCEPT ![c] = flushed[c]]
        /\ torn' = [torn EXCEPT ![c] = torn[c]]
        /\ lost' \subseteq Kernels
    BY <1>2, <1>4, <2>1, KernelsOfType DEF ReconnectAt
  <2>4. flushed[c] <= flushed[c] /\ torn[c] \in BOOLEAN
    BY <1>1, <1>2
  <2> QED BY <1>1, <1>3, <2>2, <2>3, <2>4, SocketKeeps
<1>6. CASE ReconnectTorn(c)
  <2>1. /\ taken' = [taken EXCEPT ![c] = Len(frames[c])]
        /\ filled' = [filled EXCEPT ![c] = filled[c]]
        /\ position' = [position EXCEPT ![c] = position[c]]
        /\ flushed' = [flushed EXCEPT ![c] = flushed[c]]
        /\ torn' = [torn EXCEPT ![c] = TRUE]
        /\ lost' \subseteq Kernels
    BY <1>2, <1>4, <1>6, KernelsOfType DEF ReconnectTorn, buffers
  <2>2. Len(frames[c]) <= Len(frames[c])
    BY <1>1
  <2> QED BY <1>1, <1>3, <2>1, <2>2, SocketKeeps
<1> QED BY <1>5, <1>6 DEF Reconnect

LEMMA StreamStep ==
    ASSUME StreamInv, [Next]_vars
    PROVE  StreamInv'
<1>1. ASSUME NEW k \in Kernels, Send(k) PROVE StreamInv'
  BY <1>1, SendKeeps
<1>2. ASSUME NEW c \in Connections, Flush(c) PROVE StreamInv'
  BY <1>2, FlushKeeps
<1>3. ASSUME NEW c \in Connections, Fill(c) PROVE StreamInv'
  BY <1>3, FillKeeps
<1>4. ASSUME NEW c \in Connections, Receive(c) PROVE StreamInv'
  BY <1>4, ReceiveKeeps
<1>5. ASSUME NEW c \in Connections, Pass(c) PROVE StreamInv'
  BY <1>5, PassKeeps
<1>6. ASSUME NEW c \in Connections, Break(c) PROVE StreamInv'
  BY <1>6, BreakKeeps
<1>7. ASSUME NEW c \in Connections, Reconnect(c) PROVE StreamInv'
  BY <1>7, ReconnectKeeps
<1>8. CASE UNCHANGED vars
  <2>1. TypeOK'
    BY <1>8 DEF StreamInv, TypeOK, vars
  <2>2. Aligned'
    BY <1>8 DEF StreamInv, Aligned, End, vars
  <2>3. \A c \in Connections : Laid(frames[c], stream[c])' /\ PassedOn(c)'
    BY <1>8 DEF StreamInv, PassedOn, vars
  <2> QED BY <2>1, <2>2, <2>3 DEF StreamInv
<1> QED BY <1>1, <1>2, <1>3, <1>4, <1>5, <1>6, <1>7, <1>8 DEF Next

LEMMA StreamInvariant == Spec => []StreamInv
<1>1. Init => StreamInv
  BY InitInv
<1>2. StreamInv /\ [Next]_vars => StreamInv'
  BY StreamStep
<1> QED BY <1>1, <1>2, PTL DEF Spec

\* Every reachable state has the declared types (byte_buffer, connection).
THEOREM TypeCorrect == Spec => []TypeOK
<1>1. StreamInv => TypeOK
  BY DEF StreamInv
<1> QED BY <1>1, StreamInvariant, PTL

\* For any kernels, connections and processes, whatever is thrown while a
\* kernel is written or read and wherever the socket cuts the bytes, a reader
\* stands between two frames, until a client that connects again has left it
\* a part of one (kernel_write_guard, kernel_read_guard).
THEOREM ReadersAligned == Spec => []Aligned
<1>1. StreamInv => Aligned
  BY DEF StreamInv
<1> QED BY <1>1, StreamInvariant, PTL

-----------------------------------------------------------------------------
(***************************************************************************)
(* What becomes of a part of a kernel that is read.                        *)
(***************************************************************************)
LEMMA RestParts ==
    ASSUME NEW units \in Seq(Units), NEW n \in Nat, n <= Len(units)
    PROVE  /\ Rest(units, n) \in Seq(Units)
           /\ Len(Rest(units, n)) = Len(units) - n
           /\ \A i \in 1..(Len(units) - n) : Rest(units, n)[i] = units[n + i]
<1>1. Len(units) \in Nat
  BY LenProperties
<1>2. \A i \in (n + 1)..Len(units) : units[i] \in Units
  <2>1. \A i \in (n + 1)..Len(units) : i \in 1..Len(units)
    BY <1>1
  <2> QED BY <2>1, ElementOfSeq
<1> DEFINE from == n + 1
           to == Len(units)
<1>3. from \in Int /\ to \in Int /\ to - from + 1 = Len(units) - n
  BY <1>1
<1>4. (from <= to \/ Len(units) - n = 0) /\ \A i \in 1..(Len(units) - n) : from + i - 1 = n + i
  BY <1>1
<1> HIDE DEF from
<1>5. /\ SubSeq(units, from, to) \in Seq(Units)
      /\ Len(SubSeq(units, from, to)) = IF from <= to THEN to - from + 1 ELSE 0
      /\ \A i \in 1..(to - from + 1) : SubSeq(units, from, to)[i] = units[from + i - 1]
  <2>1. \A i \in from..to : units[i] \in Units
    BY <1>2 DEF from
  <2> QED BY <1>3, <2>1, SubSeqProperties
<1>6. Rest(units, n) = SubSeq(units, from, to)
  BY DEF Rest, from
<1>7. ~(from <= to) => Len(units) - n = 0
  BY <1>4
<1>8. Len(SubSeq(units, from, to)) = Len(units) - n
  BY <1>3, <1>5, <1>7
<1>9. \A i \in 1..(Len(units) - n) : SubSeq(units, from, to)[i] = units[n + i]
  BY <1>3, <1>4, <1>5
<1> QED BY <1>5, <1>6, <1>8, <1>9

LEMMA Layouts ==
    /\ Len(Layout(FALSE)) = 2 /\ Layout(FALSE)[1] = "base" /\ Layout(FALSE)[2] = "own"
    /\ Len(Layout(TRUE)) = 3 /\ Layout(TRUE)[1] = "base" /\ Layout(TRUE)[2] = "filter"
    /\ Layout(TRUE)[3] = "own"
BY DEF Layout

\* An object is what the reader takes it for if the reader knows of its filter,
\* and is not otherwise.
LEMMA ObjectMatches ==
    ASSUME NEW k \in Kernels, NEW whose \in {"kernel", "parent"}, NEW units,
           \A i \in 1..2 : units[i] = Object(k, whose)[i]
    PROVE  /\ HasFilter(k, whose) /\ units[3] = Object(k, whose)[3] => Match(units, Layout(TRUE), whose)
           /\ HasFilter(k, whose) => ~Match(units, Layout(FALSE), whose)
           /\ ~HasFilter(k, whose) => Match(units, Layout(FALSE), whose)
<1>1. /\ Object(k, whose)[1] = Unit("base", whose, k)
      /\ HasFilter(k, whose) => Object(k, whose)[2] = Unit("filter", whose, k)
      /\ Object(k, whose)[ObjectLength(k, whose)] = Unit("own", whose, k)
  BY ObjectParts
<1>2. \A part : Unit(part, whose, k).part = part /\ Unit(part, whose, k).whose = whose
  BY DEF Unit
<1>3. CASE HasFilter(k, whose)
  <2>1. units[1] = Unit("base", whose, k) /\ units[2] = Unit("filter", whose, k)
    BY <1>1, <1>3
  <2>2. units[3] = Object(k, whose)[3] => units[3] = Unit("own", whose, k)
    BY <1>1, <1>3, ObjectLengths
  <2>3. /\ units[1].part = "base" /\ units[1].whose = whose
        /\ units[2].part = "filter" /\ units[2].whose = whose
        /\ units[3] = Object(k, whose)[3] => units[3].part = "own" /\ units[3].whose = whose
    BY <1>2, <2>1, <2>2
  <2>4. ASSUME units[3] = Object(k, whose)[3]
        PROVE  Match(units, Layout(TRUE), whose)
    <3>1. \A i \in 1..3 : i = 1 \/ i = 2 \/ i = 3
      OBVIOUS
    <3>2. \A i \in 1..3 : units[i].part = Layout(TRUE)[i] /\ units[i].whose = whose
      BY <2>3, <2>4, <3>1, Layouts
    <3> QED BY <3>2, Layouts DEF Match
  <2>5. ~Match(units, Layout(FALSE), whose)
    <3>1. units[2].part = "filter" /\ Layout(FALSE)[2] = "own" /\ Len(Layout(FALSE)) = 2
      BY <2>3, Layouts
    <3>2. 2 \in 1..2 /\ "filter" # "own"
      OBVIOUS
    <3> QED BY <3>1, <3>2 DEF Match
  <2> QED BY <1>3, <2>4, <2>5
<1>4. CASE ~HasFilter(k, whose)
  <2>1. ObjectLength(k, whose) = 2
    BY <1>4, ObjectLengths
  <2>2. units[1] = Unit("base", whose, k) /\ units[2] = Unit("own", whose, k)
    BY <1>1, <2>1
  <2>3. /\ units[1].part = "base" /\ units[1].whose = whose
        /\ units[2].part = "own" /\ units[2].whose = whose
    BY <1>2, <2>2
  <2>4. Match(units, Layout(FALSE), whose)
    <3>1. \A i \in 1..2 : i = 1 \/ i = 2
      OBVIOUS
    <3>2. \A i \in 1..2 : units[i].part = Layout(FALSE)[i] /\ units[i].whose = whose
      BY <2>3, <3>1, Layouts
    <3> QED BY <3>2, Layouts DEF Match
  <2> QED BY <1>4, <2>4
<1> QED BY <1>3, <1>4

\* The reader receives a kernel that was written as a whole, and nothing else;
\* only the filter of a parent deceives it.
LEMMA NativeReads ==
    ASSUME NEW k \in Kernels, NEW units, IsPart(k, units)
    PROVE  /\ Native(units) \in {"whole", "garbage", "exception"}
           /\ k \notin FilteredParent => (Native(units) = "whole" <=> units = Body(k))
           /\ k \notin FilteredParent => Native(units) # "garbage"
           /\ k \in FilteredParent => Native(units) # "whole"
<1> DEFINE h == ObjectLength(k, "kernel")
           p == ObjectLength(k, "parent")
           L == Len(units)
           object == Rest(units, 1)
           parent == Rest(object, h)
           layout == Layout(k \in Filtered)
           carries == k \in Carrying
<1>1. /\ units \in Seq(Units) /\ L \in Nat /\ 1 <= L /\ L <= BodyLength(k)
      /\ \A i \in 1..L : units[i] = Body(k)[i]
      /\ units[1] = Unit("header", "kernel", k)
  BY PartProperties
<1>2. Native(units) = ReadAs(units, layout) /\ units[1].kernel = k
  BY <1>1 DEF Native, Unit
<1>3. HasFilter(k, "kernel") = (k \in Filtered) /\ HasFilter(k, "parent") = (k \in FilteredParent)
  BY DEF HasFilter
<1>4. h \in Nat /\ p \in Nat /\ h >= 2 /\ p >= 2
  BY ObjectLengths
<1>5. BodyLength(k) = 1 + h + (IF carries THEN p ELSE 0)
  BY DEF BodyLength
<1>6. object \in Seq(Units) /\ Len(object) = L - 1 /\ \A i \in 1..(L - 1) : object[i] = units[1 + i]
  <2>1. units \in Seq(Units) /\ 1 \in Nat /\ 1 <= Len(units)
    BY <1>1
  <2> HIDE DEF L
  <2>2. /\ Rest(units, 1) \in Seq(Units)
        /\ Len(Rest(units, 1)) = Len(units) - 1
        /\ \A i \in 1..(Len(units) - 1) : Rest(units, 1)[i] = units[1 + i]
    BY <2>1, RestParts
  <2> QED BY <2>2 DEF L
<1>7. Body(k) \in Seq(Units) /\ Len(Body(k)) = BodyLength(k)
  BY BodyParts
<1>8. units = Body(k) <=> L = BodyLength(k)
  <2>1. ASSUME L = BodyLength(k) PROVE units = Body(k)
    BY <1>1, <1>7, <2>1, SeqEqual
  <2> QED BY <1>7, <2>1
<1>9. /\ Len(layout) = h
      /\ HasFilter(k, "kernel") => layout = Layout(TRUE)
      /\ ~HasFilter(k, "kernel") => layout = Layout(FALSE)
  <2>1. CASE HasFilter(k, "kernel")
    <3>1. layout = Layout(TRUE)
      BY <1>3, <2>1 DEF Layout
    <3>2. h = 3
      BY <2>1, ObjectLengths
    <3> QED BY <2>1, <3>1, <3>2, Layouts
  <2>2. CASE ~HasFilter(k, "kernel")
    <3>1. layout = Layout(FALSE)
      BY <1>3, <2>2 DEF Layout
    <3>2. h = 2
      BY <2>2, ObjectLengths
    <3> QED BY <2>2, <3>1, <3>2, Layouts
  <2> QED BY <2>1, <2>2
<1>10. ASSUME L - 1 >= h
       PROVE  /\ Match(object, layout, "kernel")
              /\ parent \in Seq(Units) /\ Len(parent) = L - 1 - h
              /\ \A i \in 1..(L - 1 - h) : parent[i] = Body(k)[1 + h + i]
  <2>1. \A i \in 1..h : object[i] = Object(k, "kernel")[i]
    <3>1. ASSUME NEW i \in 1..h PROVE object[i] = Object(k, "kernel")[i]
      <4>1. i \in 1..(L - 1) /\ 1 + i \in 1..L
        BY <1>1, <1>4, <1>10
      <4>2. Body(k)[1 + i] = Object(k, "kernel")[i]
        BY BodyParts
      <4> QED BY <1>1, <1>6, <4>1, <4>2
    <3> QED BY <3>1
  <2>2. Match(object, layout, "kernel")
    <3> HIDE DEF object, layout
    <3>1. /\ \A i \in 1..2 : object[i] = Object(k, "kernel")[i]
          /\ HasFilter(k, "kernel") => object[3] = Object(k, "kernel")[3]
      BY <1>4, <2>1, ObjectLengths DEF h
    <3>2. /\ HasFilter(k, "kernel") => Match(object, Layout(TRUE), "kernel")
          /\ ~HasFilter(k, "kernel") => Match(object, Layout(FALSE), "kernel")
      BY <3>1, ObjectMatches
    <3> QED BY <1>9, <3>2
  <2>3. /\ parent \in Seq(Units) /\ Len(parent) = Len(object) - h
        /\ \A i \in 1..(Len(object) - h) : parent[i] = object[h + i]
    <3>1. h <= Len(object)
      BY <1>1, <1>4, <1>6, <1>10
    <3>2. object \in Seq(Units)
      BY <1>6
    <3> HIDE DEF object, h
    <3> QED BY <1>4, <3>1, <3>2, RestParts
  <2>4. ASSUME NEW i \in 1..(L - 1 - h) PROVE parent[i] = Body(k)[1 + h + i]
    <3>1. /\ i \in 1..(Len(object) - h) /\ h + i \in 1..(L - 1)
          /\ 1 + h + i \in 1..L /\ 1 + (h + i) = 1 + h + i
      BY <1>1, <1>4, <1>6
    <3> QED BY <1>1, <1>6, <2>3, <3>1
  <2> QED BY <1>6, <2>2, <2>3, <2>4
<1>11. carries => Suffice(parent, Layout(FALSE)) = (Len(parent) >= 2)
  BY Layouts DEF Suffice
<1>12. ReadAs(units, layout) =
          IF ~(Len(object) >= h) \/ (carries /\ ~(Len(parent) >= 2))
          THEN "exception"
          ELSE IF /\ Match(object, layout, "kernel")
                  /\ carries => Match(parent, Layout(FALSE), "parent")
               THEN "whole" ELSE "garbage"
  BY <1>2, <1>9, Layouts DEF ReadAs, Suffice
<1>13. ASSUME carries, L - 1 >= h, L - 1 - h >= 2
       PROVE  /\ k \in FilteredParent => ~Match(parent, Layout(FALSE), "parent")
              /\ k \notin FilteredParent => Match(parent, Layout(FALSE), "parent")
  <2>1. \A i \in 1..2 : parent[i] = Object(k, "parent")[i]
    <3>1. ASSUME NEW i \in 1..2 PROVE parent[i] = Object(k, "parent")[i]
      <4>1. i \in 1..(L - 1 - h) /\ i \in 1..p
        BY <1>1, <1>4, <1>13
      <4>2. Body(k)[1 + h + i] = Object(k, "parent")[i]
        BY <1>13, <4>1, BodyParts
      <4> QED BY <1>10, <1>13, <4>1, <4>2
    <3> QED BY <3>1
  <2> HIDE DEF parent
  <2>2. /\ HasFilter(k, "parent") => ~Match(parent, Layout(FALSE), "parent")
        /\ ~HasFilter(k, "parent") => Match(parent, Layout(FALSE), "parent")
    BY <2>1, ObjectMatches
  <2> QED BY <1>3, <2>2
<1> DEFINE enough == carries => L - 1 - h >= 2
           matches == carries => Match(parent, Layout(FALSE), "parent")
<1>14. /\ ~(L - 1 >= h) => ReadAs(units, layout) = "exception"
       /\ L - 1 >= h /\ ~enough => ReadAs(units, layout) = "exception"
       /\ L - 1 >= h /\ enough /\ matches => ReadAs(units, layout) = "whole"
       /\ L - 1 >= h /\ enough /\ ~matches => ReadAs(units, layout) = "garbage"
  <2>1. Len(object) = L - 1
    BY <1>6
  <2>2. ASSUME L - 1 >= h
        PROVE  Match(object, layout, "kernel") /\ Len(parent) = L - 1 - h
    BY <1>10, <2>2
  <2> HIDE DEF h, L, object, parent, layout
  <2> QED BY <1>12, <2>1, <2>2
<1> HIDE DEF object, parent, layout, L, h, p
<1>15. CASE ~carries
  <2>1. enough /\ matches /\ k \notin FilteredParent
    BY <1>15, KernelStreamAssumption DEF KernelStreamAssumption
  <2>2. L = BodyLength(k) <=> L - 1 >= h
    BY <1>1, <1>4, <1>5, <1>15
  <2> HIDE DEF enough, matches
  <2> QED BY <1>2, <1>8, <1>14, <2>1, <2>2
<1>16. CASE carries /\ k \notin FilteredParent
  <2>1. p = 2
    BY <1>3, <1>16, ObjectLengths DEF p
  <2>2. L = BodyLength(k) <=> L - 1 >= h /\ enough
    BY <1>1, <1>4, <1>5, <1>16, <2>1
  <2>3. L - 1 >= h /\ enough => matches
    BY <1>1, <1>4, <1>13, <1>16, <2>1
  <2> HIDE DEF enough, matches
  <2> QED BY <1>2, <1>8, <1>14, <1>16, <2>2, <2>3
<1>17. CASE carries /\ k \in FilteredParent
  <2>1. L - 1 >= h /\ enough => ~matches
    BY <1>13, <1>17
  <2> HIDE DEF enough, matches
  <2> QED BY <1>2, <1>14, <1>17, <2>1
<1> QED BY <1>15, <1>16, <1>17

-----------------------------------------------------------------------------
(***************************************************************************)
(* The frames that are not read are the queue of a connection.             *)
(***************************************************************************)
Entries == [kernel : Kernels, whole : BOOLEAN]
EntryOf(f) == Entry(f.kernel, f.body)
QueueOf(fs, t) == [i \in 1..(Len(fs) - t) |-> EntryOf(fs[t + i])]

LEMMA QueueIsQueueOf == Queue = [c \in Connections |-> QueueOf(frames[c], taken[c])]
BY DEF Queue, QueueOf, EntryOf

LEMMA QueueParts ==
    ASSUME NEW fs \in Seq(Frames), NEW t \in Nat, t <= Len(fs)
    PROVE  /\ QueueOf(fs, t) \in Seq(Entries)
           /\ Len(QueueOf(fs, t)) = Len(fs) - t
           /\ \A i \in 1..(Len(fs) - t) : QueueOf(fs, t)[i] = EntryOf(fs[t + i])
<1> DEFINE n == Len(fs) - t
<1>1. Len(fs) \in Nat /\ n \in Nat
  BY LenProperties
<1>2. \A i \in 1..n : EntryOf(fs[t + i]) \in Entries
  <2> SUFFICES ASSUME NEW i \in 1..n PROVE EntryOf(fs[t + i]) \in Entries
    OBVIOUS
  <2>1. t + i \in 1..Len(fs)
    BY <1>1
  <2>2. fs[t + i] \in Frames
    BY <2>1, ElementOfSeq
  <2> QED BY <2>2 DEF Frames, EntryOf, Entry, Entries
<1>3. QueueOf(fs, t) \in [1..n -> Entries]
  BY <1>2 DEF QueueOf
<1>4. QueueOf(fs, t) \in Seq(Entries)
  BY <1>1, <1>3, SeqDef
<1>5. Len(QueueOf(fs, t)) = n
  BY <1>1, <1>3, <1>4, LenProperties
<1> QED BY <1>4, <1>5 DEF QueueOf

\* What is written is at the end of the queue.
LEMMA QueueAppends ==
    ASSUME NEW fs \in Seq(Frames), NEW t \in Nat, t <= Len(fs), NEW f \in Frames
    PROVE  QueueOf(Append(fs, f), t) = Append(QueueOf(fs, t), EntryOf(f))
<1> DEFINE fs2 == Append(fs, f)
           q == QueueOf(fs, t)
           q2 == QueueOf(fs2, t)
           r == Append(q, EntryOf(f))
<1>1. /\ Len(fs) \in Nat
      /\ fs2 \in Seq(Frames) /\ Len(fs2) = Len(fs) + 1
      /\ \A i \in 1..Len(fs) : fs2[i] = fs[i]
      /\ fs2[Len(fs) + 1] = f
  BY LenProperties
<1>2. /\ q \in Seq(Entries) /\ Len(q) = Len(fs) - t
      /\ \A i \in 1..(Len(fs) - t) : q[i] = EntryOf(fs[t + i])
  BY QueueParts
<1>3. /\ q2 \in Seq(Entries) /\ Len(q2) = Len(fs2) - t
      /\ \A i \in 1..(Len(fs2) - t) : q2[i] = EntryOf(fs2[t + i])
  <2>1. t <= Len(fs2)
    BY <1>1
  <2> HIDE DEF fs2
  <2> QED BY <1>1, <2>1, QueueParts
<1>4. EntryOf(f) \in Entries
  BY DEF Frames, EntryOf, Entry, Entries
<1> HIDE DEF fs2, q, q2
<1>5. /\ r \in Seq(Entries) /\ Len(r) = Len(q) + 1
      /\ \A i \in 1..Len(q) : r[i] = q[i]
      /\ r[Len(q) + 1] = EntryOf(f)
  BY <1>2, <1>4
<1> HIDE DEF r
<1>6. Len(q2) = Len(r)
  BY <1>1, <1>2, <1>3, <1>5
<1>7. ASSUME NEW i \in 1..Len(q2) PROVE q2[i] = r[i]
  <2>1. i \in 1..(Len(fs2) - t) /\ q2[i] = EntryOf(fs2[t + i])
    BY <1>3
  <2>2. CASE i <= Len(fs) - t
    <3>1. t + i \in 1..Len(fs) /\ i \in 1..(Len(fs) - t) /\ i \in 1..Len(q)
      BY <1>1, <1>2, <2>1, <2>2
    <3> QED BY <1>1, <1>2, <1>5, <2>1, <3>1
  <2>3. CASE ~(i <= Len(fs) - t)
    <3>1. t + i = Len(fs) + 1 /\ i = Len(q) + 1
      BY <1>1, <1>2, <2>1, <2>3
    <3> QED BY <1>1, <1>5, <2>1, <3>1
  <2> QED BY <2>2, <2>3
<1>8. q2 = r
  BY <1>3, <1>5, <1>6, <1>7, SeqEqual
<1> QED BY <1>8 DEF q, q2, r, fs2

\* What is read, or will never be, is at its beginning.
LEMMA QueueRest ==
    ASSUME NEW fs \in Seq(Frames), NEW t \in Nat, NEW m \in Nat, t <= m, m <= Len(fs)
    PROVE  LET q == QueueOf(fs, t)
           IN  /\ QueueOf(fs, m) = SubSeq(q, (m - t) + 1, Len(q))
               /\ m - t \in 0..Len(q)
               /\ m = t + 1 => q # <<>> /\ QueueOf(fs, m) = Tail(q) /\ Head(q) = EntryOf(fs[m])
<1> DEFINE q == QueueOf(fs, t)
           q2 == QueueOf(fs, m)
           first == (m - t) + 1
           r == SubSeq(q, first, Len(q))
<1>1. Len(fs) \in Nat /\ t <= Len(fs)
  <2>1. Len(fs) \in Nat
    BY LenProperties
  <2> QED BY <2>1
<1>2. /\ q \in Seq(Entries) /\ Len(q) = Len(fs) - t
      /\ \A i \in 1..(Len(fs) - t) : q[i] = EntryOf(fs[t + i])
  BY <1>1, QueueParts
<1>3. /\ q2 \in Seq(Entries) /\ Len(q2) = Len(fs) - m
      /\ \A i \in 1..(Len(fs) - m) : q2[i] = EntryOf(fs[m + i])
  BY <1>1, QueueParts
<1> HIDE DEF q, q2
<1>4. /\ r \in Seq(Entries)
      /\ Len(r) = IF first <= Len(q) THEN Len(q) - first + 1 ELSE 0
      /\ \A i \in 1..(Len(q) - first + 1) : r[i] = q[first + i - 1]
  <2>1. first \in Int /\ Len(q) \in Int
    BY <1>1, <1>2
  <2>2. \A i \in first..Len(q) : q[i] \in Entries
    <3>1. \A i \in first..Len(q) : i \in 1..Len(q)
      BY <1>1, <1>2
    <3> QED BY <1>2, <3>1, ElementOfSeq
  <2> HIDE DEF first
  <2> QED BY <2>1, <2>2, SubSeqProperties
<1>5. Len(r) = Len(q2) /\ Len(q) - first + 1 = Len(fs) - m
  BY <1>1, <1>2, <1>3, <1>4
<1>6. ASSUME NEW i \in 1..Len(q2) PROVE q2[i] = r[i]
  <2>1. i \in 1..(Len(fs) - m) /\ i \in 1..(Len(q) - first + 1)
    BY <1>3, <1>5
  <2>2. first + i - 1 = (m - t) + i /\ (m - t) + i \in 1..(Len(fs) - t) /\ t + ((m - t) + i) = m + i
    BY <1>1, <2>1
  <2>3. r[i] = q[(m - t) + i]
    BY <1>4, <2>1, <2>2
  <2>4. q[(m - t) + i] = EntryOf(fs[m + i])
    BY <1>2, <2>2
  <2> QED BY <1>3, <2>1, <2>3, <2>4
<1>7. q2 = r
  <2> HIDE DEF r
  <2> QED BY <1>3, <1>4, <1>5, <1>6, SeqEqual
<1>8. m - t \in 0..Len(q)
  BY <1>1, <1>2
<1>9. ASSUME m = t + 1 PROVE q # <<>> /\ q2 = Tail(q) /\ Head(q) = EntryOf(fs[m])
  <2>1. first = 2 /\ Len(q) \in Nat \ {0} /\ 1 \in 1..(Len(fs) - t)
    BY <1>1, <1>2, <1>9
  <2>2. q # <<>>
    BY <2>1, EmptySeq
  <2>3. Tail(q) = SubSeq(q, 2, Len(q))
    BY <1>2, <2>2, TailIsSubSeq
  <2>4. Head(q) = q[1] /\ q[1] = EntryOf(fs[m])
    BY <1>2, <1>9, <2>1, <2>2
  <2> QED BY <1>7, <2>1, <2>2, <2>3, <2>4
<1> QED BY <1>7, <1>8, <1>9 DEF q, q2

-----------------------------------------------------------------------------
(***************************************************************************)
(* Every step is one of KernelChannel, or none.                            *)
(***************************************************************************)
LEMMA QueueAt ==
    ASSUME NEW c \in Connections
    PROVE  Queue[c] = QueueOf(frames[c], taken[c])
BY QueueIsQueueOf

LEMMA HoldingAt ==
    ASSUME NEW c \in Connections
    PROVE  Holding[c] = {} <=> passing[c] = Nothing
BY DEF Holding

LEMMA WritePuts ==
    ASSUME StreamInv, NEW d \in Connections, NEW k \in Kernels, NEW body,
           body = <<>> \/ IsPart(k, body),
           WriteFrame(d, k, body), taken' = taken
    PROVE  /\ torn[d] \/ body = <<>> => Queue' = Queue
           /\ ~torn[d] /\ body # <<>> => Channel!Put(d, Entry(k, body))
<1>1. CASE torn[d] \/ body = <<>>
  <2>1. UNCHANGED frames
    BY <1>1 DEF WriteFrame
  <2> QED BY <1>1, <2>1 DEF Queue
<1>2. CASE ~torn[d] /\ body # <<>>
  <2> DEFINE f == Written(stream[d], k, body)
  <2>1. frames' = [frames EXCEPT ![d] = Append(frames[d], f)]
    BY <1>2 DEF WriteFrame, Written
  <2>2. f \in Frames /\ EntryOf(f) = Entry(k, body)
    <3>1. body \in Seq(Units)
      BY <1>2, PartProperties
    <3>2. Len(stream[d]) \in Nat
      BY StateOf
    <3> QED BY <3>1, <3>2 DEF Written, Frames, EntryOf
  <2> HIDE DEF f
  <2>3. /\ frames[d] \in Seq(Frames) /\ taken[d] \in Nat /\ taken[d] <= Len(frames[d])
        /\ frames \in [Connections -> Seq(Frames)]
    BY StateOf DEF StreamInv, TypeOK, Frames
  <2>4. QueueOf(Append(frames[d], f), taken[d]) = Append(QueueOf(frames[d], taken[d]), Entry(k, body))
    BY <2>2, <2>3, QueueAppends
  <2>5. Queue' = [c \in Connections |-> QueueOf(frames'[c], taken[c])]
    BY QueueIsQueueOf DEF Queue, QueueOf, EntryOf
  <2>6. \A c \in Connections :
            QueueOf(frames'[c], taken[c]) =
                IF c = d THEN Append(Queue[d], Entry(k, body)) ELSE Queue[c]
    BY <2>1, <2>3, <2>4, QueueAt
  <2>7. Queue' = [Queue EXCEPT ![d] = Append(Queue[d], Entry(k, body))]
    <3>1. Queue = [c \in Connections |-> Queue[c]]
      BY QueueIsQueueOf
    <3> QED BY <2>5, <2>6, <3>1
  <2> QED BY <1>2, <2>7 DEF Channel!Put
<1> QED BY <1>1, <1>2

LEMMA SendIsSend ==
    ASSUME StreamInv, NEW k \in Kernels, Send(k)
    PROVE  Channel!Send(k)
<1> DEFINE c == First[k]
<1>1. PICK n \in 0..Len(Body(k)) :
          /\ WriteFrame(c, k, SubSeq(Body(k), 1, n))
          /\ lost' = IF n = Len(Body(k)) /\ ~torn[c] THEN lost ELSE lost \cup {k}
  BY DEF Send
<1>2. c \in Connections
  BY KernelStreamAssumption DEF KernelStreamAssumption
<1>3. /\ k \in unsent /\ unsent' = unsent \ {k}
      /\ UNCHANGED <<buffers, passing, torn, breaks, taken, received>>
  BY DEF Send
<1>4. Holding' = Holding
  BY <1>3 DEF Holding
<1> DEFINE body == SubSeq(Body(k), 1, n)
<1>5. body = <<>> \/ IsPart(k, body)
  BY SendWrites
<1>6. Body(k) \in Seq(Units) /\ Len(Body(k)) \in Nat \ {0}
  BY BodyParts DEF BodyLength, ObjectLength
<1>7. body = Body(k) <=> n = Len(Body(k))
  <2>1. ASSUME n = Len(Body(k)) PROVE body = Body(k)
    BY <1>6, <2>1, SubSeqFull
  <2>2. ASSUME body = Body(k) PROVE n = Len(Body(k))
    <3>1. Len(body) = n
      <4>1. \A i \in 1..n : Body(k)[i] \in Units
        BY <1>6, ElementOfSeq
      <4>2. Len(SubSeq(Body(k), 1, n)) = IF 1 <= n THEN n - 1 + 1 ELSE 0
        BY <4>1, SubSeqProperties
      <4> QED BY <4>2
    <3> QED BY <2>2, <3>1
  <2> QED BY <2>1, <2>2
<1> HIDE DEF body, c
<1>8. /\ torn[c] \/ body = <<>> => Queue' = Queue
      /\ ~torn[c] /\ body # <<>> => Channel!Put(c, Entry(k, body))
  <2>1. WriteFrame(c, k, body)
    BY <1>1 DEF body
  <2> QED BY <1>2, <1>3, <1>5, <2>1, WritePuts
<1>9. Entry(k, body) = [kernel |-> k, whole |-> body = Body(k)]
  BY DEF Entry
<1>10. \/ ~torn[c] /\ Channel!Put(c, [kernel |-> k, whole |-> TRUE]) /\ lost' = lost
       \/ ~torn[c] /\ Channel!Put(c, [kernel |-> k, whole |-> FALSE]) /\ lost' = lost \cup {k}
       \/ Queue' = Queue /\ lost' = lost \cup {k}
  <2>1. CASE torn[c] \/ body = <<>>
    <3>1. lost' = lost \cup {k}
      <4>1. body = <<>> => body # Body(k)
        BY <1>6, EmptySeq
      <4> QED BY <1>1, <1>7, <2>1, <4>1
    <3> QED BY <1>8, <2>1, <3>1
  <2>2. CASE ~torn[c] /\ body # <<>> /\ body = Body(k)
    <3>1. Entry(k, body) = [kernel |-> k, whole |-> TRUE]
      BY <1>9, <2>2
    <3> QED BY <1>1, <1>7, <1>8, <2>2, <3>1
  <2>3. CASE ~torn[c] /\ body # <<>> /\ body # Body(k)
    <3>1. Entry(k, body) = [kernel |-> k, whole |-> FALSE]
      BY <1>9, <2>3
    <3> QED BY <1>1, <1>7, <1>8, <2>3, <3>1
  <2> QED BY <2>1, <2>2, <2>3
<1> QED BY <1>3, <1>4, <1>10 DEF Channel!Send, c

\* The frame that is read is the first of the queue.
LEMMA TakeFirst ==
    ASSUME StreamInv, NEW c \in Connections,
           taken' = [taken EXCEPT ![c] = taken[c] + 1], UNCHANGED frames,
           taken[c] + 1 \in 1..Len(frames[c])
    PROVE  /\ Queue[c] # <<>>
           /\ Queue' = [Queue EXCEPT ![c] = Tail(Queue[c])]
           /\ Head(Queue[c]) = EntryOf(frames[c][taken[c] + 1])
<1>1. /\ frames[c] \in Seq(Frames) /\ taken[c] \in Nat /\ taken[c] + 1 <= Len(frames[c])
      /\ taken[c] <= taken[c] + 1 /\ taken[c] + 1 \in Nat
      /\ taken \in [Connections -> Nat]
  <2>1. /\ frames[c] \in Seq(Frames) /\ taken[c] \in Nat /\ Len(frames[c]) \in Nat
    BY StateOf
  <2>2. taken \in [Connections -> Nat]
    BY DEF StreamInv, TypeOK
  <2> QED BY <2>1, <2>2
<1>2. /\ QueueOf(frames[c], taken[c]) # <<>>
      /\ QueueOf(frames[c], taken[c] + 1) = Tail(QueueOf(frames[c], taken[c]))
      /\ Head(QueueOf(frames[c], taken[c])) = EntryOf(frames[c][taken[c] + 1])
  BY <1>1, QueueRest
<1>3. Queue' = [d \in Connections |-> QueueOf(frames[d], taken'[d])]
  BY QueueIsQueueOf DEF Queue, QueueOf, EntryOf
<1>4. \A d \in Connections :
          QueueOf(frames[d], taken'[d]) = IF d = c THEN Tail(Queue[c]) ELSE Queue[d]
  BY <1>1, <1>2, QueueAt
<1>5. Queue = [d \in Connections |-> Queue[d]]
  BY QueueIsQueueOf
<1>6. Queue' = [Queue EXCEPT ![c] = Tail(Queue[c])]
  BY <1>3, <1>4, <1>5
<1> QED BY <1>2, <1>6, QueueAt

LEMMA ReceiveIsReceive ==
    ASSUME StreamInv, NEW c \in Connections, Receive(c)
    PROVE  Channel!Receive(c)
<1> DEFINE f == frames[c][taken[c] + 1]
           k == f.kernel
           e == Head(Queue[c])
<1>1. /\ k \in Kernels /\ IsPart(k, f.body)
      /\ taken[c] + 1 \in 1..Len(frames[c])
      /\ taken' = [taken EXCEPT ![c] = taken[c] + 1]
      /\ UNCHANGED <<torn, frames, unsent>>
      /\ \/ Target[k] = Reader[c] /\ ReceiveNative(f.body)
         \/ Target[k] # Reader[c] /\ ReceiveForeign(c, f.body)
      /\ passing[c] = Nothing
      /\ f.body[1].kernel = k
  BY ReceiveReads
<1>2. /\ Queue[c] # <<>>
      /\ Queue' = [Queue EXCEPT ![c] = Tail(Queue[c])]
      /\ e = EntryOf(f)
  BY <1>1, TakeFirst
<1>3. /\ e.kernel = k /\ e = Entry(k, f.body)
      /\ f.body = Body(k) => e.whole
      /\ f.body # Body(k) => ~e.whole
  <2>1. e = [kernel |-> k, whole |-> f.body = Body(k)]
    BY <1>2 DEF EntryOf, Entry
  <2>2. ASSUME f.body = Body(k) PROVE e.whole
    <3>1. e = [kernel |-> k, whole |-> TRUE]
      BY <2>1, <2>2
    <3> QED BY <3>1
  <2>3. ASSUME f.body # Body(k) PROVE ~e.whole
    <3>1. e = [kernel |-> k, whole |-> FALSE]
      BY <2>1, <2>3
    <3> QED BY <3>1
  <2> HIDE DEF f, e
  <2> QED BY <2>1, <2>2, <2>3 DEF Entry
<1>4. Holding[c] = {}
  BY <1>1, HoldingAt
<1> HIDE DEF f, e
<1> DEFINE Step ==
        \/ /\ Target[k] = Reader[c] /\ e.whole
           /\ \/ k \notin FilteredParent /\ Channel!Deliver(k, TRUE)
              \/ k \in FilteredParent /\ Channel!Refuse(k)
              \/ k \in FilteredParent /\ Channel!Deliver(k, FALSE)
           /\ Holding' = Holding
        \/ /\ Target[k] # Reader[c]
           /\ Holding' = [Holding EXCEPT ![c] = {e}]
           /\ UNCHANGED <<lost, received>>
        \/ /\ ~e.whole
           /\ \/ Channel!Refuse(k)
              \/ Target[k] = Reader[c] /\ k \in FilteredParent /\ Channel!Deliver(k, FALSE)
           /\ Holding' = Holding
<1>5. ASSUME Target[k] = Reader[c] /\ ReceiveNative(f.body) PROVE Step
  <2>1. Holding' = Holding
    BY <1>5 DEF ReceiveNative, Accept, Drop, Holding
  <2>2. \/ Native(f.body) = "whole" /\ Channel!Deliver(k, TRUE)
        \/ Native(f.body) \in {"garbage", "exception"} /\ Channel!Refuse(k)
        \/ Native(f.body) = "garbage" /\ Channel!Deliver(k, FALSE)
    BY <1>1, <1>5 DEF ReceiveNative, Accept, Drop, Channel!Deliver, Channel!Refuse
  <2>3. /\ k \notin FilteredParent => (Native(f.body) = "whole" <=> f.body = Body(k))
        /\ k \notin FilteredParent => Native(f.body) # "garbage"
        /\ k \in FilteredParent => Native(f.body) # "whole"
    BY <1>1, NativeReads
  <2>4. CASE Native(f.body) = "whole" /\ Channel!Deliver(k, TRUE)
    BY <1>3, <1>5, <2>1, <2>3, <2>4
  <2>5. CASE Native(f.body) \in {"garbage", "exception"} /\ Channel!Refuse(k)
    <3>1. k \in FilteredParent \/ f.body # Body(k)
      BY <2>3, <2>5
    <3> QED BY <1>3, <1>5, <2>1, <2>5, <3>1
  <2>6. CASE Native(f.body) = "garbage" /\ Channel!Deliver(k, FALSE)
    <3>1. k \in FilteredParent
      BY <2>3, <2>6
    <3> QED BY <1>3, <1>5, <2>1, <2>6, <3>1
  <2> QED BY <2>2, <2>4, <2>5, <2>6
<1>6. ASSUME Target[k] # Reader[c] /\ ReceiveForeign(c, f.body) PROVE Step
  <2>1. CASE Len(f.body) >= HeadLength(k)
    <3>1. passing' = [passing EXCEPT ![c] = Foreign(f.body)] /\ UNCHANGED <<received, lost>>
      BY <1>1, <1>6, <2>1 DEF ReceiveForeign
    <3>2. /\ Foreign(f.body) # Nothing
          /\ ForeignBody(Foreign(f.body)) = f.body
      <4>1. HeadLength(k) <= Len(f.body)
        <5>1. HeadLength(k) \in Nat /\ Len(f.body) \in Nat
          BY <1>1, PartProperties DEF HeadLength
        <5> QED BY <2>1, <5>1
      <4> QED BY <1>1, <4>1, ForeignKeeps
    <3>3. KernelIn(Foreign(f.body)) = k
      BY <1>1, <3>2 DEF KernelIn
    <3>4. passing \in [Connections -> [head : Seq(Units), payload : Seq(Units)]]
      BY DEF StreamInv, TypeOK
    <3>5. Holding' = [Holding EXCEPT ![c] = {e}]
      <4>1. \A d \in Connections :
               passing'[d] = IF d = c THEN Foreign(f.body) ELSE passing[d]
        BY <3>1, <3>4
      <4> QED BY <1>3, <3>2, <3>3, <4>1 DEF Holding
    <3> QED BY <1>6, <3>1, <3>5
  <2>2. CASE ~(Len(f.body) >= HeadLength(k))
    <3>1. Drop(k)
      BY <1>1, <1>6, <2>2 DEF ReceiveForeign
    <3>2. Holding' = Holding /\ Channel!Refuse(k)
      BY <3>1 DEF Drop, Holding, Channel!Refuse
    <3>3. f.body # Body(k)
      <4>1. Len(Body(k)) = BodyLength(k) /\ BodyLength(k) >= HeadLength(k)
        BY <1>1, BodyParts DEF BodyLength, ObjectLength, HasFilter, HeadLength
      <4> QED BY <2>2, <4>1
    <3> QED BY <1>3, <3>2, <3>3
  <2> QED BY <2>1, <2>2
<1>7. Step
  BY <1>1, <1>5, <1>6
<1>8. UNCHANGED <<torn, unsent>>
  BY <1>1
<1> HIDE DEF k
<1> QED BY <1>2, <1>3, <1>4, <1>7, <1>8 DEF Channel!Receive, e

LEMMA PassIsPass ==
    ASSUME StreamInv, NEW c \in Connections, Pass(c)
    PROVE  Channel!Pass(c)
<1> DEFINE body == ForeignBody(passing[c])
           k == body[1].kernel
           next == Forward[c][Target[k]]
           e == Entry(k, body)
<1>1. PICK j \in Kernels : IsPart(j, body)
  BY DEF Pass, StreamInv, PassedOn
<1>2. k \in Kernels /\ IsPart(k, body) /\ body # <<>>
  <2>1. body[1] = Unit("header", "kernel", j) /\ body # <<>>
    BY <1>1, PartProperties
  <2>2. k = j
    BY <2>1 DEF Unit
  <2> QED BY <1>1, <2>1, <2>2
<1>3. next \in Connections
  BY <1>2, KernelStreamAssumption DEF KernelStreamAssumption
<1>4. /\ passing[c] # Nothing
      /\ WriteFrame(next, k, body)
      /\ lost' = IF torn[next] THEN lost \cup {k} ELSE lost
      /\ passing' = [passing EXCEPT ![c] = Nothing]
      /\ UNCHANGED <<buffers, torn, breaks, taken, unsent, received>>
  BY DEF Pass
<1>5. Holding[c] = {e}
  BY <1>4 DEF Holding, KernelIn
<1>6. e.kernel = k
  BY DEF Entry
<1>7. Holding' = [Holding EXCEPT ![c] = {}]
  <2>1. passing \in [Connections -> [head : Seq(Units), payload : Seq(Units)]]
    BY DEF StreamInv, TypeOK
  <2>2. \A d \in Connections : passing'[d] = IF d = c THEN Nothing ELSE passing[d]
    BY <1>4, <2>1
  <2> QED BY <2>2 DEF Holding
<1> HIDE DEF body, k, next, e
<1>8. /\ torn[next] => Queue' = Queue
      /\ ~torn[next] => Channel!Put(next, Entry(k, body))
  BY <1>2, <1>3, <1>4, WritePuts
<1>9. \/ ~torn[next] /\ Channel!Put(next, e) /\ lost' = lost
      \/ torn[next] /\ Queue' = Queue /\ lost' = lost \cup {e.kernel}
  BY <1>4, <1>6, <1>8 DEF e
<1>10. next = Forward[c][Target[e.kernel]]
  BY <1>6 DEF next
<1> QED BY <1>4, <1>5, <1>7, <1>9, <1>10 DEF Channel!Pass

\* The kernels that a failure loses are the first ones of the queue.
LEMMA Loses ==
    ASSUME StreamInv, NEW c \in Connections, NEW m \in taken[c]..Len(frames[c]),
           passing[c] = Nothing, UNCHANGED <<passing, frames, unsent, received>>,
           taken' = [taken EXCEPT ![c] = m],
           lost' = lost \cup KernelsOf(c, taken[c] + 1, m),
           \/ torn' = [torn EXCEPT ![c] = FALSE]
           \/ m = Len(frames[c]) /\ torn' = [torn EXCEPT ![c] = TRUE]
    PROVE  Channel!Fail(c)
<1> DEFINE q == Queue[c]
           n == m - taken[c]
<1>1. /\ frames[c] \in Seq(Frames) /\ taken[c] \in Nat /\ Len(frames[c]) \in Nat
      /\ taken[c] <= Len(frames[c]) /\ taken \in [Connections -> Nat]
  <2>1. taken \in [Connections -> Nat]
    BY DEF StreamInv, TypeOK
  <2> QED BY <2>1, StateOf
<1>2. m \in Nat /\ taken[c] <= m /\ m <= Len(frames[c])
  BY <1>1
<1>3. QueueOf(frames[c], m) = SubSeq(q, n + 1, Len(q)) /\ n \in 0..Len(q)
  <2>1. LET r == QueueOf(frames[c], taken[c])
        IN  /\ QueueOf(frames[c], m) = SubSeq(r, (m - taken[c]) + 1, Len(r))
            /\ m - taken[c] \in 0..Len(r)
    BY <1>1, <1>2, QueueRest
  <2> QED BY <2>1, QueueAt
<1>4. /\ Len(q) = Len(frames[c]) - taken[c]
      /\ \A i \in 1..(Len(frames[c]) - taken[c]) : q[i] = EntryOf(frames[c][taken[c] + i])
  <2>1. LET r == QueueOf(frames[c], taken[c])
        IN  /\ Len(r) = Len(frames[c]) - taken[c]
            /\ \A i \in 1..(Len(frames[c]) - taken[c]) : r[i] = EntryOf(frames[c][taken[c] + i])
    BY <1>1, QueueParts
  <2> QED BY <2>1, QueueAt
<1> HIDE DEF q
<1>5. Queue' = [Queue EXCEPT ![c] = SubSeq(Queue[c], n + 1, Len(Queue[c]))]
  <2>1. Queue' = [d \in Connections |-> QueueOf(frames[d], taken'[d])]
    BY QueueIsQueueOf DEF Queue, QueueOf, EntryOf
  <2>2. \A d \in Connections :
            QueueOf(frames[d], taken'[d]) =
                IF d = c THEN SubSeq(q, n + 1, Len(q)) ELSE Queue[d]
    BY <1>1, <1>3, QueueAt
  <2>3. Queue = [d \in Connections |-> Queue[d]]
    BY QueueIsQueueOf
  <2> QED BY <2>1, <2>2, <2>3 DEF q
<1>6. KernelsOf(c, taken[c] + 1, m) = Channel!WholeIn(q, n)
  <2>1. ASSUME NEW i \in 1..n
        PROVE  /\ taken[c] + i \in (taken[c] + 1)..m
               /\ q[i] = EntryOf(frames[c][taken[c] + i])
    <3>1. taken[c] + i \in (taken[c] + 1)..m /\ i \in 1..(Len(frames[c]) - taken[c])
      BY <1>1, <1>2
    <3> QED BY <1>4, <3>1
  <2>2. \A j \in (taken[c] + 1)..m : j - taken[c] \in 1..n /\ taken[c] + (j - taken[c]) = j
    BY <1>1, <1>2
  <2>3. \A i \in 1..n : /\ q[i].kernel = frames[c][taken[c] + i].kernel
                        /\ q[i].whole <=> Whole(frames[c][taken[c] + i])
    <3> SUFFICES ASSUME NEW i \in 1..n
                 PROVE  /\ q[i].kernel = frames[c][taken[c] + i].kernel
                        /\ q[i].whole <=> Whole(frames[c][taken[c] + i])
      OBVIOUS
    <3> DEFINE f == frames[c][taken[c] + i]
    <3>1. q[i] = [kernel |-> f.kernel, whole |-> f.body = Body(f.kernel)]
      BY <2>1 DEF EntryOf, Entry
    <3> HIDE DEF f
    <3>2. CASE f.body = Body(f.kernel)
      <4>1. q[i] = [kernel |-> f.kernel, whole |-> TRUE]
        BY <3>1, <3>2
      <4> QED BY <3>2, <4>1 DEF Whole, f
    <3>3. CASE f.body # Body(f.kernel)
      <4>1. q[i] = [kernel |-> f.kernel, whole |-> FALSE]
        BY <3>1, <3>3
      <4> QED BY <3>3, <4>1 DEF Whole, f
    <3> QED BY <3>2, <3>3
  <2>4. ASSUME NEW k \in Kernels
        PROVE  (\E j \in (taken[c] + 1)..m : frames[c][j].kernel = k /\ Whole(frames[c][j]))
                   <=> (\E i \in 1..n : q[i].kernel = k /\ q[i].whole)
    <3> HIDE DEF n
    <3> QED BY <2>1, <2>2, <2>3
  <2> QED BY <2>4 DEF KernelsOf, Channel!WholeIn
<1>7. Holding[c] = {} /\ Holding' = Holding
  BY HoldingAt DEF Holding
<1>8. torn' \in {[torn EXCEPT ![c] = FALSE]}
                    \cup (IF n = Len(q) THEN {[torn EXCEPT ![c] = TRUE]} ELSE {})
  <2>1. m = Len(frames[c]) => n = Len(q)
    BY <1>4
  <2> HIDE DEF n
  <2> QED BY <2>1
<1>9. UNCHANGED <<Holding, unsent, received>>
  BY <1>7
<1> HIDE DEF n
<1> QED BY <1>3, <1>5, <1>6, <1>7, <1>8, <1>9 DEF Channel!Fail, q

LEMMA BreakFails ==
    ASSUME StreamInv, NEW c \in Connections, Break(c)
    PROVE  Channel!Fail(c)
<1>1. Len(frames[c]) \in taken[c]..Len(frames[c])
  <2>1. taken[c] \in Nat /\ Len(frames[c]) \in Nat /\ taken[c] <= Len(frames[c])
    BY StateOf
  <2> QED BY <2>1
<1>2. /\ passing[c] = Nothing
      /\ lost' = lost \cup KernelsOf(c, taken[c] + 1, Len(frames[c]))
      /\ taken' = [taken EXCEPT ![c] = Len(frames[c])]
      /\ torn' = [torn EXCEPT ![c] = FALSE]
      /\ UNCHANGED <<passing, frames, unsent, received>>
  BY DEF Break, Idle
<1> QED BY <1>1, <1>2, Loses

LEMMA ReconnectFails ==
    ASSUME StreamInv, NEW c \in Connections, Reconnect(c)
    PROVE  Channel!Fail(c)
<1>1. /\ passing[c] = Nothing /\ ~torn[c]
      /\ UNCHANGED <<passing, frames, unsent, received>>
  BY DEF Reconnect, Idle
<1>2. torn \in [Connections -> BOOLEAN]
  BY DEF StreamInv, TypeOK
<1>3. CASE \E m \in taken[c]..Len(frames[c]) : End(c, m) = flushed[c] /\ ReconnectAt(c, m)
  <2>1. PICK m \in taken[c]..Len(frames[c]) : ReconnectAt(c, m)
    BY <1>3
  <2>2. /\ lost' = lost \cup KernelsOf(c, taken[c] + 1, m)
        /\ taken' = [taken EXCEPT ![c] = m]
        /\ torn' = torn
    BY <2>1 DEF ReconnectAt
  <2>3. torn' = [torn EXCEPT ![c] = FALSE]
    BY <1>1, <1>2, <2>2
  <2> QED BY <1>1, <2>2, <2>3, Loses
<1>4. CASE ReconnectTorn(c)
  <2>1. Len(frames[c]) \in taken[c]..Len(frames[c])
    <3>1. taken[c] \in Nat /\ Len(frames[c]) \in Nat /\ taken[c] <= Len(frames[c])
      BY StateOf
    <3> QED BY <3>1
  <2>2. /\ lost' = lost \cup KernelsOf(c, taken[c] + 1, Len(frames[c]))
        /\ taken' = [taken EXCEPT ![c] = Len(frames[c])]
        /\ torn' = [torn EXCEPT ![c] = TRUE]
    BY <1>4 DEF ReconnectTorn
  <2> QED BY <1>1, <2>1, <2>2, Loses
<1> QED BY <1>3, <1>4 DEF Reconnect

\* The socket is not seen.
LEMMA SocketStutters ==
    ASSUME UNCHANGED <<stream, passing, torn, frames, taken, unsent, lost, received>>
    PROVE  UNCHANGED Channel!chan
<1>1. Queue' = Queue /\ Holding' = Holding
  BY DEF Queue, Holding
<1> QED BY <1>1 DEF Channel!chan

LEMMA StepIsStep ==
    ASSUME StreamInv, [Next]_vars
    PROVE  [Channel!Next]_Channel!chan
<1>1. ASSUME NEW k \in Kernels, Send(k) PROVE Channel!Next
  BY <1>1, SendIsSend DEF Channel!Next
<1>2. ASSUME NEW c \in Connections, Flush(c) PROVE UNCHANGED Channel!chan
  BY <1>2, SocketStutters DEF Flush
<1>3. ASSUME NEW c \in Connections, Fill(c) PROVE UNCHANGED Channel!chan
  BY <1>3, SocketStutters DEF Fill
<1>4. ASSUME NEW c \in Connections, Receive(c) PROVE Channel!Next
  BY <1>4, ReceiveIsReceive DEF Channel!Next
<1>5. ASSUME NEW c \in Connections, Pass(c) PROVE Channel!Next
  BY <1>5, PassIsPass DEF Channel!Next
<1>6. ASSUME NEW c \in Connections, Break(c) PROVE Channel!Next
  BY <1>6, BreakFails DEF Channel!Next
<1>7. ASSUME NEW c \in Connections, Reconnect(c) PROVE Channel!Next
  BY <1>7, ReconnectFails DEF Channel!Next
<1>8. CASE UNCHANGED vars
  BY <1>8, SocketStutters DEF vars
<1> QED BY <1>1, <1>2, <1>3, <1>4, <1>5, <1>6, <1>7, <1>8 DEF Next

LEMMA InitIsInit ==
    ASSUME Init
    PROVE  Channel!Init
<1>1. Queue = [c \in Connections |-> <<>>]
  <2>1. Len(<<>>) = 0
    BY EmptySeq
  <2>2. \A c \in Connections : QueueOf(<<>>, 0) = <<>>
    <3>1. 1..(Len(<<>>) - 0) = {}
      BY <2>1
    <3> QED BY <3>1 DEF QueueOf
  <2> QED BY <2>2, QueueIsQueueOf DEF Init
<1>2. Holding = [c \in Connections |-> {}]
  BY DEF Holding, Init
<1> QED BY <1>1, <1>2 DEF Init, Channel!Init

\* For any kernels, connections and processes the connections are queues of
\* kernels: what is read is the first of what was written, whole if and only if
\* it was written as a whole, and what is passed on is written as it was read
\* (the safety part of IsChannel; kernel_buffer::write, read, the loop of
\* receive_kernels(), forward_foreign()).
THEOREM StreamIsChannel == Spec => Channel!Safety
<1>1. Init => Channel!Init
  BY InitIsInit
<1>2. StreamInv /\ [Next]_vars => [Channel!Next]_Channel!chan
  BY StepIsStep
<1> QED BY <1>1, <1>2, StreamInvariant, PTL DEF Spec, Channel!Safety
=============================================================================
