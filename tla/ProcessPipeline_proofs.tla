------------------------- MODULE ProcessPipeline_proofs -------------------------
(***************************************************************************)
(* Proofs about ProcessPipeline for any applications, kernels, weights,    *)
(* numbers of threads and setups.                                          *)
(***************************************************************************)
EXTENDS ProcessPipeline, SetLemmas, SequenceTheorems

(* The kernels that a process holds, from its pipes and its saved copies.  *)
HeldIn(in, sav, ins, out) ==
    {k \in Kernels : \/ Up(k) \in in /\ k \in sav
                     \/ k \in ins
                     \/ Down(k) \in out}

(* The books of a handler are right.                                       *)
Booked(in, sav, ld, ins, out, dn, main) ==
    /\ IsFiniteSet(HeldIn(in, sav, ins, out))
    /\ ld = SumOver(Weight, HeldIn(in, sav, ins, out))
    /\ sav = HeldIn(in, sav, ins, out) \cup (sav \cap main \cap dn)
    /\ \A k \in Kernels : Up(k) \in in => k \in sav

(* What comes to the pipeline: kernels, and the results of requests.       *)
Letter == {m \in Message : m.phase = "upstream" \/ m.kernel \in Requests}

(* The two phases of a kernel are two messages.                            *)
LEMMA Phases ==
    /\ \A k : Up(k).kernel = k /\ Down(k).kernel = k
    /\ \A k : Up(k).phase = "upstream" /\ Down(k).phase = "downstream"
    /\ \A j, k : Up(j) # Down(k)
    /\ \A j, k : (Up(j) = Up(k) => j = k) /\ (Down(j) = Down(k) => j = k)
    /\ \A k \in Kernels : Up(k) \in Message /\ Down(k) \in Message
    /\ \A m \in Message : m.kernel \in Kernels /\ (m = Up(m.kernel) \/ m = Down(m.kernel))
    /\ \A m \in Letter : m \in Message
<1>1. \A k : Up(k).kernel = k /\ Down(k).kernel = k
  BY DEF Up, Down
<1>2. \A k : Up(k).phase = "upstream" /\ Down(k).phase = "downstream"
  BY DEF Up, Down
<1>3. \A j, k : Up(j) # Down(k)
  BY <1>2
<1>4. \A j, k : (Up(j) = Up(k) => j = k) /\ (Down(j) = Down(k) => j = k)
  BY <1>1
<1>5. \A k \in Kernels : Up(k) \in Message /\ Down(k) \in Message
  BY DEF Up, Down, Message
<1>6. \A m \in Message : m.kernel \in Kernels /\ (m = Up(m.kernel) \/ m = Down(m.kernel))
  BY DEF Up, Down, Message
<1>7. \A m \in Letter : m \in Message
  BY DEF Letter
<1> QED
  BY <1>1, <1>2, <1>3, <1>4, <1>5, <1>6, <1>7

(* A process that holds the same, under the same copies.                   *)
LEMMA BookedSame ==
    ASSUME NEW in, NEW sav, NEW ld, NEW ins, NEW out, NEW dn, NEW main,
           Booked(in, sav, ld, ins, out, dn, main),
           NEW in2, NEW ins2, NEW out2, NEW dn2,
           HeldIn(in2, sav, ins2, out2) = HeldIn(in, sav, ins, out), dn \subseteq dn2,
           \A k \in Kernels : Up(k) \in in2 => Up(k) \in in
    PROVE  Booked(in2, sav, ld, ins2, out2, dn2, main)
<1> DEFINE H == HeldIn(in, sav, ins, out)
<1>1. IsFiniteSet(H) /\ ld = SumOver(Weight, H) /\ sav = H \cup (sav \cap main \cap dn)
      /\ \A k \in Kernels : Up(k) \in in => k \in sav
  BY DEF Booked
<1> HIDE DEF H
<1>2. sav = H \cup (sav \cap main \cap dn2)
  BY <1>1
<1> QED
  BY <1>1, <1>2 DEF Booked, H

(* A new process holds nothing.                                            *)
LEMMA BookedEmpty ==
    ASSUME NEW dn, NEW main
    PROVE  Booked({}, {}, 0, {}, {}, dn, main)
<1>1. HeldIn({}, {}, {}, {}) = {}
  BY DEF HeldIn
<1> QED
  BY <1>1, FS_EmptySet, SumEmpty DEF Booked

(* A kernel is written to the process, or a result.                        *)
LEMMA BookedWritten ==
    ASSUME NEW in, NEW sav, NEW ld, NEW ins, NEW out, NEW dn, NEW main,
           Booked(in, sav, ld, ins, out, dn, main),
           NEW k \in Kernels, k \notin HeldIn(in, sav, ins, out), Up(k) \notin in
    PROVE  Booked(in \cup {Up(k)}, sav \cup {k}, ld + Weight[k], ins, out, dn, main)
<1> DEFINE H == HeldIn(in, sav, ins, out)
           G == HeldIn(in \cup {Up(k)}, sav \cup {k}, ins, out)
<1>1. G = H \cup {k}
  BY Phases DEF HeldIn
<1>2. IsFiniteSet(H) /\ ld = SumOver(Weight, H) /\ sav = H \cup (sav \cap main \cap dn)
      /\ \A j \in Kernels : Up(j) \in in => j \in sav
  BY DEF Booked
<1>3. H \subseteq Kernels /\ k \notin H
  BY DEF HeldIn
<1> HIDE DEF H, G
<1>4. IsFiniteSet(G)
  BY <1>1, <1>2, FS_AddElement
<1>5. (\A j \in H : Weight[j] \in Nat) /\ Weight[k] \in Nat
  BY <1>3, ProcessAssumption
<1>6. SumOver(Weight, G) = ld + Weight[k]
  BY <1>1, <1>2, <1>3, <1>5, SumAdd
<1>7. sav \cup {k} = G \cup ((sav \cup {k}) \cap main \cap dn)
  BY <1>1, <1>2
<1>8. \A j \in Kernels : Up(j) \in in \cup {Up(k)} => j \in sav \cup {k}
  BY <1>2, Phases
<1> QED
  BY <1>4, <1>6, <1>7, <1>8 DEF Booked, G

(* A kernel or a result comes out of the process, is no longer one that it *)
(* holds and may be forgotten.                                             *)
Returned(k, in, sav, ins, out, dn, in2, sav2, out2, dn2, main) ==
    /\ k \in HeldIn(in, sav, ins, out)
    /\ HeldIn(in2, sav2, ins, out2) = HeldIn(in, sav, ins, out) \ {k}
    /\ sav2 = sav \ {k} \/ (sav2 = sav /\ k \in main /\ k \in dn2)
    /\ dn \subseteq dn2
    /\ \A j \in Kernels : Up(j) \in in2 => j # k /\ Up(j) \in in

(* ... and its weight is subtracted.                                       *)
LEMMA BookedReturned ==
    ASSUME NEW in, NEW sav, NEW ld, NEW ins, NEW out, NEW dn, NEW main,
           Booked(in, sav, ld, ins, out, dn, main),
           NEW k \in Kernels, NEW in2, NEW sav2, NEW out2, NEW dn2,
           Returned(k, in, sav, ins, out, dn, in2, sav2, out2, dn2, main)
    PROVE  Booked(in2, sav2, IF ld > Weight[k] THEN ld - Weight[k] ELSE 0, ins, out2, dn2, main)
<1> USE DEF Returned
<1> DEFINE H == HeldIn(in, sav, ins, out)
           G == HeldIn(in2, sav2, ins, out2)
<1>1. G = H \ {k} /\ k \in H /\ H \subseteq Kernels
  BY DEF HeldIn
<1>2. IsFiniteSet(H) /\ ld = SumOver(Weight, H) /\ sav = H \cup (sav \cap main \cap dn)
      /\ \A j \in Kernels : Up(j) \in in => j \in sav
  BY DEF Booked
<1> HIDE DEF H, G
<1>3. IsFiniteSet(G)
  BY <1>1, <1>2, FS_RemoveElement
<1>4. \A j \in H : Weight[j] \in Nat
  BY <1>1, ProcessAssumption
<1>5. SumOver(Weight, H) = SumOver(Weight, G) + Weight[k]
  BY <1>1, <1>2, <1>4, SumRemove
<1>6. SumOver(Weight, G) \in Nat
  <2>1. \A j \in G : Weight[j] \in Nat
    BY <1>1, <1>4
  <2> QED
    BY <1>3, <2>1, SumType
<1>7. (IF ld > Weight[k] THEN ld - Weight[k] ELSE 0) = SumOver(Weight, G)
  BY <1>1, <1>2, <1>4, <1>5, <1>6
<1>8. sav2 = G \cup (sav2 \cap main \cap dn2)
  BY <1>1, <1>2
<1>9. \A j \in Kernels : Up(j) \in in2 => j \in sav2
  BY <1>2
<1> QED
  BY <1>3, <1>7, <1>8, <1>9 DEF Booked, G

(***************************************************************************)
(* Where the kernels are.  The messages that a turn has yet to handle are  *)
(* those of p.turn after the first p.from.                                 *)
(***************************************************************************)
In(p, kind, i, m) ==
    \/ kind = "elsewhere" /\ i = 0 /\ m \in p.elsewhere
    \/ kind = "turn" /\ i \in 1..Len(p.turn) /\ i > p.from /\ m = p.turn[i]
    \/ kind = "waiting" /\ i \in 1..Len(p.waiting) /\ m = p.waiting[i]
    \/ kind = "inbox" /\ i \in Processes /\ m \in p.inbox[i]
    \/ kind = "inside" /\ i \in Processes /\ \E k \in p.inside[i] : m = Up(k)
    \/ kind = "outbox" /\ i \in Processes /\ m \in p.outbox[i]
    \/ kind = "unborn" /\ i = 0 /\ \E k \in p.unborn : m = Up(k)

(* A kernel is in one place.                                               *)
UniquePlace(p) ==
    \A kind, i, m, kind2, i2, m2 :
        In(p, kind, i, m) /\ In(p, kind2, i2, m2) /\ m.kernel = m2.kernel
            => kind = kind2 /\ i = i2 /\ m = m2

(* A kernel leaves a place for another.                                    *)
Moves(p, q, kind, i, m, kind2, i2, m2) ==
    /\ In(p, kind, i, m) /\ ~In(q, kind, i, m)
    /\ m2.kernel = m.kernel
    /\ \A o, j, n : In(q, o, j, n) => \/ In(p, o, j, n)
                                      \/ o = kind2 /\ j = i2 /\ n = m2

(* A kernel that moves is still in one place.                              *)
LEMMA Moved ==
    ASSUME NEW p, NEW q, UniquePlace(p), NEW kind, NEW i, NEW m, NEW kind2, NEW i2, NEW m2,
           Moves(p, q, kind, i, m, kind2, i2, m2)
    PROVE  UniquePlace(q)
<1> SUFFICES ASSUME NEW o, NEW j, NEW n, NEW o2, NEW j2, NEW n2,
                    In(q, o, j, n), In(q, o2, j2, n2), n.kernel = n2.kernel
             PROVE  o = o2 /\ j = j2 /\ n = n2
  BY DEF UniquePlace
<1> USE DEF Moves
<1> DEFINE T(a, b, c) == a = kind2 /\ b = i2 /\ c = m2
<1>1. In(p, o, j, n) \/ T(o, j, n)
  OBVIOUS
<1>2. In(p, o2, j2, n2) \/ T(o2, j2, n2)
  OBVIOUS
<1>3. ASSUME In(p, o, j, n), In(p, o2, j2, n2) PROVE o = o2 /\ j = j2 /\ n = n2
  BY <1>3 DEF UniquePlace
<1>4. ASSUME In(p, o, j, n), T(o2, j2, n2) PROVE FALSE
  <2>1. n.kernel = m.kernel
    BY <1>4
  <2>2. o = kind /\ j = i /\ n = m
    BY <1>4, <2>1 DEF UniquePlace
  <2> QED
    BY <2>2
<1>5. ASSUME T(o, j, n), In(p, o2, j2, n2) PROVE FALSE
  <2>1. n2.kernel = m.kernel
    BY <1>5
  <2>2. o2 = kind /\ j2 = i /\ n2 = m
    BY <1>5, <2>1 DEF UniquePlace
  <2> QED
    BY <2>2
<1>6. ASSUME T(o, j, n), T(o2, j2, n2) PROVE o = o2 /\ j = j2 /\ n = n2
  BY <1>6
<1> QED
  BY <1>1, <1>2, <1>3, <1>4, <1>5, <1>6

(* Places are given up.                                                    *)
LEMMA Fewer ==
    ASSUME NEW p, NEW q, UniquePlace(p),
           \A o, j, n : In(q, o, j, n) => In(p, o, j, n)
    PROVE  UniquePlace(q)
BY DEF UniquePlace

(* What is outside the processes is not held by any.                       *)
LEMMA NotHeld ==
    ASSUME NEW p, UniquePlace(p), NEW kind, NEW i, NEW m \in Message, In(p, kind, i, m),
           kind \notin {"inbox", "inside", "outbox"}, NEW c \in Processes, NEW sav
    PROVE  /\ m.kernel \notin HeldIn(p.inbox[c], sav, p.inside[c], p.outbox[c])
           /\ Up(m.kernel) \notin p.inbox[c]
<1> DEFINE k == m.kernel
<1>1. k \in Kernels
  BY Phases
<1>2. \A o, j, n : In(p, o, j, n) /\ n.kernel = k => o = kind
  BY DEF UniquePlace
<1>3. Up(k) \notin p.inbox[c]
  <2> SUFFICES ASSUME Up(k) \in p.inbox[c] PROVE FALSE
    OBVIOUS
  <2>1. In(p, "inbox", c, Up(k))
    BY DEF In
  <2> QED
    BY <1>2, <2>1, Phases
<1>4. k \notin p.inside[c]
  <2> SUFFICES ASSUME k \in p.inside[c] PROVE FALSE
    OBVIOUS
  <2>1. In(p, "inside", c, Up(k))
    BY DEF In
  <2> QED
    BY <1>2, <2>1, Phases
<1>5. Down(k) \notin p.outbox[c]
  <2> SUFFICES ASSUME Down(k) \in p.outbox[c] PROVE FALSE
    OBVIOUS
  <2>1. In(p, "outbox", c, Down(k))
    BY DEF In
  <2> QED
    BY <1>2, <2>1, Phases
<1> QED
  BY <1>3, <1>4, <1>5 DEF HeldIn

(* A kernel that a process returns is not in the process any more.         *)
LEMMA LeftProcess ==
    ASSUME NEW p, UniquePlace(p), NEW c \in Processes, NEW k \in Kernels,
           Down(k) \in p.outbox[c]
    PROVE  Up(k) \notin p.inbox[c] /\ Down(k) \notin p.inbox[c] /\ k \notin p.inside[c]
<1>1. In(p, "outbox", c, Down(k))
  BY DEF In
<1>2. \A o, j, n : In(p, o, j, n) /\ n.kernel = k => o = "outbox"
  BY <1>1, Phases DEF UniquePlace
<1>3. Up(k) \notin p.inbox[c]
  <2> SUFFICES ASSUME Up(k) \in p.inbox[c] PROVE FALSE
    OBVIOUS
  <2>1. In(p, "inbox", c, Up(k))
    BY DEF In
  <2> QED
    BY <1>2, <2>1, Phases
<1>4. k \notin p.inside[c]
  <2> SUFFICES ASSUME k \in p.inside[c] PROVE FALSE
    OBVIOUS
  <2>1. In(p, "inside", c, Up(k))
    BY DEF In
  <2> QED
    BY <1>2, <2>1, Phases
<1>5. Down(k) \notin p.inbox[c]
  <2> SUFFICES ASSUME Down(k) \in p.inbox[c] PROVE FALSE
    OBVIOUS
  <2>1. In(p, "inbox", c, Down(k))
    BY DEF In
  <2> QED
    BY <1>2, <2>1, Phases
<1> QED
  BY <1>3, <1>4, <1>5

(***************************************************************************)
(* The variables that a turn changes, as a record.                         *)
(***************************************************************************)
States == {"none", "running", "killed", "exited", "reaped"}
Machine == [job : [Apps -> Processes \cup {NoProcess}], started : 0..MaxProcesses,
            saved : [Processes -> SUBSET Kernels], load : [Processes -> Nat],
            open : [Processes -> BOOLEAN], process : [Processes -> States],
            inbox : [Processes -> SUBSET Letter], waiting : Seq(Letter),
            threads : Nat, refused : BOOLEAN]

(* A process that was not started has nothing.                             *)
Fresh(t, inside1, outbox1) ==
    \A c \in Processes : c > t.started =>
        /\ t.process[c] = "none"
        /\ t.inbox[c] = {} /\ t.saved[c] = {} /\ t.load[c] = 0
        /\ inside1[c] = {} /\ outbox1[c] = {}

(* A job is a process that was started and not reaped, of one application. *)
Owned(t) ==
    \A a \in Apps : t.job[a] # NoProcess =>
        /\ t.process[t.job[a]] \in {"running", "killed", "exited"}
        /\ \A b \in Apps : t.job[b] = t.job[a] => a = b

(* The books of the handlers of the jobs are right.                        *)
Balanced(t, inside1, outbox1, done1, main) ==
    \A a \in Apps : t.job[a] # NoProcess /\ t.process[t.job[a]] \in {"running", "killed"} =>
        LET c == t.job[a]
        IN  Booked(t.inbox[c], t.saved[c], t.load[c], inside1[c], outbox1[c], done1, main)

(* The places, with the variables that a turn does not change in e.        *)
Places(t, e, j) ==
    [elsewhere |-> e.elsewhere, turn |-> e.turn, from |-> j,
     waiting |-> t.waiting, inbox |-> t.inbox, inside |-> e.inside,
     outbox |-> e.outbox, unborn |-> e.unborn]

Good(t, e, j) ==
    /\ t \in Machine
    /\ Fresh(t, e.inside, e.outbox)
    /\ Owned(t)
    /\ Balanced(t, e.inside, e.outbox, e.done, e.main)
    /\ UniquePlace(Places(t, e, j))

(* What a turn works on: the message after the first j is a kernel.        *)
Environment ==
    [elsewhere : SUBSET Letter, turn : Seq(Letter), inside : [Processes -> SUBSET Kernels],
     outbox : [Processes -> SUBSET Message], unborn : SUBSET Requests,
     done : SUBSET Tasks, main : SUBSET Tasks]

(* Processes are numbered.                                                 *)
LEMMA ProcessNumbers ==
    /\ MaxProcesses \in Nat
    /\ \A c \in Processes : c \in Nat /\ c # NoProcess /\ c <= MaxProcesses
    /\ NoProcess \notin Processes
    /\ IsFiniteSet(Processes) /\ Cardinality(Processes) = MaxProcesses
<1>1. MaxProcesses \in Nat /\ NoProcess \notin Processes
  BY ProcessAssumption
<1>2. \A c \in Processes : c \in Nat /\ c # NoProcess /\ c <= MaxProcesses
  BY <1>1 DEF Processes
<1>3. IsFiniteSet(Processes) /\ Cardinality(Processes) = MaxProcesses
  <2>1. 1 \in Int /\ MaxProcesses \in Int
    BY <1>1
  <2>2. IsFiniteSet(1..MaxProcesses)
        /\ Cardinality(1..MaxProcesses) = IF 1 > MaxProcesses THEN 0 ELSE MaxProcesses - 1 + 1
    BY <2>1, FS_Interval
  <2> QED
    BY <1>1, <2>2 DEF Processes
<1> QED
  BY <1>1, <1>2, <1>3

(* The message that a turn handles next is written to a process, put back, *)
(* or dropped.                                                             *)
LEMMA NextMoves ==
    ASSUME NEW t \in Machine, NEW e \in Environment, NEW j \in Nat, j < Len(e.turn),
           UniquePlace(Places(t, e, j))
    PROVE  /\ e.turn[j + 1] \in Letter
           /\ In(Places(t, e, j), "turn", j + 1, e.turn[j + 1])
           /\ \A u : ~In(Places(u, e, j + 1), "turn", j + 1, e.turn[j + 1])
<1>1. Len(e.turn) \in Nat /\ j + 1 \in 1..Len(e.turn) /\ j + 1 > j /\ e.turn \in Seq(Letter)
  BY DEF Environment
<1>2. e.turn[j + 1] \in Letter
  BY <1>1
<1>3. In(Places(t, e, j), "turn", j + 1, e.turn[j + 1])
  BY <1>1 DEF In, Places
<1>4. \A u : ~In(Places(u, e, j + 1), "turn", j + 1, e.turn[j + 1])
  BY <1>1 DEF In, Places
<1> QED
  BY <1>2, <1>3, <1>4

(* The load of a machine is a number.                                      *)
LEMMA TotalIsSum ==
    ASSUME NEW t \in Machine
    PROVE  /\ TotalLoad(t) = SumOver(t.load, Jobs(t)) /\ TotalLoad(t) \in Nat
           /\ IsFiniteSet(Jobs(t)) /\ Jobs(t) \subseteq Processes
           /\ \A c \in Jobs(t) : t.load[c] \in Nat
<1>1. TotalLoad(t) = SumOver(t.load, Jobs(t))
  BY DEF TotalLoad, SumOver
<1>2. Jobs(t) \subseteq Processes
  BY DEF Jobs, Machine
<1>3. IsFiniteSet(Jobs(t))
  BY <1>2, ProcessNumbers, FS_Subset
<1>4. \A c \in Jobs(t) : t.load[c] \in Nat
  BY <1>2 DEF Machine
<1>5. TotalLoad(t) \in Nat
  BY <1>1, <1>3, <1>4, SumType
<1> QED
  BY <1>1, <1>2, <1>3, <1>4, <1>5

-----------------------------------------------------------------------------
(***************************************************************************)
(* The steps of a turn.                                                    *)
(***************************************************************************)

(* One field of a machine changes.                                         *)
LEMMA FieldChanges ==
    ASSUME NEW t \in Machine
    PROVE  /\ \A v \in [Apps -> Processes \cup {NoProcess}] : [t EXCEPT !.job = v] \in Machine
           /\ \A v \in 0..MaxProcesses : [t EXCEPT !.started = v] \in Machine
           /\ \A v \in [Processes -> SUBSET Kernels] : [t EXCEPT !.saved = v] \in Machine
           /\ \A v \in [Processes -> Nat] : [t EXCEPT !.load = v] \in Machine
           /\ \A v \in [Processes -> BOOLEAN] : [t EXCEPT !.open = v] \in Machine
           /\ \A v \in [Processes -> States] : [t EXCEPT !.process = v] \in Machine
           /\ \A v \in [Processes -> SUBSET Letter] : [t EXCEPT !.inbox = v] \in Machine
           /\ \A v \in Seq(Letter) : [t EXCEPT !.waiting = v] \in Machine
           /\ \A v \in Nat : [t EXCEPT !.threads = v] \in Machine
           /\ \A v \in BOOLEAN : [t EXCEPT !.refused = v] \in Machine
<1>1. \A v \in [Apps -> Processes \cup {NoProcess}] : [t EXCEPT !.job = v] \in Machine
  BY DEF Machine
<1>2. \A v \in 0..MaxProcesses : [t EXCEPT !.started = v] \in Machine
  BY DEF Machine
<1>3. \A v \in [Processes -> SUBSET Kernels] : [t EXCEPT !.saved = v] \in Machine
  BY DEF Machine
<1>4. \A v \in [Processes -> Nat] : [t EXCEPT !.load = v] \in Machine
  BY DEF Machine
<1>5. \A v \in [Processes -> BOOLEAN] : [t EXCEPT !.open = v] \in Machine
  BY DEF Machine
<1>6. \A v \in [Processes -> States] : [t EXCEPT !.process = v] \in Machine
  BY DEF Machine
<1>7. \A v \in [Processes -> SUBSET Letter] : [t EXCEPT !.inbox = v] \in Machine
  BY DEF Machine
<1>8. \A v \in Seq(Letter) : [t EXCEPT !.waiting = v] \in Machine
  BY DEF Machine
<1>9. \A v \in Nat : [t EXCEPT !.threads = v] \in Machine
  BY DEF Machine
<1>10. \A v \in BOOLEAN : [t EXCEPT !.refused = v] \in Machine
  BY DEF Machine
<1> QED
  BY <1>1, <1>2, <1>3, <1>4, <1>5, <1>6, <1>7, <1>8, <1>9, <1>10

(* What a message does to the variables of the process it is written to.   *)
LEMMA WrittenFields ==
    ASSUME NEW t \in Machine, NEW c \in Processes, NEW m \in Letter
    PROVE  LET w == Written(t, c, m)
           IN  /\ w \in Machine
               /\ w.job = t.job /\ w.started = t.started /\ w.open = t.open
               /\ w.process = t.process /\ w.waiting = t.waiting
               /\ w.threads = t.threads /\ w.refused = t.refused
               /\ \A d \in Processes : d # c =>
                     /\ w.inbox[d] = t.inbox[d] /\ w.load[d] = t.load[d]
                     /\ w.saved[d] = t.saved[d]
               /\ w.inbox[c] = t.inbox[c] \cup {m}
               /\ m.phase = "upstream" => /\ w.load[c] = t.load[c] + Weight[m.kernel]
                                          /\ w.saved[c] = t.saved[c] \cup {m.kernel}
               /\ m.phase # "upstream" => /\ w.load[c] = t.load[c]
                                          /\ w.saved[c] = t.saved[c]
<1> DEFINE in == [t.inbox EXCEPT ![c] = @ \cup {m}]
           ld == [t.load EXCEPT ![c] = IF m.phase = "upstream" THEN @ + Weight[m.kernel] ELSE @]
           sv == [t.saved EXCEPT ![c] = IF m.phase = "upstream" THEN @ \cup {m.kernel} ELSE @]
<1>1. /\ t.job \in [Apps -> Processes \cup {NoProcess}] /\ t.started \in 0..MaxProcesses
      /\ t.saved \in [Processes -> SUBSET Kernels] /\ t.load \in [Processes -> Nat]
      /\ t.open \in [Processes -> BOOLEAN] /\ t.process \in [Processes -> States]
      /\ t.inbox \in [Processes -> SUBSET Letter] /\ t.waiting \in Seq(Letter)
      /\ t.threads \in Nat /\ t.refused \in BOOLEAN
  BY DEF Machine
<1>2. m.kernel \in Kernels /\ Weight[m.kernel] \in Nat
  BY Phases, ProcessAssumption
<1>3. in \in [Processes -> SUBSET Letter]
  BY <1>1
<1>4. ld \in [Processes -> Nat]
  BY <1>1, <1>2
<1>5. sv \in [Processes -> SUBSET Kernels]
  BY <1>1, <1>2
<1>7. \A d \in Processes : d # c => in[d] = t.inbox[d] /\ ld[d] = t.load[d] /\ sv[d] = t.saved[d]
  BY <1>1
<1>8. in[c] = t.inbox[c] \cup {m}
  BY <1>1
<1>9. m.phase = "upstream" => ld[c] = t.load[c] + Weight[m.kernel] /\ sv[c] = t.saved[c] \cup {m.kernel}
  BY <1>1
<1>10. m.phase # "upstream" => ld[c] = t.load[c] /\ sv[c] = t.saved[c]
  BY <1>1
<1> DEFINE w == Written(t, c, m)
<1>11. w.job = t.job /\ w.started = t.started /\ w.open = t.open /\ w.process = t.process
       /\ w.waiting = t.waiting /\ w.threads = t.threads /\ w.refused = t.refused
  BY DEF Written, Machine
<1>12. w.inbox = in
  BY DEF Written, Machine
<1>13. w.load = ld
  BY DEF Written, Machine
<1>14. w.saved = sv
  BY DEF Written, Machine
<1> HIDE DEF in, ld, sv
<1>15. w \in Machine
  <2> DEFINE u == [t EXCEPT !.inbox = in]
             v == [u EXCEPT !.load = ld]
  <2>1. u \in Machine
    BY <1>3, FieldChanges
  <2>2. v \in Machine
    <3> HIDE DEF u
    <3> QED
      BY <1>4, <2>1, FieldChanges
  <2>3. [v EXCEPT !.saved = sv] \in Machine
    <3> HIDE DEF v
    <3> QED
      BY <1>5, <2>2, FieldChanges
  <2>4. w = [v EXCEPT !.saved = sv]
    BY DEF Written, in, ld, sv, Machine
  <2> QED
    BY <2>3, <2>4
<1> HIDE DEF w
<1> QED
  BY <1>7, <1>8, <1>9, <1>10, <1>11, <1>12, <1>13, <1>14, <1>15 DEF w

(* A message of the turn is written to the process of a job.               *)
LEMMA WrittenKeeps ==
    ASSUME NEW t, NEW e \in Environment, NEW j \in Nat, j < Len(e.turn), Good(t, e, j),
           NEW a \in Apps, t.job[a] # NoProcess
    PROVE  /\ Good(Written(t, t.job[a], e.turn[j + 1]), e, j + 1)
           /\ TotalLoad(Written(t, t.job[a], e.turn[j + 1]))
                 <= TotalLoad(t) + Weight[e.turn[j + 1].kernel]
<1> DEFINE c == t.job[a]
           m == e.turn[j + 1]
           k == m.kernel
           w == Written(t, c, m)
           p == Places(t, e, j)
           q == Places(w, e, j + 1)
<1>1. t \in Machine /\ Fresh(t, e.inside, e.outbox) /\ Owned(t)
      /\ Balanced(t, e.inside, e.outbox, e.done, e.main) /\ UniquePlace(p)
  BY DEF Good
<1>2. c \in Processes
  BY <1>1 DEF Machine
<1>3. m \in Letter /\ In(p, "turn", j + 1, m) /\ ~In(q, "turn", j + 1, m)
  BY <1>1, NextMoves
<1>4. k \in Kernels /\ (m = Up(k) \/ m = Down(k)) /\ Weight[k] \in Nat
  BY <1>3, Phases, ProcessAssumption
<1> HIDE DEF c, m, w
<1>5. /\ w \in Machine
      /\ w.job = t.job /\ w.started = t.started /\ w.process = t.process /\ w.waiting = t.waiting
      /\ \A d \in Processes : d # c =>
            w.inbox[d] = t.inbox[d] /\ w.load[d] = t.load[d] /\ w.saved[d] = t.saved[d]
      /\ w.inbox[c] = t.inbox[c] \cup {m}
      /\ m.phase = "upstream" => w.load[c] = t.load[c] + Weight[k] /\ w.saved[c] = t.saved[c] \cup {k}
      /\ m.phase # "upstream" => w.load[c] = t.load[c] /\ w.saved[c] = t.saved[c]
  BY <1>1, <1>2, <1>3, WrittenFields DEF w
<1>6. Fresh(w, e.inside, e.outbox)
  <2>1. t.process[c] # "none"
    BY <1>1, <1>2 DEF Owned, c
  <2>2. ~(c > t.started)
    BY <1>1, <1>2, <2>1 DEF Fresh
  <2> QED
    BY <1>1, <1>5, <2>2 DEF Fresh
<1>7. Owned(w)
  BY <1>1, <1>5 DEF Owned
<1>8. k \notin HeldIn(t.inbox[c], t.saved[c], e.inside[c], e.outbox[c]) /\ Up(k) \notin t.inbox[c]
  <2>1. p.inbox = t.inbox /\ p.inside = e.inside /\ p.outbox = e.outbox
    BY DEF Places
  <2> HIDE DEF p, q
  <2>2. m.kernel \notin HeldIn(p.inbox[c], t.saved[c], p.inside[c], p.outbox[c])
        /\ Up(m.kernel) \notin p.inbox[c]
    BY <1>1, <1>2, <1>3, Phases, NotHeld
  <2> QED
    BY <2>1, <2>2
<1>9. Balanced(w, e.inside, e.outbox, e.done, e.main)
  <2> SUFFICES ASSUME NEW b \in Apps, w.job[b] # NoProcess,
                      w.process[w.job[b]] \in {"running", "killed"}
               PROVE  Booked(w.inbox[w.job[b]], w.saved[w.job[b]], w.load[w.job[b]],
                             e.inside[w.job[b]], e.outbox[w.job[b]], e.done, e.main)
    BY DEF Balanced
  <2> DEFINE d == t.job[b]
  <2>1. w.job[b] = d /\ d \in Processes
    BY <1>1, <1>5 DEF Machine
  <2> HIDE DEF d
  <2>2. Booked(t.inbox[d], t.saved[d], t.load[d], e.inside[d], e.outbox[d], e.done, e.main)
    BY <1>1, <1>5, <2>1 DEF Balanced, d
  <2>3. CASE d # c
    BY <1>5, <2>1, <2>2, <2>3
  <2>4. CASE d = c /\ m = Up(k)
    <3>1. Booked(t.inbox[c] \cup {Up(k)}, t.saved[c] \cup {k}, t.load[c] + Weight[k],
                 e.inside[c], e.outbox[c], e.done, e.main)
      BY <1>4, <1>8, <2>2, <2>4, BookedWritten
    <3>2. w.inbox[c] = t.inbox[c] \cup {Up(k)} /\ w.saved[c] = t.saved[c] \cup {k}
          /\ w.load[c] = t.load[c] + Weight[k]
      <4>1. m.phase = "upstream" /\ m = Up(k)
        BY <2>4, Phases
      <4> QED
        BY <1>5, <4>1
    <3>3. w.job[b] = c
      BY <2>1, <2>4
    <3> QED
      BY <3>1, <3>2, <3>3
  <2>5. CASE d = c /\ m = Down(k)
    <3>1. HeldIn(t.inbox[c] \cup {Down(k)}, t.saved[c], e.inside[c], e.outbox[c])
          = HeldIn(t.inbox[c], t.saved[c], e.inside[c], e.outbox[c])
      BY Phases DEF HeldIn
    <3>2. \A i \in Kernels : Up(i) \in t.inbox[c] \cup {Down(k)} => Up(i) \in t.inbox[c]
      BY Phases
    <3>3. Booked(t.inbox[c] \cup {Down(k)}, t.saved[c], t.load[c],
                 e.inside[c], e.outbox[c], e.done, e.main)
      BY <2>2, <2>5, <3>1, <3>2, BookedSame
    <3>4. w.inbox[c] = t.inbox[c] \cup {Down(k)} /\ w.saved[c] = t.saved[c]
          /\ w.load[c] = t.load[c]
      <4>1. m.phase # "upstream" /\ m = Down(k)
        BY <2>5, Phases
      <4> QED
        BY <1>5, <4>1
    <3>5. w.job[b] = c
      BY <2>1, <2>5
    <3> QED
      BY <3>3, <3>4, <3>5
  <2> QED
    BY <1>4, <2>3, <2>4, <2>5
<1>10. UniquePlace(q)
  <2>1. ASSUME NEW o, NEW i, NEW n, In(q, o, i, n)
        PROVE  In(p, o, i, n) \/ (o = "inbox" /\ i = c /\ n = m)
    <3>1. CASE o = "turn"
      BY <2>1, <3>1, <1>1 DEF In, Places, Environment
    <3>2. CASE o = "inbox"
      <4>1. i \in Processes /\ n \in w.inbox[i]
        BY <2>1, <3>2 DEF In, Places
      <4>2. n \in t.inbox[i] \/ (i = c /\ n = m)
        BY <1>5, <4>1
      <4> QED
        BY <3>2, <4>1, <4>2 DEF In, Places
    <3>3. CASE o # "turn" /\ o # "inbox"
      BY <2>1, <3>3, <1>5 DEF In, Places
    <3> QED
      BY <3>1, <3>2, <3>3
  <2> HIDE DEF p, q
  <2>2. Moves(p, q, "turn", j + 1, m, "inbox", c, m)
    BY <1>3, <2>1 DEF Moves
  <2> QED
    BY <1>1, <2>2, Moved
<1>11. TotalLoad(w) <= TotalLoad(t) + Weight[k]
  <2>1. /\ TotalLoad(t) = SumOver(t.load, Jobs(t)) /\ TotalLoad(w) = SumOver(w.load, Jobs(w))
        /\ IsFiniteSet(Jobs(t)) /\ \A d \in Jobs(t) : t.load[d] \in Nat
        /\ TotalLoad(t) \in Nat /\ TotalLoad(w) \in Nat /\ \A d \in Jobs(w) : w.load[d] \in Nat
    BY <1>1, <1>5, TotalIsSum
  <2>2. Jobs(w) = Jobs(t) /\ c \in Jobs(t) /\ Jobs(t) \subseteq Processes
    <3>1. Jobs(w) = Jobs(t)
      BY <1>5 DEF Jobs
    <3>2. c \in Jobs(t)
      BY DEF Jobs, c
    <3> QED
      BY <1>1, <3>1, <3>2, TotalIsSum
  <2>3. \A d \in Jobs(t) : d # c => w.load[d] = t.load[d]
    BY <1>5, <2>2
  <2>4. SumOver(w.load, Jobs(t)) + t.load[c] = SumOver(t.load, Jobs(t)) + w.load[c]
    BY <2>1, <2>2, <2>3, SumChange
  <2>5. w.load[c] <= t.load[c] + Weight[k] /\ t.load[c] \in Nat /\ w.load[c] \in Nat
    BY <1>4, <1>5, <2>1, <2>2
  <2> QED
    BY <1>4, <2>1, <2>2, <2>4, <2>5
<1> QED
  BY <1>5, <1>6, <1>7, <1>9, <1>10, <1>11 DEF Good, c, m, w

(* A process that was started has nothing, and is the job of nobody.       *)
LEMMA StartedKeeps ==
    ASSUME NEW t, NEW e \in Environment, NEW j \in Nat, Good(t, e, j),
           NEW a \in Apps, t.job[a] = NoProcess, t.started # MaxProcesses
    PROVE  /\ Good(Started(t, a), e, j) /\ TotalLoad(Started(t, a)) = TotalLoad(t)
           /\ Started(t, a).job[a] # NoProcess
<1> DEFINE c == t.started + 1
           jb == [t.job EXCEPT ![a] = c]
           op == [t.open EXCEPT ![c] = TRUE]
           pr == [t.process EXCEPT ![c] = "running"]
           w == Started(t, a)
<1>1. t \in Machine /\ Fresh(t, e.inside, e.outbox) /\ Owned(t)
      /\ Balanced(t, e.inside, e.outbox, e.done, e.main) /\ UniquePlace(Places(t, e, j))
  BY DEF Good
<1>2. /\ t.job \in [Apps -> Processes \cup {NoProcess}] /\ t.started \in 0..MaxProcesses
      /\ t.open \in [Processes -> BOOLEAN] /\ t.process \in [Processes -> States]
  BY <1>1 DEF Machine
<1>3. c \in Processes /\ c > t.started /\ c \in 0..MaxProcesses /\ c # NoProcess
  BY <1>2, ProcessNumbers DEF Processes
<1>4. w.job = jb /\ w.started = c /\ w.process = pr
  BY <1>1 DEF Started, Machine
<1>5. w.saved = t.saved /\ w.load = t.load /\ w.inbox = t.inbox /\ w.waiting = t.waiting
  BY <1>1 DEF Started, Machine
<1>6. jb \in [Apps -> Processes \cup {NoProcess}] /\ pr \in [Processes -> States]
      /\ op \in [Processes -> BOOLEAN]
  BY <1>2, <1>3 DEF States
<1>7. w \in Machine
  <2> DEFINE u == [t EXCEPT !.job = jb]
             v == [u EXCEPT !.started = c]
             x == [v EXCEPT !.open = op]
  <2>1. u \in Machine
    BY <1>1, <1>6, FieldChanges
  <2>2. v \in Machine
    <3> HIDE DEF u, c, jb
    <3> QED
      BY <1>3, <2>1, FieldChanges
  <2>3. x \in Machine
    <3> HIDE DEF v, op, c
    <3> QED
      BY <1>6, <2>2, FieldChanges
  <2>4. [x EXCEPT !.process = pr] \in Machine
    <3> HIDE DEF x, pr, c
    <3> QED
      BY <1>6, <2>3, FieldChanges
  <2>5. w = [x EXCEPT !.process = pr]
    BY <1>1 DEF Started, Machine
  <2> QED
    BY <2>4, <2>5
<1>8. /\ jb[a] = c /\ \A b \in Apps : b # a => jb[b] = t.job[b]
      /\ pr[c] = "running" /\ \A d \in Processes : d # c => pr[d] = t.process[d]
  BY <1>2, <1>3
<1>9. /\ t.process[c] = "none" /\ t.inbox[c] = {} /\ t.saved[c] = {} /\ t.load[c] = 0
      /\ e.inside[c] = {} /\ e.outbox[c] = {}
  BY <1>1, <1>3 DEF Fresh
<1>10. \A b \in Apps : t.job[b] # c
  BY <1>1, <1>3, <1>9 DEF Owned
<1> HIDE DEF w, jb, pr, op
<1>11. Fresh(w, e.inside, e.outbox)
  <2> SUFFICES ASSUME NEW d \in Processes, d > c
               PROVE  /\ w.process[d] = "none" /\ w.inbox[d] = {} /\ w.saved[d] = {}
                      /\ w.load[d] = 0 /\ e.inside[d] = {} /\ e.outbox[d] = {}
    BY <1>4 DEF Fresh
  <2>1. d > t.started /\ d # c
    BY <1>2, ProcessNumbers
  <2> QED
    BY <1>1, <1>4, <1>5, <1>8, <2>1 DEF Fresh
<1>12. Owned(w)
  <2> SUFFICES ASSUME NEW b \in Apps, jb[b] # NoProcess
               PROVE  /\ pr[jb[b]] \in {"running", "killed", "exited"}
                      /\ \A x \in Apps : jb[x] = jb[b] => b = x
    BY <1>4 DEF Owned
  <2>1. CASE b = a
    BY <1>8, <1>10, <2>1
  <2>2. CASE b # a
    <3>1. jb[b] = t.job[b] /\ t.job[b] # c /\ t.job[b] \in Processes
      BY <1>2, <1>8, <1>10, <2>2
    <3>2. pr[jb[b]] = t.process[t.job[b]]
      BY <1>8, <3>1
    <3> HIDE DEF c
    <3> QED
      BY <1>1, <1>8, <2>2, <3>1, <3>2 DEF Owned
  <2> QED
    BY <2>1, <2>2
<1>13. Balanced(w, e.inside, e.outbox, e.done, e.main)
  <2> SUFFICES ASSUME NEW b \in Apps, jb[b] # NoProcess, pr[jb[b]] \in {"running", "killed"}
               PROVE  Booked(t.inbox[jb[b]], t.saved[jb[b]], t.load[jb[b]],
                             e.inside[jb[b]], e.outbox[jb[b]], e.done, e.main)
    BY <1>4, <1>5 DEF Balanced
  <2> HIDE DEF c
  <2>1. CASE b = a
    <3>1. Booked({}, {}, 0, {}, {}, e.done, e.main)
      BY BookedEmpty
    <3> QED
      BY <1>8, <1>9, <2>1, <3>1
  <2>2. CASE b # a
    <3>1. jb[b] = t.job[b] /\ t.job[b] # c /\ t.job[b] \in Processes
      BY <1>2, <1>8, <1>10, <2>2
    <3>2. t.process[t.job[b]] \in {"running", "killed"} /\ t.job[b] # NoProcess
      BY <1>8, <3>1
    <3> QED
      BY <1>1, <3>1, <3>2 DEF Balanced
  <2> QED
    BY <2>1, <2>2
<1>14. UniquePlace(Places(w, e, j))
  <2>1. Places(w, e, j) = Places(t, e, j)
    BY <1>5 DEF Places
  <2> QED
    BY <1>1, <2>1
<1>15. TotalLoad(w) = TotalLoad(t)
  <2> HIDE DEF c
  <2>1. Jobs(w) = Jobs(t) \cup {c} /\ c \notin Jobs(t)
    BY <1>3, <1>4, <1>8, <1>10 DEF Jobs
  <2>2. /\ TotalLoad(t) = SumOver(t.load, Jobs(t)) /\ TotalLoad(w) = SumOver(t.load, Jobs(w))
        /\ IsFiniteSet(Jobs(t)) /\ \A d \in Jobs(t) : t.load[d] \in Nat
        /\ TotalLoad(t) \in Nat
    BY <1>1, <1>5, <1>7, TotalIsSum
  <2>3. t.load[c] = 0
    BY <1>9
  <2>4. SumOver(t.load, Jobs(t) \cup {c}) = SumOver(t.load, Jobs(t)) + t.load[c]
    BY <2>1, <2>2, <2>3, SumAdd
  <2> QED
    BY <2>1, <2>2, <2>3, <2>4
<1> QED
  BY <1>3, <1>4, <1>7, <1>8, <1>11, <1>12, <1>13, <1>14, <1>15 DEF Good, w

(* The rest of the machine may change.                                     *)
LEMMA AgreeKeeps ==
    ASSUME NEW t, NEW e \in Environment, NEW j \in Nat, Good(t, e, j),
           NEW u \in Machine, NEW i \in Nat,
           u.job = t.job, u.started = t.started, u.saved = t.saved, u.load = t.load,
           u.process = t.process, u.inbox = t.inbox, UniquePlace(Places(u, e, i))
    PROVE  Good(u, e, i) /\ TotalLoad(u) = TotalLoad(t)
<1>1. Fresh(u, e.inside, e.outbox)
  BY DEF Good, Fresh
<1>2. Owned(u)
  BY DEF Good, Owned
<1>3. Balanced(u, e.inside, e.outbox, e.done, e.main)
  BY DEF Good, Balanced
<1>4. TotalLoad(u) = TotalLoad(t)
  <2>1. Jobs(u) = Jobs(t)
    BY DEF Jobs
  <2>2. t \in Machine
    BY DEF Good
  <2> QED
    BY <2>1, <2>2, TotalIsSum
<1> QED
  BY <1>1, <1>2, <1>3, <1>4 DEF Good

(* A message of the turn may be dropped ...                                *)
LEMMA NextDropped ==
    ASSUME NEW t, NEW e \in Environment, NEW j \in Nat, Good(t, e, j),
           NEW u \in Machine, u.job = t.job, u.started = t.started, u.saved = t.saved,
           u.load = t.load, u.process = t.process, u.inbox = t.inbox, u.waiting = t.waiting
    PROVE  Good(u, e, j + 1) /\ TotalLoad(u) = TotalLoad(t)
<1>1. UniquePlace(Places(t, e, j)) /\ t \in Machine
  BY DEF Good
<1>2. ASSUME NEW o, NEW i, NEW n, In(Places(u, e, j + 1), o, i, n)
      PROVE  In(Places(t, e, j), o, i, n)
  <2>1. CASE o = "turn"
    <3>1. i \in 1..Len(e.turn) /\ i > j + 1 /\ n = e.turn[i]
      BY <1>2, <2>1 DEF In, Places
    <3>2. Len(e.turn) \in Nat
      BY DEF Environment
    <3>3. i > j
      BY <3>1, <3>2
    <3> QED
      BY <2>1, <3>1, <3>3 DEF In, Places
  <2>2. CASE o # "turn"
    BY <1>2, <2>2 DEF In, Places
  <2> QED
    BY <2>1, <2>2
<1>3. UniquePlace(Places(u, e, j + 1))
  BY <1>1, <1>2, Fewer
<1> QED
  BY <1>3, AgreeKeeps

(* ... or wait for another turn.                                           *)
LEMMA NextWaits ==
    ASSUME NEW t, NEW e \in Environment, NEW j \in Nat, j < Len(e.turn), Good(t, e, j)
    PROVE  LET w == [t EXCEPT !.waiting = Append(@, e.turn[j + 1])]
           IN  Good(w, e, j + 1) /\ TotalLoad(w) = TotalLoad(t)
<1> DEFINE m == e.turn[j + 1]
           l == t.waiting
           w == [t EXCEPT !.waiting = Append(l, m)]
           p == Places(t, e, j)
           q == Places(w, e, j + 1)
<1>1. UniquePlace(p) /\ t \in Machine
  BY DEF Good
<1>2. m \in Letter /\ In(p, "turn", j + 1, m) /\ ~In(q, "turn", j + 1, m)
  BY <1>1, NextMoves
<1>3. l \in Seq(Letter)
  BY <1>1 DEF Machine
<1> HIDE DEF m
<1>4. /\ Append(l, m) \in Seq(Letter) /\ Len(Append(l, m)) = Len(l) + 1 /\ Len(l) \in Nat
      /\ Append(l, m)[Len(l) + 1] = m /\ \A i \in 1..Len(l) : Append(l, m)[i] = l[i]
  BY <1>2, <1>3
<1>5. w \in Machine
  BY <1>1, <1>4, FieldChanges
<1>6. /\ w.job = t.job /\ w.started = t.started /\ w.saved = t.saved /\ w.load = t.load
      /\ w.process = t.process /\ w.inbox = t.inbox /\ w.waiting = Append(l, m)
  BY <1>1 DEF Machine
<1> HIDE DEF w, l
<1>7. ASSUME NEW o, NEW i, NEW n, In(q, o, i, n)
      PROVE  In(p, o, i, n) \/ (o = "waiting" /\ i = Len(l) + 1 /\ n = m)
  <2>1. CASE o = "turn"
    <3>1. i \in 1..Len(e.turn) /\ i > j + 1 /\ n = e.turn[i]
      BY <1>7, <2>1 DEF In, Places
    <3>2. Len(e.turn) \in Nat
      BY DEF Environment
    <3>3. i > j
      BY <3>1, <3>2
    <3> QED
      BY <2>1, <3>1, <3>3 DEF In, Places
  <2>2. CASE o = "waiting"
    <3>1. i \in 1..(Len(l) + 1) /\ n = Append(l, m)[i]
      BY <1>4, <1>6, <1>7, <2>2 DEF In, Places
    <3>2. CASE i = Len(l) + 1
      BY <1>4, <2>2, <3>1, <3>2
    <3>3. CASE i # Len(l) + 1
      <4>1. i \in 1..Len(l) /\ n = l[i]
        BY <1>4, <3>1, <3>3
      <4> QED
        BY <2>2, <4>1 DEF In, Places, l
    <3> QED
      BY <3>2, <3>3
  <2>3. CASE o # "turn" /\ o # "waiting"
    BY <1>6, <1>7, <2>3 DEF In, Places
  <2> QED
    BY <2>1, <2>2, <2>3
<1>8. UniquePlace(q)
  <2> DEFINE end == Len(l) + 1
  <2>1. \A o, i, n : In(q, o, i, n) => \/ In(p, o, i, n)
                                       \/ o = "waiting" /\ i = end /\ n = m
    BY <1>7
  <2> HIDE DEF p, q, end
  <2>2. Moves(p, q, "turn", j + 1, m, "waiting", end, m)
    BY <1>2, <2>1 DEF Moves
  <2> QED
    BY <1>1, <2>2, Moved
<1>9. Good(w, e, j + 1) /\ TotalLoad(w) = TotalLoad(t)
  BY <1>5, <1>6, <1>8, AgreeKeeps
<1> QED
  BY <1>9 DEF w, m, l

-----------------------------------------------------------------------------
(***************************************************************************)
(* A turn is the fold of its steps: table[1..j] is the machine after the   *)
(* first j messages.                                                       *)
(***************************************************************************)
TurnTable(base, seq, table) ==
    table = [s \in SUBSET DOMAIN seq |->
               IF s = {} THEN base ELSE Turn(table[s \ {Max(s)}], seq[Max(s)])]

(* The machines of a turn exist.                                           *)
LEMMA TurnTableExists ==
    ASSUME NEW base, NEW seq \in Seq(Letter)
    PROVE  \E g : TurnTable(base, seq, g)
<1> DEFINE D == DOMAIN seq
           Part(n, g) == g = [s \in Small(D, n) |->
                                IF s = {} THEN base ELSE Turn(g[s \ {Max(s)}], seq[Max(s)])]
           P == {n \in Nat : \E g : Part(n, g)}
<1>1. D = 1..Len(seq) /\ Len(seq) \in Nat
  OBVIOUS
<1>2. IsFiniteSet(D)
  BY <1>1, FS_Interval
<1> HIDE DEF D
<1>3. 0 \in P
  <2> DEFINE g == [s \in Small(D, 0) |-> base]
  <2>1. Part(0, g)
    BY SmallZero
  <2> QED
    BY <2>1
<1>4. ASSUME NEW n \in P PROVE n + 1 \in P
  <2>1. PICK g : Part(n, g)
    OBVIOUS
  <2>2. n \in Nat
    OBVIOUS
  <2> HIDE DEF P
  <2> DEFINE value(s, f) == IF s = {} THEN base ELSE Turn(f[s \ {Max(s)}], seq[Max(s)])
             h == [s \in Small(D, n + 1) |-> value(s, g)]
  <2>3. \A s \in Small(D, n) : g[s] = value(s, g)
    BY <2>1
  <2>4. ASSUME NEW s \in Small(D, n + 1), s # {}
        PROVE  s \ {Max(s)} \in Small(D, n) /\ s \ {Max(s)} \in Small(D, n + 1)
    <3>1. s \in SUBSET (1..Len(seq))
      BY <1>1 DEF Small
    <3>2. Max(s) \in s
      BY <1>1, <2>4, <3>1, MaxProperty
    <3>3. s \ {Max(s)} \in Small(D, n)
      BY <2>2, <3>2, SmallRest
    <3> QED
      BY <2>2, <3>3, SmallMore
  <2>5. ASSUME NEW s \in Small(D, n) PROVE h[s] = g[s]
    <3>1. s \in Small(D, n + 1)
      BY <2>2, SmallMore
    <3> HIDE DEF value
    <3>2. h[s] = value(s, g)
      BY <3>1
    <3> QED
      BY <2>3, <3>2
  <2>6. ASSUME NEW s \in Small(D, n + 1) PROVE value(s, g) = value(s, h)
    <3>1. CASE s = {}
      BY <3>1
    <3>2. CASE s # {}
      <4>1. g[s \ {Max(s)}] = h[s \ {Max(s)}]
        BY <2>4, <2>5, <3>2
      <4> HIDE DEF h
      <4> QED
        BY <3>2, <4>1
    <3> QED
      BY <3>1, <3>2
  <2>7. h = [s \in Small(D, n + 1) |-> value(s, h)]
    <3> HIDE DEF value
    <3> QED
      BY <2>6
  <2>8. Part(n + 1, h)
    BY <2>7
  <2> HIDE DEF Part, h
  <2> QED
    BY <2>2, <2>8 DEF P
<1>5. P = Nat
  <2> HIDE DEF Part
  <2> QED
    BY <1>3, <1>4, InductiveSet
<1>6. Cardinality(D) \in P /\ Small(D, Cardinality(D)) = SUBSET D
  BY <1>2, <1>5, SmallAll
<1>7. PICK g : Part(Cardinality(D), g)
  BY <1>6
<1>8. TurnTable(base, seq, g)
  BY <1>6, <1>7 DEF TurnTable, D
<1> QED
  BY <1>8

AfterTurn(base, seq) == FoldLeft(Turn, base, seq)

Steps(base, seq, h) ==
    /\ h[0] = base /\ h[Len(seq)] = AfterTurn(base, seq)
    /\ \A j \in Nat : j < Len(seq) => h[j + 1] = Turn(h[j], seq[j + 1])

(* The fold, step by step.                                                 *)
LEMMA TurnSteps ==
    ASSUME NEW base, NEW seq \in Seq(Letter)
    PROVE  \E h : Steps(base, seq, h)
<1> DEFINE Iter(g) == g = [s \in SUBSET DOMAIN seq |->
                             IF s = {} THEN base ELSE Turn(g[s \ {Max(s)}], seq[Max(s)])]
           iter == CHOOSE g : Iter(g)
           h == [j \in 0..Len(seq) |-> iter[1..j]]
<1>1. DOMAIN seq = 1..Len(seq) /\ Len(seq) \in Nat
  OBVIOUS
<1>2. \E g : Iter(g)
  <2>1. PICK g : TurnTable(base, seq, g)
    BY TurnTableExists
  <2>2. Iter(g)
    BY <2>1 DEF TurnTable
  <2> HIDE DEF Iter
  <2> QED
    BY <2>2
<1>3. Iter(iter)
  BY <1>2
<1>4. AfterTurn(base, seq) = iter[DOMAIN seq]
  BY DEF AfterTurn, FoldLeft, MapThenFoldSet
<1> HIDE DEF iter
<1>5. \A s \in SUBSET DOMAIN seq :
         iter[s] = IF s = {} THEN base ELSE Turn(iter[s \ {Max(s)}], seq[Max(s)])
  BY <1>3
<1> HIDE DEF Iter
<1>6. h[0] = base
  <2>1. 1..0 = {} /\ 0 \in 0..Len(seq)
    BY <1>1
  <2> QED
    BY <1>5, <2>1
<1>7. h[Len(seq)] = AfterTurn(base, seq)
  <2>1. Len(seq) \in 0..Len(seq)
    BY <1>1
  <2>2. h[Len(seq)] = iter[1..Len(seq)]
    BY <2>1
  <2> QED
    BY <1>1, <1>4, <2>2
<1>8. ASSUME NEW j \in Nat, j < Len(seq) PROVE h[j + 1] = Turn(h[j], seq[j + 1])
  <2> DEFINE s == 1..(j + 1)
  <2>1. s \in SUBSET (1..Len(seq)) /\ s # {} /\ j + 1 \in s
    <3>1. j + 1 <= Len(seq) /\ Len(seq) \in Nat /\ j + 1 \in Nat /\ 1 <= j + 1
      BY <1>1, <1>8
    <3>2. \A i \in s : i \in 1..Len(seq)
      BY <3>1
    <3>3. j + 1 \in s
      BY <3>1
    <3> HIDE DEF s
    <3> QED
      BY <3>2, <3>3
  <2>2. Max(s) \in s /\ Max(s) >= j + 1
    <3> HIDE DEF s
    <3> QED
      BY <1>1, <2>1, MaxProperty
  <2>3. Max(s) = j + 1
    BY <2>2
  <2>4. s \ {j + 1} = 1..j
    OBVIOUS
  <2>5. iter[s] = Turn(iter[1..j], seq[j + 1])
    <3> HIDE DEF s
    <3> QED
      BY <1>1, <1>5, <2>1, <2>3, <2>4
  <2>6. j \in 0..Len(seq) /\ j + 1 \in 0..Len(seq)
    BY <1>1, <1>8
  <2>7. h[j] = iter[1..j] /\ h[j + 1] = iter[1..(j + 1)]
    BY <2>6
  <2> QED
    BY <2>5, <2>7
<1> HIDE DEF h
<1>9. Steps(base, seq, h)
  BY <1>6, <1>7, <1>8 DEF Steps
<1> QED
  BY <1>9

-----------------------------------------------------------------------------
(***************************************************************************)
(* Admission and the turn keep a machine good, and a light machine light.  *)
(***************************************************************************)

(* Every kernel belongs to an application.                                 *)
LEMMA AppsOfKernels ==
    \A k \in Kernels : AppOfKernel(k) \in Apps /\ Weight[k] \in Nat
<1>1. \A k \in Tasks : AppOf[k] \in Apps
  BY ProcessAssumption
<1>2. \A k \in Requests : TaskOf[k] \in Tasks
  BY ProcessAssumption
<1>3. \A k \in Kernels : Weight[k] \in Nat
  BY ProcessAssumption
<1> QED
  BY <1>1, <1>2, <1>3 DEF Kernels, AppOfKernel

(* do_forward for the next message of the turn.                            *)
LEMMA ForwardedKeeps ==
    ASSUME NEW t, NEW e \in Environment, NEW j \in Nat, j < Len(e.turn), Good(t, e, j)
    PROVE  LET m == e.turn[j + 1]
           IN  /\ Good(Forwarded(t, m), e, j + 1)
               /\ TotalLoad(Forwarded(t, m)) <= TotalLoad(t) + Weight[m.kernel]
               /\ Forwarded(t, m).threads = t.threads
<1> DEFINE m == e.turn[j + 1]
           a == AppOfKernel(m.kernel)
           w == Weight[m.kernel]
           n == Started(t, a)
           r == [t EXCEPT !.refused = TRUE]
<1>1. t \in Machine /\ UniquePlace(Places(t, e, j))
  BY DEF Good
<1>2. m \in Letter
  BY <1>1, NextMoves
<1> HIDE DEF m
<1>3. a \in Apps /\ w \in Nat
  BY <1>2, Phases, AppsOfKernels
<1> HIDE DEF a, w
<1>4. TotalLoad(t) \in Nat
  BY <1>1, TotalIsSum
<1>5. CASE t.job[a] # NoProcess
  <2>1. Forwarded(t, m) = Written(t, t.job[a], m)
    BY <1>5 DEF Forwarded, a
  <2>2. Good(Written(t, t.job[a], m), e, j + 1) /\ TotalLoad(Written(t, t.job[a], m)) <= TotalLoad(t) + w
    BY <1>3, <1>5, WrittenKeeps DEF m, w
  <2>3. t.job[a] \in Processes
    BY <1>1, <1>3, <1>5 DEF Machine
  <2>4. Written(t, t.job[a], m).threads = t.threads
    BY <1>1, <1>2, <2>3, WrittenFields
  <2> QED
    BY <2>1, <2>2, <2>4 DEF m, w
<1>6. CASE t.job[a] = NoProcess /\ (a \in setup.refused \/ t.started = MaxProcesses)
  <2>1. Forwarded(t, m) = r
    BY <1>6 DEF Forwarded, a
  <2>2. r \in Machine
    BY <1>1, FieldChanges
  <2>3. /\ r.job = t.job /\ r.started = t.started /\ r.saved = t.saved /\ r.load = t.load
        /\ r.process = t.process /\ r.inbox = t.inbox /\ r.waiting = t.waiting
        /\ r.threads = t.threads
    BY <1>1 DEF Machine
  <2> HIDE DEF r
  <2>4. Good(r, e, j + 1) /\ TotalLoad(r) = TotalLoad(t)
    BY <2>2, <2>3, NextDropped
  <2>5. TotalLoad(r) <= TotalLoad(t) + w
    BY <1>3, <1>4, <2>4
  <2> QED
    BY <2>1, <2>3, <2>4, <2>5 DEF m, w
<1>7. CASE t.job[a] = NoProcess /\ ~(a \in setup.refused \/ t.started = MaxProcesses)
  <2>1. Forwarded(t, m) = Written(n, n.job[a], m)
    BY <1>7 DEF Forwarded, a
  <2>2. Good(n, e, j) /\ TotalLoad(n) = TotalLoad(t) /\ n.job[a] # NoProcess
    BY <1>3, <1>7, StartedKeeps
  <2>3. n.threads = t.threads
    BY <1>1 DEF Started, Machine
  <2> HIDE DEF n
  <2>4. Good(Written(n, n.job[a], m), e, j + 1) /\ TotalLoad(Written(n, n.job[a], m)) <= TotalLoad(n) + w
    BY <1>3, <2>2, WrittenKeeps DEF m, w
  <2>5. n \in Machine
    BY <2>2 DEF Good
  <2>6. n.job[a] \in Processes
    BY <1>3, <2>2, <2>5 DEF Machine
  <2>7. Written(n, n.job[a], m).threads = n.threads
    BY <1>2, <2>5, <2>6, WrittenFields
  <2> QED
    BY <2>1, <2>2, <2>3, <2>4, <2>7 DEF m, w
<1> QED
  BY <1>5, <1>6, <1>7 DEF m

(* In a turn, the load is within the threads it has counted.               *)
Light(t) == setup.interleaving => TotalLoad(t) <= t.threads /\ t.threads < MaxThreads

(* A step of a turn.                                                       *)
LEMMA TurnKeeps ==
    ASSUME NEW t, NEW e \in Environment, NEW j \in Nat, j < Len(e.turn), Good(t, e, j), Light(t)
    PROVE  Good(Turn(t, e.turn[j + 1]), e, j + 1) /\ Light(Turn(t, e.turn[j + 1]))
<1> DEFINE m == e.turn[j + 1]
           w == Weight[m.kernel]
           f == Forwarded(t, m)
           g == [f EXCEPT !.threads = @ + w]
           l == [t EXCEPT !.waiting = Append(@, m)]
<1>1. t \in Machine /\ UniquePlace(Places(t, e, j)) /\ t.threads \in Nat
  BY DEF Good, Machine
<1>2. m \in Letter
  BY <1>1, NextMoves
<1>3. w \in Nat
  BY <1>2, Phases, AppsOfKernels
<1>4. CASE t.refused
  <2>1. Good(t, e, j + 1)
    BY <1>1, NextDropped
  <2>2. Turn(t, m) = t
    BY <1>4 DEF Turn
  <2> QED
    BY <2>1, <2>2
<1>5. CASE ~t.refused /\ Admitted(t, t.threads, m)
  <2>1. Turn(t, m) = g
    BY <1>5 DEF Turn
  <2>2. Good(f, e, j + 1) /\ TotalLoad(f) <= TotalLoad(t) + w /\ f.threads = t.threads
    BY ForwardedKeeps
  <2>3. f \in Machine /\ UniquePlace(Places(f, e, j + 1))
    BY <2>2 DEF Good
  <2>4. TotalLoad(t) \in Nat /\ TotalLoad(f) \in Nat
    BY <1>1, <2>3, TotalIsSum
  <2>5. setup.interleaving => t.threads + w < MaxThreads
    BY <1>5 DEF Admitted
  <2> HIDE DEF f, w, m
  <2>6. f.threads + w \in Nat
    BY <1>1, <1>3, <2>2
  <2>7. g \in Machine
    BY <2>3, <2>6, FieldChanges
  <2>8. /\ g.job = f.job /\ g.started = f.started /\ g.saved = f.saved /\ g.load = f.load
        /\ g.process = f.process /\ g.inbox = f.inbox /\ g.waiting = f.waiting
        /\ g.threads = f.threads + w
    BY <2>3 DEF Machine
  <2> HIDE DEF g
  <2>9. Places(g, e, j + 1) = Places(f, e, j + 1)
    BY <2>8 DEF Places
  <2>10. Good(g, e, j + 1) /\ TotalLoad(g) = TotalLoad(f)
    BY <2>2, <2>3, <2>7, <2>8, <2>9, AgreeKeeps
  <2>11. Light(g)
    <3> SUFFICES ASSUME setup.interleaving
                 PROVE  TotalLoad(g) <= g.threads /\ g.threads < MaxThreads
      BY DEF Light
    <3>1. TotalLoad(t) <= t.threads
      BY DEF Light
    <3> QED
      BY <1>1, <1>3, <2>2, <2>4, <2>5, <2>8, <2>10, <3>1
  <2> QED
    BY <2>1, <2>10, <2>11 DEF m
<1>6. CASE ~t.refused /\ ~Admitted(t, t.threads, m)
  <2>1. Turn(t, m) = l
    BY <1>6 DEF Turn
  <2>2. Good(l, e, j + 1) /\ TotalLoad(l) = TotalLoad(t)
    BY NextWaits
  <2>3. l.threads = t.threads
    BY <1>1 DEF Machine
  <2> HIDE DEF l
  <2>4. Light(l)
    BY <2>2, <2>3 DEF Light
  <2> QED
    BY <2>1, <2>2, <2>4
<1> QED
  BY <1>4, <1>5, <1>6

(* A whole turn.                                                           *)
LEMMA TurnedKeeps ==
    ASSUME NEW t, NEW e \in Environment, Good(t, e, 0), Light(t)
    PROVE  Good(AfterTurn(t, e.turn), e, Len(e.turn)) /\ Light(AfterTurn(t, e.turn))
<1> DEFINE n == Len(e.turn)
<1>1. e.turn \in Seq(Letter) /\ n \in Nat
  BY DEF Environment
<1>7. PICK h : Steps(t, e.turn, h)
  BY <1>1, TurnSteps
<1>2. /\ h[0] = t /\ h[n] = AfterTurn(t, e.turn)
      /\ \A j \in Nat : j < n => h[j + 1] = Turn(h[j], e.turn[j + 1])
  BY <1>7 DEF Steps
<1> DEFINE P == {j \in Nat : j <= n => Good(h[j], e, j) /\ Light(h[j])}
<1> HIDE DEF n
<1>3. 0 \in P
  BY <1>2
<1>4. ASSUME NEW j \in P PROVE j + 1 \in P
  <2>1. j \in Nat
    OBVIOUS
  <2> SUFFICES ASSUME j + 1 <= n PROVE Good(h[j + 1], e, j + 1) /\ Light(h[j + 1])
    BY <2>1
  <2>2. j < n /\ Good(h[j], e, j) /\ Light(h[j])
    BY <1>1, <2>1
  <2>3. Good(Turn(h[j], e.turn[j + 1]), e, j + 1) /\ Light(Turn(h[j], e.turn[j + 1]))
    BY <2>1, <2>2, TurnKeeps DEF n
  <2> QED
    BY <1>2, <2>1, <2>2, <2>3
<1>5. P = Nat
  <2> HIDE DEF P
  <2>1. P \in SUBSET Nat
    BY DEF P
  <2> QED
    BY <1>3, <1>4, <2>1, InductiveSet
<1>6. Good(h[n], e, n) /\ Light(h[n])
  BY <1>1, <1>5
<1> QED
  BY <1>2, <1>6 DEF n

-----------------------------------------------------------------------------
(***************************************************************************)
(* The inductive invariant.                                                *)
(***************************************************************************)

(* What comes to the pipeline and goes to a process.                       *)
Letters ==
    /\ elsewhere \subseteq Letter
    /\ outstanding \in Seq(Letter)
    /\ inbox \in [Processes -> SUBSET Letter]

(* A process that was not started has nothing.                             *)
Unstarted ==
    \A c \in Processes : c > started =>
        /\ process[c] = "none"
        /\ inbox[c] = {} /\ saved[c] = {} /\ load[c] = 0
        /\ inside[c] = {} /\ outbox[c] = {}

(* The books of the handlers of the jobs are right.                        *)
BookedNow(c) ==
    Booked(inbox[c], saved[c], load[c], inside[c], outbox[c], done, setup.main)

Books ==
    \A a \in Apps : job[a] # NoProcess /\ process[job[a]] \in {"running", "killed"} =>
        BookedNow(job[a])

(* Where the kernels are between two turns.                                *)
Where == [elsewhere |-> elsewhere, turn |-> <<>>, from |-> 0,
          waiting |-> outstanding, inbox |-> inbox, inside |-> inside,
          outbox |-> outbox, unborn |-> unborn]

(* The pipeline stops when no process is left.                             *)
Quiet ==
    state \in {"stopped", "cleared"} =>
        \A c \in Processes : process[c] \in {"none", "reaped"}

Inv ==
    /\ TypeOK
    /\ Letters
    /\ Unstarted
    /\ JobsAreProcesses
    /\ Books
    /\ UniquePlace(Where)
    /\ Quiet
    /\ NotOverloaded

(* The load of the jobs.                                                   *)
JobSet(job1) == {job1[a] : a \in Apps} \ {NoProcess}
Total(load1, job1) == SumOver(load1, JobSet(job1))

(* The types, one by one.                                                  *)
LEMMA Types ==
    ASSUME TypeOK
    PROVE  /\ setup \in Setup /\ setup \in Setups
           /\ job \in [Apps -> Processes \cup {NoProcess}]
           /\ outstanding \in Seq(Message) /\ started \in 0..MaxProcesses
           /\ saved \in [Processes -> SUBSET Kernels] /\ load \in [Processes -> Nat]
           /\ open \in [Processes -> BOOLEAN] /\ process \in [Processes -> States]
           /\ inbox \in [Processes -> SUBSET Message]
           /\ inside \in [Processes -> SUBSET Kernels]
           /\ outbox \in [Processes -> SUBSET Message]
           /\ unborn \subseteq Requests /\ answered \subseteq Requests
           /\ elsewhere \subseteq Message /\ done \subseteq Tasks
           /\ setup.main \subseteq Tasks
<1>1. setup \in Setup
  BY ProcessAssumption DEF TypeOK
<1>2. setup.main \subseteq Tasks
  BY <1>1 DEF Setup
<1>3. started \in 0..MaxProcesses
  BY ProcessNumbers DEF TypeOK
<1> QED
  BY <1>1, <1>2, <1>3 DEF TypeOK, States

(* Jobs are processes, and their loads can be added up.                    *)
LEMMA JobLoads ==
    ASSUME NEW jb \in [Apps -> Processes \cup {NoProcess}], NEW ld \in [Processes -> Nat]
    PROVE  /\ IsFiniteSet(JobSet(jb)) /\ JobSet(jb) \subseteq Processes
           /\ \A c \in JobSet(jb) : ld[c] \in Nat
           /\ Total(ld, jb) \in Nat
<1>1. JobSet(jb) \subseteq Processes
  BY DEF JobSet
<1>2. IsFiniteSet(JobSet(jb))
  BY <1>1, ProcessNumbers, FS_Subset
<1>3. \A c \in JobSet(jb) : ld[c] \in Nat
  BY <1>1
<1>4. Total(ld, jb) \in Nat
  BY <1>2, <1>3, SumType DEF Total
<1> QED
  BY <1>1, <1>2, <1>3, <1>4

(* The load of one process falls.                                          *)
LEMMA TotalFalls ==
    ASSUME NEW jb \in [Apps -> Processes \cup {NoProcess}],
           NEW ld \in [Processes -> Nat], NEW ld2 \in [Processes -> Nat], NEW c \in Processes,
           \A d \in Processes : d # c => ld2[d] = ld[d], ld2[c] <= ld[c]
    PROVE  Total(ld2, jb) <= Total(ld, jb)
<1> DEFINE S == JobSet(jb)
<1>1. IsFiniteSet(S) /\ S \subseteq Processes /\ Total(ld, jb) \in Nat
      /\ (\A d \in S : ld[d] \in Nat) /\ (\A d \in S : ld2[d] \in Nat)
  BY JobLoads
<1>2. \A d \in S : d # c => ld2[d] = ld[d]
  BY <1>1
<1>3. Total(ld, jb) = SumOver(ld, S) /\ Total(ld2, jb) = SumOver(ld2, S)
  BY DEF Total
<1> HIDE DEF S
<1>4. CASE c \in S
  BY <1>1, <1>2, <1>3, <1>4, SumAtMost
<1>5. CASE c \notin S
  <2>1. Alike(ld2, ld, S)
    BY <1>2, <1>5 DEF Alike
  <2>2. SumOver(ld2, S) = SumOver(ld, S)
    BY <1>1, <2>1, SumSame
  <2> QED
    BY <1>1, <1>3, <2>2
<1> QED
  BY <1>4, <1>5

(* A job is given up.                                                      *)
LEMMA TotalDrops ==
    ASSUME NEW jb \in [Apps -> Processes \cup {NoProcess}], NEW ld \in [Processes -> Nat],
           NEW c \in JobSet(jb), NEW jb2,
           jb2 = [a \in Apps |-> IF jb[a] = c THEN NoProcess ELSE jb[a]]
    PROVE  Total(ld, jb2) <= Total(ld, jb)
<1>1. IsFiniteSet(JobSet(jb)) /\ \A d \in JobSet(jb) : ld[d] \in Nat
  BY JobLoads
<1>2. JobSet(jb2) = JobSet(jb) \ {c}
  BY DEF JobSet
<1>3. SumOver(ld, JobSet(jb) \ {c}) <= SumOver(ld, JobSet(jb))
  BY <1>1, SumLess
<1> QED
  BY <1>2, <1>3 DEF Total

(* Of the processes, one changes.                                          *)
LEMMA BooksKept ==
    ASSUME TypeOK, Books, setup' = setup, done \subseteq done', NEW c \in Processes,
           \A a \in Apps : job'[a] # NoProcess => job'[a] = job[a],
           \A d \in Processes : d # c =>
              /\ inbox'[d] = inbox[d] /\ saved'[d] = saved[d] /\ load'[d] = load[d]
              /\ inside'[d] = inside[d] /\ outbox'[d] = outbox[d] /\ process'[d] = process[d],
           \A a \in Apps : job'[a] = c /\ process'[c] \in {"running", "killed"} =>
              process[c] \in {"running", "killed"} /\ (BookedNow(c) => BookedNow(c)')
    PROVE  Books'
<1> SUFFICES ASSUME NEW a \in Apps, job'[a] # NoProcess, process'[job'[a]] \in {"running", "killed"}
             PROVE  Booked(inbox'[job'[a]], saved'[job'[a]], load'[job'[a]],
                           inside'[job'[a]], outbox'[job'[a]], done', setup'.main)
  BY DEF Books, BookedNow
<1> DEFINE d == job'[a]
<1>1. d = job[a] /\ d \in Processes /\ d # NoProcess
  <2>1. d = job[a]
    OBVIOUS
  <2>2. job[a] \in Processes \cup {NoProcess}
    BY Types
  <2> QED
    BY <2>1, <2>2
<1> HIDE DEF d
<1>2. process'[d] \in {"running", "killed"} /\ d = job'[a]
  BY DEF d
<1>3. process[d] \in {"running", "killed"}
  BY <1>1, <1>2
<1>4. BookedNow(d)
  BY <1>1, <1>3 DEF Books
<1>5. CASE d = c
  <2>1. BookedNow(c)'
    BY <1>2, <1>4, <1>5
  <2>2. job'[a] = c
    BY <1>2, <1>5
  <2> QED
    BY <2>1, <2>2 DEF BookedNow
<1>6. CASE d # c
  <2>1. Booked(inbox[d], saved[d], load[d], inside[d], outbox[d], done', setup.main)
    BY <1>4, BookedSame DEF BookedNow
  <2>2. inbox'[d] = inbox[d] /\ saved'[d] = saved[d] /\ load'[d] = load[d]
        /\ inside'[d] = inside[d] /\ outbox'[d] = outbox[d]
    BY <1>1, <1>6
  <2> QED
    BY <1>2, <2>1, <2>2 DEF BookedNow
<1> QED
  BY <1>5, <1>6

-----------------------------------------------------------------------------
(***************************************************************************)
(* forward() and the turns.                                                *)
(***************************************************************************)

(* The variables, as a machine.                                            *)
LEMMA NowIsMachine ==
    ASSUME TypeOK, Letters
    PROVE  /\ Now \in Machine
           /\ Now.job = job /\ Now.started = started /\ Now.saved = saved /\ Now.load = load
           /\ Now.process = process /\ Now.inbox = inbox /\ Now.waiting = outstanding
           /\ TotalLoad(Now) = Total(load, job)
<1>1. Now \in Machine
  BY Types DEF Now, Machine, Letters
<1>2. /\ Now.job = job /\ Now.started = started /\ Now.saved = saved /\ Now.load = load
      /\ Now.process = process /\ Now.inbox = inbox /\ Now.waiting = outstanding
  BY DEF Now
<1>3. Jobs(Now) = JobSet(job)
  BY <1>2 DEF Jobs, JobSet
<1>4. TotalLoad(Now) = Total(load, job)
  BY <1>1, <1>2, <1>3, TotalIsSum DEF Total
<1> QED
  BY <1>1, <1>2, <1>4

(* A machine that agrees with the variables, apart from what waits, is     *)
(* good if the kernels are in one place.                                   *)
LEMMA NowIsGood ==
    ASSUME Inv, NEW t \in Machine, t.job = job, t.started = started, t.saved = saved,
           t.load = load, t.process = process, t.inbox = inbox,
           NEW e \in Environment, e.inside = inside, e.outbox = outbox, e.done = done,
           e.main = setup.main, UniquePlace(Places(t, e, 0))
    PROVE  Good(t, e, 0) /\ TotalLoad(t) = Total(load, job)
<1>1. Fresh(t, e.inside, e.outbox)
  BY DEF Inv, Unstarted, Fresh
<1>2. Owned(t)
  BY DEF Inv, JobsAreProcesses, Owned
<1>3. Balanced(t, e.inside, e.outbox, e.done, e.main)
  BY DEF Inv, Books, BookedNow, Balanced
<1>4. TotalLoad(t) = Total(load, job)
  <2>1. Jobs(t) = JobSet(job)
    BY DEF Jobs, JobSet
  <2> QED
    BY <2>1, TotalIsSum DEF Total
<1> QED
  BY <1>1, <1>2, <1>3, <1>4 DEF Good

(* The load after a step.                                                  *)
LEMMA NextLoad ==
    ASSUME Now' \in Machine
    PROVE  TotalLoad(Now)' = Total(load', job')
<1> DEFINE n == Now'
<1>1. n.job = job' /\ n.load = load'
  BY DEF Now
<1>2. TotalLoad(Now)' = TotalLoad(n)
  OBVIOUS
<1> HIDE DEF n
<1>3. TotalLoad(n) = SumOver(n.load, Jobs(n))
  BY TotalIsSum DEF n
<1>4. Jobs(n) = JobSet(job')
  BY <1>1 DEF Jobs, JobSet
<1> QED
  BY <1>1, <1>2, <1>3, <1>4 DEF Total

(* A step that adds no load.                                               *)
LEMMA LoadKept ==
    ASSUME TypeOK, TypeOK', Letters, Letters', NotOverloaded, setup' = setup,
           Total(load', job') <= Total(load, job)
    PROVE  NotOverloaded'
<1>1. TotalLoad(Now) = Total(load, job)
  BY NowIsMachine
<1>2. started' \in 0..MaxProcesses
  BY ProcessNumbers DEF TypeOK
<1>3. Now' \in Machine
  BY <1>2 DEF TypeOK, Letters, Now, Machine, States
<1>4. TotalLoad(Now)' = Total(load', job')
  BY <1>3, NextLoad
<1>5. Total(load, job) \in Nat /\ Total(load', job') \in Nat
  BY JobLoads DEF TypeOK
<1>6. MaxThreads \in Nat
  BY ProcessAssumption
<1> QED
  BY <1>1, <1>4, <1>5, <1>6 DEF NotOverloaded

(* The places after a step.                                                *)
LEMMA NextPlaces ==
    ASSUME UniquePlace(Where')
    PROVE  UniquePlace(Where)'
OBVIOUS

(* A good machine becomes the next state.                                  *)
LEMMA Assigned ==
    ASSUME TypeOK, setup' = setup, NEW e \in Environment, NEW t, NEW j \in Nat, Good(t, e, j),
           Assign(t), elsewhere' = e.elsewhere, inside' = e.inside, outbox' = e.outbox,
           unborn' = e.unborn, done' = e.done, e.main = setup.main,
           UNCHANGED <<answered, deaths>>,
           state' \in {"started", "stopping", "draining", "stopped", "cleared", "terminated"}
    PROVE  TypeOK' /\ Letters' /\ Unstarted' /\ JobsAreProcesses' /\ Books' /\ UniquePlace(Where)'
           /\ TotalLoad(Now)' = TotalLoad(t)
<1>1. t \in Machine /\ UniquePlace(Places(t, e, j))
  BY DEF Good
<1>2. /\ job' = t.job /\ started' = t.started /\ saved' = t.saved /\ load' = t.load
      /\ open' = t.open /\ process' = t.process /\ inbox' = t.inbox /\ outstanding' = t.waiting
  BY DEF Assign
<1>9. Letters'
  BY <1>1, <1>2 DEF Environment, Machine, Letters
<1>3. TypeOK'
  <2>1. /\ elsewhere' \subseteq Letter /\ inside' \in [Processes -> SUBSET Kernels]
        /\ outbox' \in [Processes -> SUBSET Message] /\ unborn' \subseteq Requests
        /\ done' \subseteq Tasks
    BY DEF Environment
  <2>2. /\ t.job \in [Apps -> Processes \cup {NoProcess}] /\ t.started \in 0..MaxProcesses
        /\ t.saved \in [Processes -> SUBSET Kernels] /\ t.load \in [Processes -> Nat]
        /\ t.open \in [Processes -> BOOLEAN] /\ t.process \in [Processes -> States]
        /\ t.inbox \in [Processes -> SUBSET Letter] /\ t.waiting \in Seq(Letter)
    BY <1>1 DEF Machine
  <2>5. Letter \subseteq Message
    BY Phases
  <2>6. t.waiting \in Seq(Message)
    BY <2>2, <2>5
  <2>7. t.inbox \in [Processes -> SUBSET Message]
    BY <2>2, <2>5
  <2>3. started' \in 0..Cardinality(Processes)
    BY <1>2, <2>2, ProcessNumbers
  <2>4. setup' \in Setups /\ answered' \subseteq Requests /\ deaths' \in 0..setup'.deaths
    BY DEF TypeOK
  <2> QED
    BY <1>2, <2>1, <2>2, <2>3, <2>4, <2>5, <2>6, <2>7 DEF TypeOK, States
<1>4. Unstarted'
  <2>1. Fresh(t, e.inside, e.outbox)
    BY DEF Good
  <2> QED
    BY <1>2, <2>1 DEF Fresh, Unstarted
<1>5. JobsAreProcesses'
  <2>1. Owned(t)
    BY DEF Good
  <2> QED
    BY <1>2, <2>1 DEF Owned, JobsAreProcesses
<1>6. Books'
  <2>1. Balanced(t, e.inside, e.outbox, e.done, e.main)
    BY DEF Good
  <2> QED
    BY <1>2, <2>1 DEF Balanced, Books, BookedNow
<1>7. UniquePlace(Where)'
  <2>1. UniquePlace(Where')
    <3>1. ASSUME NEW o, NEW i, NEW n, In(Where', o, i, n) PROVE In(Places(t, e, j), o, i, n)
      <4>1. CASE o = "turn"
        BY <3>1, <4>1 DEF In, Where
      <4>2. CASE o # "turn"
        BY <1>2, <3>1, <4>2 DEF In, Where, Places
      <4> QED
        BY <4>1, <4>2
    <3>2. \A o, i, n : In(Where', o, i, n) => In(Places(t, e, j), o, i, n)
      BY <3>1
    <3> QED
      BY <1>1, <3>2, Fewer
  <2> QED
    BY <2>1, NextPlaces
<1>8. TotalLoad(Now)' = TotalLoad(t)
  <2>1. TotalLoad(Now)' = Total(load', job')
    <3>1. Now' \in Machine
      BY <1>1, <1>2 DEF Now, Machine
    <3> QED
      BY <3>1, NextLoad
  <2>2. Jobs(t) = JobSet(job')
    BY <1>2 DEF Jobs, JobSet
  <2> QED
    BY <1>1, <1>2, <2>1, <2>2, TotalIsSum DEF Total
<1> QED
  BY <1>3, <1>4, <1>5, <1>6, <1>7, <1>8, <1>9

(* A kernel arrives.                                                       *)
LEMMA ForwardKeepsInv ==
    ASSUME Inv, setup' = setup, NEW m \in elsewhere, Forward(m)
    PROVE  Inv'
<1> DEFINE e == [elsewhere |-> elsewhere \ {m}, turn |-> <<m>>, inside |-> inside,
                 outbox |-> outbox, unborn |-> unborn, done |-> done, main |-> setup.main]
           t == Now
           p == Where
           q == Places(t, e, 0)
           w == [t EXCEPT !.waiting = Append(@, m)]
<1>1. TypeOK /\ Letters /\ UniquePlace(p) /\ NotOverloaded /\ Quiet
  BY DEF Inv
<1>2. m \in Letter
  BY <1>1 DEF Letters
<1>3. e \in Environment
  <2>1. <<m>> \in Seq(Letter)
    BY <1>2
  <2> QED
    BY <1>1, <2>1, Types DEF Environment, Letters
<1>4. /\ t \in Machine /\ t.job = job /\ t.started = started /\ t.saved = saved /\ t.load = load
      /\ t.process = process /\ t.inbox = inbox /\ t.waiting = outstanding
      /\ TotalLoad(t) = Total(load, job)
  BY <1>1, NowIsMachine
<1>5. /\ e.elsewhere = elsewhere \ {m} /\ e.turn = <<m>> /\ e.inside = inside
      /\ e.outbox = outbox /\ e.unborn = unborn /\ e.done = done /\ e.main = setup.main
  OBVIOUS
<1>6. Len(e.turn) = 1 /\ e.turn[0 + 1] = m
  BY <1>5
<1> HIDE DEF e, t
<1>7. UniquePlace(q)
  <2>1. In(p, "elsewhere", 0, m) /\ ~In(q, "elsewhere", 0, m)
    BY <1>5 DEF In, Where, Places
  <2>2. ASSUME NEW o, NEW i, NEW n, In(q, o, i, n)
        PROVE  In(p, o, i, n) \/ (o = "turn" /\ i = 1 /\ n = m)
    <3>1. CASE o = "turn"
      BY <1>6, <2>2, <3>1 DEF In, Places
    <3>2. CASE o # "turn"
      BY <1>4, <1>5, <2>2, <3>2 DEF In, Places, Where
    <3> QED
      BY <3>1, <3>2
  <2> HIDE DEF p, q
  <2>3. Moves(p, q, "elsewhere", 0, m, "turn", 1, m)
    BY <2>1, <2>2 DEF Moves
  <2> QED
    BY <1>1, <2>3, Moved
<1>8. Good(t, e, 0)
  BY <1>3, <1>4, <1>5, <1>7, NowIsGood
<1>9. \E r : /\ Good(r, e, 1) /\ Assign(r)
             /\ setup.interleaving => TotalLoad(r) < MaxThreads
  <2>5. 0 \in Nat /\ 0 < Len(e.turn) /\ 0 + 1 = 1
    BY <1>6
  <2>1. setup.interleaving => TotalLoad(t) < MaxThreads
    BY <1>1 DEF NotOverloaded, t
  <2>2. CASE state # "started"
    <3>1. Assign(t)
      BY <2>2 DEF Forward, t
    <3>2. Good(t, e, 1)
      BY <1>3, <1>4, <1>8, <2>5, NextDropped
    <3> QED
      BY <2>1, <3>1, <3>2
  <2>3. CASE state = "started" /\ Admitted(t, TotalLoad(t), m)
    <3>1. Assign(Forwarded(t, m))
      BY <2>3 DEF Forward, t
    <3>2. Good(Forwarded(t, m), e, 1) /\ TotalLoad(Forwarded(t, m)) <= TotalLoad(t) + Weight[m.kernel]
      BY <1>3, <1>6, <1>8, <2>5, ForwardedKeeps
    <3>3. setup.interleaving => TotalLoad(t) + Weight[m.kernel] < MaxThreads
      BY <2>3 DEF Admitted
    <3>4. Weight[m.kernel] \in Nat /\ TotalLoad(t) \in Nat /\ MaxThreads \in Nat
      BY <1>2, <1>4, Phases, AppsOfKernels, TotalIsSum, ProcessAssumption
    <3>5. TotalLoad(Forwarded(t, m)) \in Nat
      BY <3>2, TotalIsSum DEF Good
    <3>6. setup.interleaving => TotalLoad(Forwarded(t, m)) < MaxThreads
      BY <3>2, <3>3, <3>4, <3>5
    <3> QED
      BY <3>1, <3>2, <3>6
  <2>4. CASE state = "started" /\ ~Admitted(t, TotalLoad(t), m)
    <3>1. Assign(w)
      BY <2>4 DEF Forward, t
    <3>2. Good(w, e, 1) /\ TotalLoad(w) = TotalLoad(t)
      BY <1>3, <1>6, <1>8, <2>5, NextWaits
    <3> HIDE DEF w
    <3> QED
      BY <2>1, <3>1, <3>2
  <2> QED
    BY <2>2, <2>3, <2>4
<1>10. PICK r : /\ Good(r, e, 1) /\ Assign(r)
                /\ setup.interleaving => TotalLoad(r) < MaxThreads
  BY <1>9
<1>11. /\ elsewhere' = elsewhere \ {m} /\ inside' = inside /\ outbox' = outbox
       /\ unborn' = unborn /\ answered' = answered /\ done' = done /\ deaths' = deaths
       /\ state' = state
       /\ state \in {"started", "stopping", "draining", "stopped", "cleared", "terminated"}
  BY <1>1 DEF Forward, program, TypeOK
<1>12. TypeOK' /\ Letters' /\ Unstarted' /\ JobsAreProcesses' /\ Books' /\ UniquePlace(Where)'
       /\ TotalLoad(Now)' = TotalLoad(r)
  BY <1>1, <1>3, <1>5, <1>10, <1>11, Assigned
<1>13. Quiet'
  <2>1. CASE state = "started"
    BY <1>11, <2>1 DEF Quiet
  <2>2. CASE state # "started"
    <3>1. process' = process
      BY <2>2 DEF Forward, Assign, Now
    <3> QED
      BY <1>1, <1>11, <3>1 DEF Quiet
  <2> QED
    BY <2>1, <2>2
<1>14. NotOverloaded'
  BY <1>10, <1>12 DEF NotOverloaded
<1> QED
  BY <1>12, <1>13, <1>14 DEF Inv

(* A turn over the outstanding kernels.                                    *)
LEMMA ProcessKernelsKeepsInv ==
    ASSUME Inv, setup' = setup, ProcessKernels
    PROVE  Inv'
<1> DEFINE e == [elsewhere |-> elsewhere, turn |-> outstanding, inside |-> inside,
                 outbox |-> outbox, unborn |-> unborn, done |-> done, main |-> setup.main]
           u == [Now EXCEPT !.waiting = <<>>]
           t == [Now EXCEPT !.waiting = <<>>, !.threads = TotalLoad(Now)]
           p == Where
           q == Places(t, e, 0)
<1>1. TypeOK /\ Letters /\ UniquePlace(p) /\ NotOverloaded /\ Quiet
  BY DEF Inv
<1>2. e \in Environment
  BY <1>1, Types DEF Environment, Letters
<1>3. /\ Now \in Machine /\ Now.job = job /\ Now.started = started /\ Now.saved = saved
      /\ Now.load = load /\ Now.process = process /\ Now.inbox = inbox
      /\ TotalLoad(Now) = Total(load, job) /\ TotalLoad(Now) \in Nat
  BY <1>1, NowIsMachine, TotalIsSum
<1>4. t \in Machine
  <2>1. <<>> \in Seq(Letter)
    OBVIOUS
  <2>2. u \in Machine
    <3> HIDE DEF u
    <3> QED
      BY <1>3, <2>1, FieldChanges DEF u
  <2>3. [u EXCEPT !.threads = TotalLoad(Now)] \in Machine
    <3> HIDE DEF u
    <3> QED
      BY <1>3, <2>2, FieldChanges
  <2> QED
    BY <2>3
<1>5. /\ t.job = job /\ t.started = started /\ t.saved = saved /\ t.load = load
      /\ t.process = process /\ t.inbox = inbox /\ t.waiting = <<>>
      /\ t.threads = TotalLoad(Now)
  BY <1>3 DEF Machine
<1>6. /\ e.elsewhere = elsewhere /\ e.turn = outstanding /\ e.inside = inside
      /\ e.outbox = outbox /\ e.unborn = unborn /\ e.done = done /\ e.main = setup.main
  OBVIOUS
<1>7. Turned = AfterTurn(t, e.turn)
  BY DEF Turned, AfterTurn
<1> HIDE DEF e, t
<1>8. UniquePlace(q)
  <2> DEFINE kindOf(o) == IF o = "turn" THEN "waiting" ELSE o
  <2>1. ASSUME NEW o, NEW i, NEW n, In(q, o, i, n)
        PROVE  In(p, kindOf(o), i, n) /\ o # "waiting"
    <3>1. CASE o = "turn"
      BY <1>6, <2>1, <3>1 DEF In, Places, Where
    <3>2. CASE o = "waiting"
      BY <1>5, <2>1, <3>2 DEF In, Places
    <3>3. CASE o # "turn" /\ o # "waiting"
      BY <1>5, <1>6, <2>1, <3>3 DEF In, Places, Where
    <3> QED
      BY <3>1, <3>2, <3>3
  <2> HIDE DEF p, q
  <2> SUFFICES ASSUME NEW o, NEW i, NEW n, NEW o2, NEW i2, NEW n2,
                      In(q, o, i, n), In(q, o2, i2, n2), n.kernel = n2.kernel
               PROVE  o = o2 /\ i = i2 /\ n = n2
    BY DEF UniquePlace
  <2>2. In(p, kindOf(o), i, n) /\ In(p, kindOf(o2), i2, n2) /\ o # "waiting" /\ o2 # "waiting"
    BY <2>1
  <2>3. kindOf(o) = kindOf(o2) /\ i = i2 /\ n = n2
    <3> HIDE DEF kindOf
    <3> QED
      BY <1>1, <2>2 DEF UniquePlace
  <2> QED
    BY <2>2, <2>3
<1>9. Good(t, e, 0) /\ TotalLoad(t) = TotalLoad(Now)
  BY <1>2, <1>3, <1>4, <1>5, <1>6, <1>8, NowIsGood
<1>10. Light(t)
  BY <1>1, <1>3, <1>5, <1>9 DEF Light, NotOverloaded
<1>11. Good(Turned, e, Len(e.turn)) /\ Light(Turned)
  BY <1>2, <1>7, <1>9, <1>10, TurnedKeeps
<1>12. CASE Turned.refused
  <2>1. /\ state' = "terminated"
        /\ UNCHANGED <<job, outstanding, started, saved, load, open, process, inbox, inside, outbox,
                       unborn, answered, elsewhere, done, deaths>>
    BY <1>12 DEF ProcessKernels, Assign, Now, program
  <2> USE <2>1
  <2>2. TypeOK'
    BY <1>1 DEF TypeOK
  <2>9. Letters'
    BY <1>1 DEF Letters
  <2>3. Unstarted'
    BY DEF Inv, Unstarted
  <2>4. JobsAreProcesses'
    BY DEF Inv, JobsAreProcesses
  <2>5. Books'
    BY DEF Inv, Books, BookedNow
  <2>6. UniquePlace(Where)'
    <3>1. Where' = Where
      BY DEF Where
    <3> QED
      BY <1>1, <3>1, NextPlaces
  <2>7. NotOverloaded'
    <3>1. Total(load', job') <= Total(load, job)
      BY <1>3
    <3> QED
      BY <1>1, <2>2, <2>9, <3>1, LoadKept
  <2>8. Quiet'
    BY DEF Quiet
  <2> QED
    BY <2>2, <2>9, <2>3, <2>4, <2>5, <2>6, <2>7, <2>8 DEF Inv
<1>13. CASE ~Turned.refused
  <2>1. /\ state' = state /\ Assign(Turned)
        /\ elsewhere' = elsewhere /\ inside' = inside /\ outbox' = outbox
        /\ unborn' = unborn /\ answered' = answered /\ done' = done /\ deaths' = deaths
        /\ state \in {"started", "stopping"}
    BY <1>13 DEF ProcessKernels, program
  <2>2. Len(e.turn) \in Nat
    BY <1>2 DEF Environment
  <2>3. TypeOK' /\ Letters' /\ Unstarted' /\ JobsAreProcesses' /\ Books' /\ UniquePlace(Where)'
        /\ TotalLoad(Now)' = TotalLoad(Turned)
    BY <1>1, <1>2, <1>6, <1>11, <2>1, <2>2, Assigned
  <2>4. Quiet'
    BY <2>1 DEF Quiet
  <2>5. NotOverloaded'
    <3>1. TotalLoad(Turned) \in Nat /\ Turned.threads \in Nat /\ MaxThreads \in Nat
      BY <1>11, TotalIsSum, ProcessAssumption DEF Good, Machine
    <3> QED
      BY <1>11, <2>1, <2>3, <3>1 DEF NotOverloaded, Light
  <2> QED
    BY <2>3, <2>4, <2>5 DEF Inv
<1> QED
  BY <1>12, <1>13

-----------------------------------------------------------------------------
(***************************************************************************)
(* The application.                                                        *)
(***************************************************************************)

(* Most steps change no load and no job.                                   *)
LEMMA LoadSame ==
    ASSUME Inv, TypeOK', Letters', setup' = setup, job' = job, load' = load
    PROVE  NotOverloaded'
<1>1. TypeOK /\ Letters /\ NotOverloaded
  BY DEF Inv
<1>2. Total(load, job) \in Nat
  BY <1>1, Types, JobLoads
<1>3. Total(load', job') <= Total(load, job)
  BY <1>2
<1> QED
  BY <1>1, <1>3, LoadKept

(* A process that has something was started.                               *)
LEMMA HasStarted ==
    ASSUME Inv, NEW c \in Processes,
           \/ inbox[c] # {} \/ inside[c] # {} \/ outbox[c] # {} \/ process[c] # "none"
    PROVE  ~(c > started)
BY DEF Inv, Unstarted

(* A process reads a kernel or a result.                                   *)
LEMMA ReadKeepsInv ==
    ASSUME Inv, setup' = setup, NEW c \in Processes, NEW m \in inbox[c], Read(c, m)
    PROVE  Inv'
<1> DEFINE k == m.kernel
           p == Where
           q == Where'
<1>1. TypeOK /\ Letters /\ Unstarted /\ JobsAreProcesses /\ Books /\ UniquePlace(p) /\ Quiet
  BY DEF Inv
<1>2. m \in Letter /\ m \in Message /\ k \in Kernels /\ (m = Up(k) \/ m = Down(k))
  BY <1>1, Phases DEF Letters
<1>3. /\ inbox' = [inbox EXCEPT ![c] = @ \ {m}]
      /\ UNCHANGED <<state, job, outstanding, started, saved, load, open, process, outbox,
                     unborn, elsewhere, done, deaths>>
  BY DEF Read, handlers
<1>4. \/ /\ m = Up(k) /\ inside' = [inside EXCEPT ![c] = @ \cup {k}] /\ answered' = answered
      \/ /\ m = Down(k) /\ k \in Requests /\ inside' = inside
         /\ answered' = answered \cup {k}
  <2>1. CASE m = Up(k)
    BY <2>1, Phases DEF Read
  <2>2. CASE m = Down(k)
    BY <1>2, <2>2, Phases DEF Read, Letter
  <2> QED
    BY <1>2, <2>1, <2>2
<1>5. /\ inbox \in [Processes -> SUBSET Letter] /\ inbox \in [Processes -> SUBSET Message]
      /\ inside \in [Processes -> SUBSET Kernels] /\ answered \subseteq Requests
  BY <1>1, Types DEF Letters
<1> HIDE DEF k
<1>6. /\ inbox' \in [Processes -> SUBSET Letter] /\ inbox' \in [Processes -> SUBSET Message]
      /\ inside' \in [Processes -> SUBSET Kernels] /\ answered' \subseteq Requests
  BY <1>2, <1>3, <1>4, <1>5
<1>7. TypeOK' /\ Letters'
  BY <1>1, <1>3, <1>6 DEF TypeOK, Letters
<1>8. /\ \A d \in Processes : d # c => inbox'[d] = inbox[d] /\ inside'[d] = inside[d]
      /\ inbox'[c] = inbox[c] \ {m}
  BY <1>3, <1>4, <1>5
<1>9. Unstarted'
  <2>1. ~(c > started)
    BY HasStarted
  <2> QED
    BY <1>1, <1>3, <1>8, <2>1 DEF Unstarted
<1>10. JobsAreProcesses'
  BY <1>1, <1>3 DEF JobsAreProcesses
<1>11. Books'
  <2>1. ASSUME Booked(inbox[c], saved[c], load[c], inside[c], outbox[c], done, setup.main)
        PROVE  Booked(inbox'[c], saved[c], load[c], inside'[c], outbox[c], done, setup.main)
    <3>1. \A i \in Kernels : Up(i) \in inbox[c] => i \in saved[c]
      BY <2>1 DEF Booked
    <3>2. CASE m = Up(k) /\ inside' = [inside EXCEPT ![c] = @ \cup {k}]
      <4>1. inside'[c] = inside[c] \cup {k} /\ k \in saved[c]
        BY <1>2, <1>5, <3>1, <3>2
      <4>2. HeldIn(inbox'[c], saved[c], inside'[c], outbox[c])
            = HeldIn(inbox[c], saved[c], inside[c], outbox[c])
        BY <1>2, <1>8, <3>2, <4>1, Phases DEF HeldIn
      <4> QED
        BY <1>8, <2>1, <4>2, BookedSame
    <3>3. CASE m = Down(k) /\ inside' = inside
      <4>1. HeldIn(inbox'[c], saved[c], inside'[c], outbox[c])
            = HeldIn(inbox[c], saved[c], inside[c], outbox[c])
        BY <1>8, <3>3, Phases DEF HeldIn
      <4> QED
        BY <1>8, <2>1, <4>1, BookedSame
    <3> QED
      BY <1>4, <3>2, <3>3
  <2>2. BookedNow(c) => BookedNow(c)'
    BY <1>3, <2>1 DEF BookedNow
  <2> QED
    BY <1>1, <1>3, <1>8, <2>2, BooksKept
<1>12. UniquePlace(q)
  <2>1. In(p, "inbox", c, m) /\ ~In(q, "inbox", c, m)
    BY <1>8 DEF In, Where
  <2>2. ASSUME NEW o, NEW i, NEW n, In(q, o, i, n)
        PROVE  In(p, o, i, n) \/ (o = "inside" /\ i = c /\ n = Up(k))
    <3>1. CASE o = "inbox"
      BY <1>8, <2>2, <3>1 DEF In, Where
    <3>2. CASE o = "inside"
      <4>1. PICK x \in inside'[i] : n = Up(x)
        BY <2>2, <3>2 DEF In, Where
      <4>2. i \in Processes
        BY <2>2, <3>2 DEF In, Where
      <4>3. x \in inside[i] \/ (i = c /\ x = k)
        BY <1>4, <1>5, <4>2
      <4> QED
        BY <3>2, <4>1, <4>2, <4>3 DEF In, Where
    <3>3. CASE o # "inbox" /\ o # "inside"
      BY <1>3, <2>2, <3>3 DEF In, Where
    <3> QED
      BY <3>1, <3>2, <3>3
  <2> HIDE DEF p, q
  <2>3. Up(k).kernel = m.kernel
    BY Phases DEF k
  <2>4. Moves(p, q, "inbox", c, m, "inside", c, Up(k))
    BY <2>1, <2>2, <2>3 DEF Moves
  <2> QED
    BY <1>1, <2>4, Moved
<1>13. Quiet'
  BY <1>1, <1>3 DEF Quiet
<1> QED
  BY <1>3, <1>7, <1>9, <1>10, <1>11, <1>12, <1>13, LoadSame, NextPlaces DEF Inv

(* A task creates a request.                                               *)
LEMMA CreateKeepsInv ==
    ASSUME Inv, setup' = setup, NEW c \in Processes, NEW r \in Requests, Create(c, r)
    PROVE  Inv'
<1> DEFINE p == Where
           q == Where'
<1>1. TypeOK /\ Letters /\ Unstarted /\ JobsAreProcesses /\ Books /\ UniquePlace(p) /\ Quiet
  BY DEF Inv
<1>2. /\ r \in unborn /\ TaskOf[r] \in inside[c] /\ unborn' = unborn \ {r}
      /\ outbox' = [outbox EXCEPT ![c] = @ \cup {Up(r)}]
      /\ UNCHANGED <<state, job, outstanding, started, saved, load, open, process, inbox, inside,
                     answered, elsewhere, done, deaths>>
  BY DEF Create, handlers
<1>3. r \in Kernels /\ Up(r) \in Message
  BY Phases DEF Kernels
<1>4. outbox \in [Processes -> SUBSET Message] /\ unborn \subseteq Requests
  BY <1>1, Types
<1>5. outbox' \in [Processes -> SUBSET Message] /\ unborn' \subseteq Requests
  BY <1>2, <1>3, <1>4
<1>6. TypeOK' /\ Letters'
  BY <1>1, <1>2, <1>5 DEF TypeOK, Letters
<1>7. /\ \A d \in Processes : d # c => outbox'[d] = outbox[d]
      /\ outbox'[c] = outbox[c] \cup {Up(r)}
  BY <1>2, <1>4
<1>8. Unstarted'
  <2>1. ~(c > started)
    BY <1>2, HasStarted
  <2> QED
    BY <1>1, <1>2, <1>7, <2>1 DEF Unstarted
<1>9. JobsAreProcesses'
  BY <1>1, <1>2 DEF JobsAreProcesses
<1>10. Books'
  <2>1. ASSUME Booked(inbox[c], saved[c], load[c], inside[c], outbox[c], done, setup.main)
        PROVE  Booked(inbox[c], saved[c], load[c], inside[c], outbox'[c], done, setup.main)
    <3>1. HeldIn(inbox[c], saved[c], inside[c], outbox'[c])
          = HeldIn(inbox[c], saved[c], inside[c], outbox[c])
      BY <1>7, Phases DEF HeldIn
    <3> QED
      BY <2>1, <3>1, BookedSame
  <2>2. BookedNow(c) => BookedNow(c)'
    BY <1>2, <2>1 DEF BookedNow
  <2> QED
    BY <1>1, <1>2, <1>7, <2>2, BooksKept
<1>11. UniquePlace(q)
  <2>1. In(p, "unborn", 0, Up(r)) /\ ~In(q, "unborn", 0, Up(r))
    BY <1>2, Phases DEF In, Where
  <2>2. ASSUME NEW o, NEW i, NEW n, In(q, o, i, n)
        PROVE  In(p, o, i, n) \/ (o = "outbox" /\ i = c /\ n = Up(r))
    <3>1. CASE o = "outbox"
      BY <1>7, <2>2, <3>1 DEF In, Where
    <3>2. CASE o = "unborn"
      BY <1>2, <2>2, <3>2 DEF In, Where
    <3>3. CASE o # "outbox" /\ o # "unborn"
      BY <1>2, <2>2, <3>3 DEF In, Where
    <3> QED
      BY <3>1, <3>2, <3>3
  <2> HIDE DEF p, q
  <2>3. Moves(p, q, "unborn", 0, Up(r), "outbox", c, Up(r))
    BY <2>1, <2>2 DEF Moves
  <2> QED
    BY <1>1, <2>3, Moved
<1>12. Quiet'
  BY <1>1, <1>2 DEF Quiet
<1> QED
  BY <1>2, <1>6, <1>8, <1>9, <1>10, <1>11, <1>12, LoadSame, NextPlaces DEF Inv

(* A kernel returns.                                                       *)
LEMMA FinishKeepsInv ==
    ASSUME Inv, setup' = setup, NEW c \in Processes, NEW k \in inside[c], Finish(c, k)
    PROVE  Inv'
<1> DEFINE p == Where
           q == Where'
<1>1. TypeOK /\ Letters /\ Unstarted /\ JobsAreProcesses /\ Books /\ UniquePlace(p) /\ Quiet
  BY DEF Inv
<1>2. /\ inside' = [inside EXCEPT ![c] = @ \ {k}]
      /\ outbox' = [outbox EXCEPT ![c] = @ \cup {Down(k)}]
      /\ UNCHANGED <<state, job, outstanding, started, saved, load, open, process, inbox,
                     unborn, answered, elsewhere, done, deaths>>
  BY DEF Finish, handlers, program
<1>3. /\ outbox \in [Processes -> SUBSET Message] /\ inside \in [Processes -> SUBSET Kernels]
  BY <1>1, Types
<1>4. k \in Kernels /\ Down(k) \in Message
  BY <1>3, Phases
<1>5. /\ outbox' \in [Processes -> SUBSET Message] /\ inside' \in [Processes -> SUBSET Kernels]
  BY <1>2, <1>3, <1>4
<1>6. TypeOK' /\ Letters'
  BY <1>1, <1>2, <1>5 DEF TypeOK, Letters
<1>7. /\ \A d \in Processes : d # c => outbox'[d] = outbox[d] /\ inside'[d] = inside[d]
      /\ outbox'[c] = outbox[c] \cup {Down(k)} /\ inside'[c] = inside[c] \ {k}
  BY <1>2, <1>3
<1>8. Unstarted'
  <2>1. ~(c > started)
    BY HasStarted
  <2> QED
    BY <1>1, <1>2, <1>7, <2>1 DEF Unstarted
<1>9. JobsAreProcesses'
  BY <1>1, <1>2 DEF JobsAreProcesses
<1>10. Books'
  <2>1. ASSUME Booked(inbox[c], saved[c], load[c], inside[c], outbox[c], done, setup.main)
        PROVE  Booked(inbox[c], saved[c], load[c], inside'[c], outbox'[c], done, setup.main)
    <3>1. HeldIn(inbox[c], saved[c], inside'[c], outbox'[c])
          = HeldIn(inbox[c], saved[c], inside[c], outbox[c])
      BY <1>4, <1>7, Phases DEF HeldIn
    <3> QED
      BY <2>1, <3>1, BookedSame
  <2>2. BookedNow(c) => BookedNow(c)'
    BY <1>2, <2>1 DEF BookedNow
  <2> QED
    BY <1>1, <1>2, <1>7, <2>2, BooksKept
<1>11. UniquePlace(q)
  <2>1. In(p, "inside", c, Up(k)) /\ ~In(q, "inside", c, Up(k))
    BY <1>7, Phases DEF In, Where
  <2>2. ASSUME NEW o, NEW i, NEW n, In(q, o, i, n)
        PROVE  In(p, o, i, n) \/ (o = "outbox" /\ i = c /\ n = Down(k))
    <3>1. CASE o = "outbox"
      BY <1>7, <2>2, <3>1 DEF In, Where
    <3>2. CASE o = "inside"
      <4>1. i \in Processes /\ \E x \in inside'[i] : n = Up(x)
        BY <2>2, <3>2 DEF In, Where
      <4>2. inside'[i] \subseteq inside[i]
        BY <1>7, <4>1
      <4> QED
        BY <3>2, <4>1, <4>2 DEF In, Where
    <3>3. CASE o # "outbox" /\ o # "inside"
      BY <1>2, <2>2, <3>3 DEF In, Where
    <3> QED
      BY <3>1, <3>2, <3>3
  <2> HIDE DEF p, q
  <2>3. Down(k).kernel = Up(k).kernel
    BY Phases
  <2>4. Moves(p, q, "inside", c, Up(k), "outbox", c, Down(k))
    BY <2>1, <2>2, <2>3 DEF Moves
  <2> QED
    BY <1>1, <2>4, Moved
<1>12. Quiet'
  BY <1>1, <1>2 DEF Quiet
<1> QED
  BY <1>2, <1>6, <1>8, <1>9, <1>10, <1>11, <1>12, LoadSame, NextPlaces DEF Inv

(* Another node executes a request.                                        *)
LEMMA ExecuteElsewhereKeepsInv ==
    ASSUME Inv, setup' = setup, NEW r \in Requests, ExecuteElsewhere(r)
    PROVE  Inv'
<1> DEFINE p == Where
           q == Where'
<1>1. TypeOK /\ Letters /\ Unstarted /\ JobsAreProcesses /\ Books /\ UniquePlace(p) /\ Quiet
  BY DEF Inv
<1>2. /\ Up(r) \in elsewhere /\ elsewhere' = (elsewhere \ {Up(r)}) \cup {Down(r)}
      /\ UNCHANGED <<state, job, outstanding, started, saved, load, open, process, inbox, inside,
                     outbox, unborn, answered, done, deaths>>
  BY DEF ExecuteElsewhere, handlers, pipes, program
<1>3. Down(r) \in Message /\ Down(r) \in Letter
  <2>1. Down(r) \in Message /\ Down(r).kernel = r
    BY Phases DEF Kernels
  <2> QED
    BY <2>1 DEF Letter
<1>4. TypeOK' /\ Letters'
  BY <1>1, <1>2, <1>3 DEF TypeOK, Letters
<1>5. Unstarted'
  BY <1>1, <1>2 DEF Unstarted
<1>6. JobsAreProcesses'
  BY <1>1, <1>2 DEF JobsAreProcesses
<1>7. Books'
  BY <1>1, <1>2 DEF Books, BookedNow
<1>8. UniquePlace(q)
  <2>1. In(p, "elsewhere", 0, Up(r)) /\ ~In(q, "elsewhere", 0, Up(r))
    BY <1>2, Phases DEF In, Where
  <2>2. ASSUME NEW o, NEW i, NEW n, In(q, o, i, n)
        PROVE  In(p, o, i, n) \/ (o = "elsewhere" /\ i = 0 /\ n = Down(r))
    <3>1. CASE o = "elsewhere"
      BY <1>2, <2>2, <3>1 DEF In, Where
    <3>2. CASE o # "elsewhere"
      BY <1>2, <2>2, <3>2 DEF In, Where
    <3> QED
      BY <3>1, <3>2
  <2> HIDE DEF p, q
  <2>3. Down(r).kernel = Up(r).kernel
    BY Phases
  <2>4. Moves(p, q, "elsewhere", 0, Up(r), "elsewhere", 0, Down(r))
    BY <2>1, <2>2, <2>3 DEF Moves
  <2> QED
    BY <1>1, <2>4, Moved
<1>9. Quiet'
  BY <1>1, <1>2 DEF Quiet
<1> QED
  BY <1>2, <1>4, <1>5, <1>6, <1>7, <1>8, <1>9, LoadSame, NextPlaces DEF Inv

-----------------------------------------------------------------------------
(***************************************************************************)
(* The events of the pipes.                                                *)
(***************************************************************************)

(* The books after a kernel or a result has come out of a process.         *)
LEMMA ReturnKeepsBooks ==
    ASSUME Inv, setup' = setup, NEW c \in Processes, NEW k \in Kernels,
           Down(k) \in outbox[c], outbox'[c] = outbox[c] \ {Down(k)},
           load'[c] = LoadAfterReturn(c, k), inside'[c] = inside[c], done \subseteq done',
           inbox'[c] = inbox[c] \/ inbox'[c] = inbox[c] \cup {Down(k)},
           \/ saved'[c] = saved[c] \ {k}
           \/ saved'[c] = saved[c] /\ k \in setup.main /\ k \in done',
           BookedNow(c)
    PROVE  BookedNow(c)'
<1>1. Up(k) \notin inbox[c] /\ k \notin inside[c]
  <2> DEFINE p == Where
  <2>1. p.inbox = inbox /\ p.inside = inside /\ p.outbox = outbox
    BY DEF Where
  <2>2. UniquePlace(p)
    BY DEF Inv
  <2> HIDE DEF p
  <2>3. Down(k) \in p.outbox[c]
    BY <2>1
  <2>4. Up(k) \notin p.inbox[c] /\ k \notin p.inside[c]
    BY <2>2, <2>3, LeftProcess
  <2> QED
    BY <2>1, <2>4
<1>2. \A i \in Kernels : Up(i) \in inbox'[c] <=> Up(i) \in inbox[c]
  BY Phases
<1>3. \A i \in Kernels : Down(i) \in outbox'[c] <=> Down(i) \in outbox[c] /\ i # k
  BY Phases
<1>4. HeldIn(inbox'[c], saved'[c], inside[c], outbox'[c])
      = HeldIn(inbox[c], saved[c], inside[c], outbox[c]) \ {k}
  BY <1>1, <1>2, <1>3 DEF HeldIn
<1>5. k \in HeldIn(inbox[c], saved[c], inside[c], outbox[c])
  BY DEF HeldIn
<1>6. Booked(inbox[c], saved[c], load[c], inside[c], outbox[c], done, setup.main)
  BY DEF BookedNow
<1>7. \A j \in Kernels : Up(j) \in inbox'[c] => j # k /\ Up(j) \in inbox[c]
  BY <1>1, <1>2
<1>8. Booked(inbox'[c], saved'[c], IF load[c] > Weight[k] THEN load[c] - Weight[k] ELSE 0,
             inside[c], outbox'[c], done', setup.main)
  <2>1. Returned(k, inbox[c], saved[c], inside[c], outbox[c], done,
                 inbox'[c], saved'[c], outbox'[c], done', setup.main)
    BY <1>4, <1>5, <1>7 DEF Returned
  <2> QED
    BY <1>6, <2>1, BookedReturned
<1> QED
  BY <1>8 DEF BookedNow, LoadAfterReturn

(* The load falls.                                                         *)
LEMMA ReturnKeepsLoad ==
    ASSUME Inv, TypeOK', Letters', setup' = setup, NEW c \in Processes, NEW k \in Kernels,
           load' = [load EXCEPT ![c] = LoadAfterReturn(c, k)], job' = job
    PROVE  NotOverloaded'
<1>1. TypeOK /\ Letters /\ NotOverloaded
  BY DEF Inv
<1>2. load \in [Processes -> Nat] /\ job \in [Apps -> Processes \cup {NoProcess}]
  BY <1>1, Types
<1>3. load' \in [Processes -> Nat]
  BY DEF TypeOK
<1>4. Weight[k] \in Nat
  BY AppsOfKernels
<1>5. load'[c] <= load[c] /\ \A d \in Processes : d # c => load'[d] = load[d]
  <2>1. load'[c] = LoadAfterReturn(c, k) /\ \A d \in Processes : d # c => load'[d] = load[d]
    BY <1>2
  <2>2. LoadAfterReturn(c, k) <= load[c]
    BY <1>2, <1>4 DEF LoadAfterReturn
  <2> QED
    BY <2>1, <2>2
<1>6. Total(load', job) <= Total(load, job)
  BY <1>2, <1>3, <1>5, TotalFalls
<1> QED
  BY <1>1, <1>6, LoadKept

(* What is subtracted leaves a natural number.                             *)
LEMMA ReturnType ==
    ASSUME TypeOK, NEW c \in Processes, NEW k \in Kernels
    PROVE  LoadAfterReturn(c, k) \in Nat
BY AppsOfKernels, Types DEF LoadAfterReturn

(* A task comes back from its process.                                     *)
LEMMA ReceiveTaskKeepsInv ==
    ASSUME Inv, setup' = setup, NEW c \in Processes, NEW t \in Kernels,
           ReceiveTask(c, t), state \in {"started", "stopping"},
           UNCHANGED <<state, job, outstanding, started, open, inside, program, deaths>>
    PROVE  Inv'
<1> DEFINE p == Where
           q == Where'
<1>1. TypeOK /\ Letters /\ Unstarted /\ JobsAreProcesses /\ Books /\ UniquePlace(p) /\ Quiet
  BY DEF Inv
<1>2. /\ t \in Tasks /\ Down(t) \in outbox[c]
      /\ outbox' = [outbox EXCEPT ![c] = @ \ {Down(t)}]
      /\ load' = [load EXCEPT ![c] = LoadAfterReturn(c, t)]
      /\ done' = done \cup {t}
      /\ \/ /\ t \in setup.main /\ saved' = saved
            /\ process' = [process EXCEPT ![c] = IF @ = "running" THEN "killed" ELSE @]
         \/ saved' = [saved EXCEPT ![c] = @ \ {t}] /\ process' = process
      /\ UNCHANGED <<state, job, outstanding, started, open, inside, unborn, answered, deaths,
                     inbox, elsewhere>>
  BY DEF ReceiveTask, program
<1>3. /\ outbox \in [Processes -> SUBSET Message] /\ load \in [Processes -> Nat]
      /\ saved \in [Processes -> SUBSET Kernels] /\ process \in [Processes -> States]
      /\ done \subseteq Tasks
  BY <1>1, Types
<1>4. LoadAfterReturn(c, t) \in Nat
  BY <1>1, ReturnType
<1>5. /\ outbox' \in [Processes -> SUBSET Message] /\ load' \in [Processes -> Nat]
      /\ done' \subseteq Tasks
  BY <1>2, <1>3, <1>4
<1>6. saved' \in [Processes -> SUBSET Kernels]
  BY <1>2, <1>3
<1>7. process' \in [Processes -> States]
  BY <1>2, <1>3 DEF States
<1>8. TypeOK' /\ Letters'
  BY <1>1, <1>2, <1>5, <1>6, <1>7 DEF TypeOK, Letters, States
<1>9. \A d \in Processes : d # c =>
         /\ outbox'[d] = outbox[d] /\ load'[d] = load[d] /\ saved'[d] = saved[d]
         /\ process'[d] = process[d]
  BY <1>2, <1>3
<1>10. /\ outbox'[c] = outbox[c] \ {Down(t)} /\ load'[c] = LoadAfterReturn(c, t)
       /\ saved'[c] = saved[c] \ {t} \/ (saved'[c] = saved[c] /\ t \in setup.main /\ t \in done')
       /\ process'[c] = process[c] \/ (process[c] = "running" /\ process'[c] = "killed")
  BY <1>2, <1>3
<1>11. Unstarted'
  <2>1. ~(c > started)
    BY <1>2, HasStarted
  <2> QED
    BY <1>1, <1>2, <1>9, <2>1 DEF Unstarted
<1>12. JobsAreProcesses'
  <2>1. job \in [Apps -> Processes \cup {NoProcess}]
    BY <1>1, Types
  <2> SUFFICES ASSUME NEW a \in Apps, job[a] # NoProcess
               PROVE  /\ process'[job[a]] \in {"running", "killed", "exited"}
                      /\ \A b \in Apps : job[b] = job[a] => a = b
    BY <1>2 DEF JobsAreProcesses
  <2>2. /\ process[job[a]] \in {"running", "killed", "exited"}
        /\ \A b \in Apps : job[b] = job[a] => a = b
    BY <1>1 DEF JobsAreProcesses
  <2>3. job[a] \in Processes
    BY <2>1
  <2> QED
    BY <1>9, <1>10, <2>2, <2>3
<1>13. Books'
  <2>1. BookedNow(c) => BookedNow(c)'
    BY <1>2, <1>10, ReturnKeepsBooks
  <2>2. process'[c] \in {"running", "killed"} => process[c] \in {"running", "killed"}
    BY <1>10
  <2> QED
    BY <1>1, <1>2, <1>9, <2>1, <2>2, BooksKept
<1>14. UniquePlace(q)
  <2>1. ASSUME NEW o, NEW i, NEW n, In(q, o, i, n) PROVE In(p, o, i, n)
    <3>1. CASE o = "outbox"
      BY <1>9, <1>10, <2>1, <3>1 DEF In, Where
    <3>2. CASE o # "outbox"
      BY <1>2, <2>1, <3>2 DEF In, Where
    <3> QED
      BY <3>1, <3>2
  <2>2. \A o, i, n : In(q, o, i, n) => In(p, o, i, n)
    BY <2>1
  <2> HIDE DEF p, q
  <2> QED
    BY <1>1, <2>2, Fewer
<1>15. Quiet'
  BY <1>2 DEF Quiet
<1>16. NotOverloaded'
  BY <1>2, <1>8, ReturnKeepsLoad
<1> QED
  BY <1>8, <1>11, <1>12, <1>13, <1>14, <1>15, <1>16, NextPlaces DEF Inv

(* The result of a request is written back to the process.                 *)
LEMMA ReceiveResultKeepsInv ==
    ASSUME Inv, setup' = setup, NEW c \in Processes, NEW r \in Kernels,
           ReceiveResult(c, r), state \in {"started", "stopping"},
           UNCHANGED <<state, job, outstanding, started, open, inside, program, deaths>>
    PROVE  Inv'
<1> DEFINE p == Where
           q == Where'
<1>1. TypeOK /\ Letters /\ Unstarted /\ JobsAreProcesses /\ Books /\ UniquePlace(p) /\ Quiet
  BY DEF Inv
<1>2. /\ r \in Requests /\ Down(r) \in outbox[c]
      /\ outbox' = [outbox EXCEPT ![c] = @ \ {Down(r)}]
      /\ load' = [load EXCEPT ![c] = LoadAfterReturn(c, r)]
      /\ saved' = [saved EXCEPT ![c] = @ \ {r}]
      /\ inbox' = [inbox EXCEPT ![c] = @ \cup {Down(r)}]
      /\ UNCHANGED <<state, job, outstanding, started, open, inside, unborn, answered, deaths,
                     process, elsewhere, done>>
  BY DEF ReceiveResult, program
<1>3. /\ outbox \in [Processes -> SUBSET Message] /\ load \in [Processes -> Nat]
      /\ saved \in [Processes -> SUBSET Kernels]
      /\ inbox \in [Processes -> SUBSET Letter] /\ inbox \in [Processes -> SUBSET Message]
  BY <1>1, Types DEF Letters
<1>4. LoadAfterReturn(c, r) \in Nat /\ Down(r) \in Message /\ Down(r) \in Letter
  <2>1. Down(r) \in Message /\ Down(r).kernel = r
    BY Phases
  <2> QED
    BY <1>1, <1>2, <2>1, ReturnType DEF Letter
<1>5. /\ outbox' \in [Processes -> SUBSET Message] /\ load' \in [Processes -> Nat]
      /\ saved' \in [Processes -> SUBSET Kernels]
  BY <1>2, <1>3, <1>4
<1>6. inbox' \in [Processes -> SUBSET Letter] /\ inbox' \in [Processes -> SUBSET Message]
  BY <1>2, <1>3, <1>4
<1>7. TypeOK' /\ Letters'
  BY <1>1, <1>2, <1>5, <1>6 DEF TypeOK, Letters
<1>8. \A d \in Processes : d # c =>
         /\ outbox'[d] = outbox[d] /\ load'[d] = load[d] /\ saved'[d] = saved[d]
         /\ inbox'[d] = inbox[d]
  BY <1>2, <1>3
<1>9. /\ outbox'[c] = outbox[c] \ {Down(r)} /\ load'[c] = LoadAfterReturn(c, r)
      /\ saved'[c] = saved[c] \ {r} /\ inbox'[c] = inbox[c] \cup {Down(r)}
  BY <1>2, <1>3
<1>10. Unstarted'
  <2>1. ~(c > started)
    BY <1>2, HasStarted
  <2> QED
    BY <1>1, <1>2, <1>8, <2>1 DEF Unstarted
<1>11. JobsAreProcesses'
  BY <1>1, <1>2 DEF JobsAreProcesses
<1>12. Books'
  <2>1. BookedNow(c) => BookedNow(c)'
    BY <1>2, <1>9, ReturnKeepsBooks
  <2> QED
    BY <1>1, <1>2, <1>8, <2>1, BooksKept
<1>13. UniquePlace(q)
  <2>1. In(p, "outbox", c, Down(r)) /\ ~In(q, "outbox", c, Down(r))
    BY <1>2, <1>9 DEF In, Where
  <2>2. ASSUME NEW o, NEW i, NEW n, In(q, o, i, n)
        PROVE  In(p, o, i, n) \/ (o = "inbox" /\ i = c /\ n = Down(r))
    <3>1. CASE o = "outbox"
      BY <1>8, <1>9, <2>2, <3>1 DEF In, Where
    <3>2. CASE o = "inbox"
      BY <1>8, <1>9, <2>2, <3>2 DEF In, Where
    <3>3. CASE o # "outbox" /\ o # "inbox"
      BY <1>2, <2>2, <3>3 DEF In, Where
    <3> QED
      BY <3>1, <3>2, <3>3
  <2> HIDE DEF p, q
  <2>3. Moves(p, q, "outbox", c, Down(r), "inbox", c, Down(r))
    BY <2>1, <2>2 DEF Moves
  <2> QED
    BY <1>1, <2>3, Moved
<1>14. Quiet'
  BY <1>2 DEF Quiet
<1>15. NotOverloaded'
  BY <1>2, <1>7, ReturnKeepsLoad
<1> QED
  BY <1>7, <1>10, <1>11, <1>12, <1>13, <1>14, <1>15, NextPlaces DEF Inv

(* A request goes to another pipeline.                                     *)
LEMMA ReceiveRequestKeepsInv ==
    ASSUME Inv, setup' = setup, NEW c \in Processes, NEW r \in Kernels,
           ReceiveRequest(c, r), state \in {"started", "stopping"},
           UNCHANGED <<state, job, outstanding, started, open, inside, program, deaths>>
    PROVE  Inv'
<1> DEFINE p == Where
           q == Where'
<1>1. TypeOK /\ Letters /\ Unstarted /\ JobsAreProcesses /\ Books /\ UniquePlace(p) /\ Quiet
  BY DEF Inv
<1>2. /\ Up(r) \in outbox[c]
      /\ outbox' = [outbox EXCEPT ![c] = @ \ {Up(r)}]
      /\ elsewhere' = elsewhere \cup {Up(r)}
      /\ UNCHANGED <<state, job, outstanding, started, open, inside, unborn, answered, deaths,
                     saved, load, inbox, process, done>>
  BY DEF ReceiveRequest, program
<1>3. outbox \in [Processes -> SUBSET Message] /\ elsewhere \subseteq Letter
      /\ elsewhere \subseteq Message
  BY <1>1, Types DEF Letters
<1>4. Up(r) \in Message /\ Up(r) \in Letter
  <2>1. Up(r) \in Message /\ Up(r).phase = "upstream"
    BY Phases
  <2> QED
    BY <2>1 DEF Letter
<1>5. outbox' \in [Processes -> SUBSET Message] /\ elsewhere' \subseteq Letter
      /\ elsewhere' \subseteq Message
  BY <1>2, <1>3, <1>4
<1>6. TypeOK' /\ Letters'
  BY <1>1, <1>2, <1>5 DEF TypeOK, Letters
<1>7. /\ \A d \in Processes : d # c => outbox'[d] = outbox[d]
      /\ outbox'[c] = outbox[c] \ {Up(r)}
  BY <1>2, <1>3
<1>8. Unstarted'
  <2>1. ~(c > started)
    BY <1>2, HasStarted
  <2> QED
    BY <1>1, <1>2, <1>7, <2>1 DEF Unstarted
<1>9. JobsAreProcesses'
  BY <1>1, <1>2 DEF JobsAreProcesses
<1>10. Books'
  <2>1. ASSUME Booked(inbox[c], saved[c], load[c], inside[c], outbox[c], done, setup.main)
        PROVE  Booked(inbox[c], saved[c], load[c], inside[c], outbox'[c], done, setup.main)
    <3>1. HeldIn(inbox[c], saved[c], inside[c], outbox'[c])
          = HeldIn(inbox[c], saved[c], inside[c], outbox[c])
      BY <1>7, Phases DEF HeldIn
    <3> QED
      BY <2>1, <3>1, BookedSame
  <2>2. BookedNow(c) => BookedNow(c)'
    BY <1>2, <2>1 DEF BookedNow
  <2> QED
    BY <1>1, <1>2, <1>7, <2>2, BooksKept
<1>11. UniquePlace(q)
  <2>1. In(p, "outbox", c, Up(r)) /\ ~In(q, "outbox", c, Up(r))
    BY <1>2, <1>7 DEF In, Where
  <2>2. ASSUME NEW o, NEW i, NEW n, In(q, o, i, n)
        PROVE  In(p, o, i, n) \/ (o = "elsewhere" /\ i = 0 /\ n = Up(r))
    <3>1. CASE o = "outbox"
      BY <1>7, <2>2, <3>1 DEF In, Where
    <3>2. CASE o = "elsewhere"
      BY <1>2, <2>2, <3>2 DEF In, Where
    <3>3. CASE o # "outbox" /\ o # "elsewhere"
      BY <1>2, <2>2, <3>3 DEF In, Where
    <3> QED
      BY <3>1, <3>2, <3>3
  <2> HIDE DEF p, q
  <2>3. Moves(p, q, "outbox", c, Up(r), "elsewhere", 0, Up(r))
    BY <2>1, <2>2 DEF Moves
  <2> QED
    BY <1>1, <2>3, Moved
<1>12. Quiet'
  BY <1>2 DEF Quiet
<1> QED
  BY <1>2, <1>6, <1>8, <1>9, <1>10, <1>11, <1>12, LoadSame, NextPlaces DEF Inv

(* An event of a pipe.                                                     *)
LEMMA ReceiveKeepsInv ==
    ASSUME Inv, setup' = setup, NEW c \in Processes, NEW k \in Kernels, Receive(c, k)
    PROVE  Inv'
BY ReceiveTaskKeepsInv, ReceiveResultKeepsInv, ReceiveRequestKeepsInv DEF Receive

(* The pipes hang up.                                                      *)
LEMMA HangUpKeepsInv ==
    ASSUME Inv, setup' = setup, NEW c \in Processes, HangUp(c)
    PROVE  Inv'
<1> DEFINE p == Where
           q == Where'
<1>1. TypeOK /\ Letters /\ Unstarted /\ JobsAreProcesses /\ Books /\ UniquePlace(p) /\ Quiet
  BY DEF Inv
<1>2. /\ process[c] \in {"exited", "reaped"} /\ state \in {"started", "stopping"}
      /\ open' = [open EXCEPT ![c] = FALSE] /\ outbox' = [outbox EXCEPT ![c] = {}]
      /\ UNCHANGED <<state, job, outstanding, started, saved, load, process, inbox, inside,
                     unborn, answered, elsewhere, done, deaths>>
  BY DEF HangUp, program
<1>3. outbox \in [Processes -> SUBSET Message] /\ open \in [Processes -> BOOLEAN]
  BY <1>1, Types
<1>4. outbox' \in [Processes -> SUBSET Message] /\ open' \in [Processes -> BOOLEAN]
  BY <1>2, <1>3
<1>5. TypeOK' /\ Letters'
  BY <1>1, <1>2, <1>4 DEF TypeOK, Letters
<1>6. /\ \A d \in Processes : d # c => outbox'[d] = outbox[d]
      /\ outbox'[c] = {}
  BY <1>2, <1>3
<1>7. Unstarted'
  BY <1>1, <1>2, <1>6 DEF Unstarted
<1>8. JobsAreProcesses'
  BY <1>1, <1>2 DEF JobsAreProcesses
<1>9. Books'
  <2>1. process'[c] \notin {"running", "killed"}
    BY <1>2
  <2> QED
    BY <1>1, <1>2, <1>6, <2>1, BooksKept
<1>10. UniquePlace(q)
  <2>1. ASSUME NEW o, NEW i, NEW n, In(q, o, i, n) PROVE In(p, o, i, n)
    <3>1. CASE o = "outbox"
      BY <1>6, <2>1, <3>1 DEF In, Where
    <3>2. CASE o # "outbox"
      BY <1>2, <2>1, <3>2 DEF In, Where
    <3> QED
      BY <3>1, <3>2
  <2>2. \A o, i, n : In(q, o, i, n) => In(p, o, i, n)
    BY <2>1
  <2> HIDE DEF p, q
  <2> QED
    BY <1>1, <2>2, Fewer
<1>11. Quiet'
  BY <1>2 DEF Quiet
<1> QED
  BY <1>2, <1>5, <1>7, <1>8, <1>9, <1>10, <1>11, LoadSame, NextPlaces DEF Inv

-----------------------------------------------------------------------------
(***************************************************************************)
(* The end of a process, and of the pipeline.                              *)
(***************************************************************************)

(* A process ends.                                                         *)
LEMMA DieKeepsInv ==
    ASSUME Inv, setup' = setup, NEW c \in Processes, process[c] \in {"running", "killed"}, Die(c),
           UNCHANGED <<state, job, outstanding, started, saved, load, open, outbox,
                       unborn, answered, elsewhere, done>>,
           deaths' \in 0..setup.deaths
    PROVE  Inv'
<1> DEFINE p == Where
           q == Where'
<1>1. TypeOK /\ Letters /\ Unstarted /\ JobsAreProcesses /\ Books /\ UniquePlace(p) /\ Quiet
  BY DEF Inv
<1>2. /\ process' = [process EXCEPT ![c] = "exited"]
      /\ inbox' = [inbox EXCEPT ![c] = {}] /\ inside' = [inside EXCEPT ![c] = {}]
  BY DEF Die
<1>3. /\ inbox \in [Processes -> SUBSET Message] /\ inside \in [Processes -> SUBSET Kernels]
      /\ inbox \in [Processes -> SUBSET Letter] /\ process \in [Processes -> States]
      /\ job \in [Apps -> Processes \cup {NoProcess}]
  BY <1>1, Types DEF Letters
<1>4. /\ inbox' \in [Processes -> SUBSET Message] /\ inside' \in [Processes -> SUBSET Kernels]
      /\ inbox' \in [Processes -> SUBSET Letter]
  BY <1>2, <1>3
<1>5. process' \in [Processes -> States]
  BY <1>2, <1>3 DEF States
<1>6. TypeOK' /\ Letters'
  BY <1>1, <1>4, <1>5 DEF TypeOK, Letters, States
<1>7. /\ \A d \in Processes : d # c => /\ inbox'[d] = inbox[d] /\ inside'[d] = inside[d]
                                       /\ process'[d] = process[d]
      /\ inbox'[c] = {} /\ inside'[c] = {} /\ process'[c] = "exited"
  BY <1>2, <1>3
<1>8. Unstarted'
  <2>1. ~(c > started)
    BY HasStarted
  <2> QED
    BY <1>1, <1>7, <2>1 DEF Unstarted
<1>9. JobsAreProcesses'
  <2> SUFFICES ASSUME NEW a \in Apps, job[a] # NoProcess
               PROVE  /\ process'[job[a]] \in {"running", "killed", "exited"}
                      /\ \A b \in Apps : job[b] = job[a] => a = b
    BY DEF JobsAreProcesses
  <2>1. /\ process[job[a]] \in {"running", "killed", "exited"}
        /\ \A b \in Apps : job[b] = job[a] => a = b
    BY <1>1 DEF JobsAreProcesses
  <2>2. job[a] \in Processes
    BY <1>3
  <2> QED
    BY <1>7, <2>1, <2>2
<1>10. Books'
  <2>1. process'[c] \notin {"running", "killed"}
    BY <1>7
  <2> QED
    BY <1>1, <1>7, <2>1, BooksKept
<1>11. UniquePlace(q)
  <2>1. ASSUME NEW o, NEW i, NEW n, In(q, o, i, n) PROVE In(p, o, i, n)
    <3>1. CASE o = "inbox"
      BY <1>7, <2>1, <3>1 DEF In, Where
    <3>2. CASE o = "inside"
      BY <1>7, <2>1, <3>2 DEF In, Where
    <3>3. CASE o # "inbox" /\ o # "inside"
      BY <2>1, <3>3 DEF In, Where
    <3> QED
      BY <3>1, <3>2, <3>3
  <2>2. \A o, i, n : In(q, o, i, n) => In(p, o, i, n)
    BY <2>1
  <2> HIDE DEF p, q
  <2> QED
    BY <1>1, <2>2, Fewer
<1>12. Quiet'
  BY <1>1 DEF Quiet
<1> QED
  BY <1>6, <1>8, <1>9, <1>10, <1>11, <1>12, LoadSame, NextPlaces DEF Inv

(* A process is waited for or removed, and its job given up.               *)
LEMMA GiveUpKeepsInv ==
    ASSUME Inv, setup' = setup, NEW c \in Processes, process[c] # "none",
           state \in {"started", "stopping", "draining"},
           NEW v \in States, process' = [process EXCEPT ![c] = v],
           \/ c \in Jobs(Now) /\ Dropped(c)
           \/ c \notin Jobs(Now) /\ UNCHANGED <<job, saved>>,
           UNCHANGED <<state, outstanding, started, load, open, inbox, inside, outbox,
                       unborn, answered, elsewhere, done>>,
           deaths' \in 0..setup.deaths
    PROVE  Inv'
<1>1. TypeOK /\ Letters /\ Unstarted /\ JobsAreProcesses /\ Books /\ UniquePlace(Where) /\ Quiet
      /\ NotOverloaded
  BY DEF Inv
<1>2. /\ job \in [Apps -> Processes \cup {NoProcess}] /\ saved \in [Processes -> SUBSET Kernels]
      /\ process \in [Processes -> States] /\ load \in [Processes -> Nat]
  BY <1>1, Types
<1>3. Jobs(Now) = JobSet(job) /\ c # NoProcess
  BY ProcessNumbers DEF Jobs, JobSet, Now
<1>4. /\ \A a \in Apps : job'[a] # c /\ (job'[a] # NoProcess => job'[a] = job[a])
      /\ job' \in [Apps -> Processes \cup {NoProcess}]
  <2>1. CASE c \in Jobs(Now) /\ Dropped(c)
    <3>1. job' = [a \in Apps |-> IF job[a] = c THEN NoProcess ELSE job[a]]
      BY <2>1 DEF Dropped
    <3> QED
      BY <1>2, <1>3, <3>1
  <2>2. CASE c \notin Jobs(Now) /\ UNCHANGED <<job, saved>>
    <3>1. \A a \in Apps : job[a] # c
      BY <1>3, <2>2 DEF JobSet
    <3> QED
      BY <1>2, <2>2, <3>1
  <2> QED
    BY <2>1, <2>2
<1>5. saved' \in [Processes -> SUBSET Kernels]
      /\ \A d \in Processes : d # c => saved'[d] = saved[d]
  BY <1>2 DEF Dropped
<1>6. process' \in [Processes -> States] /\ \A d \in Processes : d # c => process'[d] = process[d]
  BY <1>2
<1>7. TypeOK' /\ Letters'
  BY <1>1, <1>4, <1>5, <1>6 DEF TypeOK, Letters, States
<1>8. Unstarted'
  <2>1. ~(c > started)
    BY HasStarted
  <2> QED
    BY <1>1, <1>5, <1>6, <2>1 DEF Unstarted
<1>9. JobsAreProcesses'
  <2> SUFFICES ASSUME NEW a \in Apps, job'[a] # NoProcess
               PROVE  /\ process'[job'[a]] \in {"running", "killed", "exited"}
                      /\ \A b \in Apps : job'[b] = job'[a] => a = b
    BY DEF JobsAreProcesses
  <2>1. job'[a] = job[a] /\ job[a] # c /\ job[a] \in Processes
    BY <1>2, <1>4
  <2>2. /\ process[job[a]] \in {"running", "killed", "exited"}
        /\ \A b \in Apps : job[b] = job[a] => a = b
    BY <1>1, <2>1 DEF JobsAreProcesses
  <2>3. \A b \in Apps : job'[b] = job'[a] => job[b] = job[a]
    BY <1>4, <2>1
  <2> QED
    BY <1>6, <2>1, <2>2, <2>3
<1>10. Books'
  BY <1>1, <1>4, <1>5, <1>6, BooksKept
<1>11. UniquePlace(Where)'
  <2>1. Where' = Where
    BY DEF Where
  <2> QED
    BY <1>1, <2>1, NextPlaces
<1>12. Quiet'
  BY DEF Quiet
<1>13. NotOverloaded'
  <2>1. Total(load, job') <= Total(load, job)
    <3>1. CASE c \in Jobs(Now) /\ Dropped(c)
      <4>1. job' = [a \in Apps |-> IF job[a] = c THEN NoProcess ELSE job[a]] /\ c \in JobSet(job)
        BY <1>3, <3>1 DEF Dropped
      <4> QED
        BY <1>2, <4>1, TotalDrops
    <3>2. CASE c \notin Jobs(Now) /\ UNCHANGED <<job, saved>>
      BY <1>2, <3>2, JobLoads
    <3> QED
      BY <3>1, <3>2
  <2> QED
    BY <1>1, <1>7, <2>1, LoadKept
<1> QED
  BY <1>7, <1>8, <1>9, <1>10, <1>11, <1>12, <1>13 DEF Inv

(* The state of the pipeline changes, and processes may be killed.         *)
LEMMA StateKeepsInv ==
    ASSUME Inv, setup' = setup,
           UNCHANGED <<job, outstanding, started, saved, load, open, inbox, inside, outbox,
                       unborn, answered, elsewhere, done, deaths>>,
           state' \in {"stopping", "draining", "stopped"}, Quiet',
           process' = [c \in Processes |->
                         IF process[c] = "running" THEN process'[c] ELSE process[c]],
           \A c \in Processes : process[c] = "running" => process'[c] \in {"running", "killed"}
    PROVE  Inv'
<1>1. TypeOK /\ Letters /\ Unstarted /\ JobsAreProcesses /\ Books /\ UniquePlace(Where)
  BY DEF Inv
<1>2. process \in [Processes -> States] /\ job \in [Apps -> Processes \cup {NoProcess}]
  BY <1>1, Types
<1>3. \A c \in Processes : \/ process'[c] = process[c]
                           \/ process[c] = "running" /\ process'[c] = "killed"
  OBVIOUS
<1>4. process' \in [Processes -> States]
  <2>1. \A c \in Processes : process'[c] \in States
    BY <1>2, <1>3 DEF States
  <2>2. process' = [c \in Processes |-> process'[c]]
    BY <1>3
  <2> QED
    BY <2>1, <2>2
<1>5. TypeOK' /\ Letters'
  BY <1>1, <1>4 DEF TypeOK, Letters, States
<1>6. Unstarted'
  BY <1>1, <1>3 DEF Unstarted
<1>7. JobsAreProcesses'
  <2> SUFFICES ASSUME NEW a \in Apps, job[a] # NoProcess
               PROVE  /\ process'[job[a]] \in {"running", "killed", "exited"}
                      /\ \A b \in Apps : job[b] = job[a] => a = b
    BY DEF JobsAreProcesses
  <2>1. job[a] \in Processes
    BY <1>2
  <2> QED
    BY <1>1, <1>3, <2>1 DEF JobsAreProcesses
<1>8. Books'
  <2> SUFFICES ASSUME NEW a \in Apps, job[a] # NoProcess, process'[job[a]] \in {"running", "killed"}
               PROVE  Booked(inbox[job[a]], saved[job[a]], load[job[a]],
                             inside[job[a]], outbox[job[a]], done, setup.main)
    BY DEF Books, BookedNow
  <2>1. job[a] \in Processes
    BY <1>2
  <2>2. process[job[a]] \in {"running", "killed"}
    BY <1>3, <2>1
  <2> QED
    BY <1>1, <2>2 DEF Books, BookedNow
<1>9. UniquePlace(Where)'
  <2>1. Where' = Where
    BY DEF Where
  <2> QED
    BY <1>1, <2>1, NextPlaces
<1> QED
  BY <1>5, <1>6, <1>7, <1>8, <1>9, LoadSame DEF Inv

(* The pipeline is cleared when it has no job.                             *)
LEMMA ClearKeepsInv ==
    ASSUME Inv, setup' = setup, Clear
    PROVE  Inv'
<1> DEFINE p == Where
           q == Where'
<1>1. TypeOK /\ Letters /\ Unstarted /\ JobsAreProcesses /\ Books /\ UniquePlace(p) /\ Quiet
  BY DEF Inv
<1>2. /\ state = "stopped" /\ state' = "cleared" /\ outstanding' = <<>>
      /\ saved' = [c \in Processes |-> {}]
      /\ UNCHANGED <<job, started, load, open, process, inbox, inside, outbox,
                     unborn, answered, elsewhere, done, deaths>>
  BY DEF Clear, pipes, program
<1>3. job \in [Apps -> Processes \cup {NoProcess}]
  BY <1>1, Types
<1>4. saved' \in [Processes -> SUBSET Kernels] /\ outstanding' \in Seq(Message)
      /\ outstanding' \in Seq(Letter) /\ \A c \in Processes : saved'[c] = {}
  BY <1>2
<1>5. TypeOK' /\ Letters'
  BY <1>1, <1>2, <1>4 DEF TypeOK, Letters
<1>6. Unstarted'
  BY <1>1, <1>2, <1>4 DEF Unstarted
<1>7. JobsAreProcesses'
  BY <1>1, <1>2 DEF JobsAreProcesses
<1>8. \A a \in Apps : job[a] = NoProcess
  <2> SUFFICES ASSUME NEW a \in Apps, job[a] # NoProcess PROVE FALSE
    OBVIOUS
  <2>1. job[a] \in Processes
    BY <1>3
  <2>2. process[job[a]] \in {"none", "reaped"}
    BY <1>1, <1>2, <2>1 DEF Quiet
  <2> QED
    BY <1>1, <2>2 DEF JobsAreProcesses
<1>9. Books'
  BY <1>2, <1>8 DEF Books
<1>10. UniquePlace(q)
  <2>1. ASSUME NEW o, NEW i, NEW n, In(q, o, i, n) PROVE In(p, o, i, n)
    <3>1. CASE o = "waiting"
      <4>1. i \in 1..Len(<<>>)
        BY <1>2, <2>1, <3>1 DEF In, Where
      <4> QED
        BY <4>1
    <3>2. CASE o # "waiting"
      BY <1>2, <2>1, <3>2 DEF In, Where
    <3> QED
      BY <3>1, <3>2
  <2>2. \A o, i, n : In(q, o, i, n) => In(p, o, i, n)
    BY <2>1
  <2> HIDE DEF p, q
  <2> QED
    BY <1>1, <2>2, Fewer
<1>11. Quiet'
  BY <1>1, <1>2 DEF Quiet
<1> QED
  BY <1>2, <1>5, <1>6, <1>7, <1>9, <1>10, <1>11, LoadSame, NextPlaces DEF Inv

-----------------------------------------------------------------------------
(***************************************************************************)
(* The theorems.                                                           *)
(***************************************************************************)

(* The daemon starts without processes, and every kernel in one place.     *)
LEMMA InitInv ==
    ASSUME Init
    PROVE  Inv
<1>1. setup \in Setup
  BY ProcessAssumption DEF Init
<1>2. setup.tasks \subseteq Tasks /\ setup.deaths \in Nat
  BY <1>1 DEF Setup
<1>3. elsewhere \subseteq Message /\ elsewhere \subseteq Letter
  <2> SUFFICES ASSUME NEW t \in setup.tasks PROVE Up(t) \in Message /\ Up(t) \in Letter
    BY DEF Init
  <2>1. t \in Kernels
    BY <1>2 DEF Kernels
  <2>2. Up(t) \in Message /\ Up(t).phase = "upstream"
    BY <2>1, Phases
  <2> QED
    BY <2>2 DEF Letter
<1>4. TypeOK
  <2>1. 0 \in 0..Cardinality(Processes) /\ 0 \in 0..setup.deaths
    BY <1>2, ProcessNumbers
  <2>2. outstanding \in Seq(Message)
    BY DEF Init
  <2>3. load \in [Processes -> Nat] /\ open \in [Processes -> BOOLEAN]
    BY DEF Init
  <2> QED
    BY <1>3, <2>1, <2>2, <2>3 DEF Init, TypeOK
<1>5. Letters
  BY <1>3 DEF Init, Letters
<1>6. Unstarted
  BY DEF Init, Unstarted
<1>7. JobsAreProcesses /\ Books
  BY DEF Init, JobsAreProcesses, Books
<1>8. UniquePlace(Where)
  <2> SUFFICES ASSUME NEW o, NEW i, NEW m, NEW o2, NEW i2, NEW m2,
                      In(Where, o, i, m), In(Where, o2, i2, m2), m.kernel = m2.kernel
               PROVE  o = o2 /\ i = i2 /\ m = m2
    BY DEF UniquePlace
  <2>1. ASSUME NEW a, NEW b, NEW n, In(Where, a, b, n)
        PROVE  \/ a = "elsewhere" /\ b = 0 /\ \E t \in Tasks : n = Up(t)
               \/ a = "unborn" /\ b = 0 /\ \E r \in Requests : n = Up(r)
    <3>1. CASE a = "elsewhere"
      <4>1. n \in elsewhere /\ b = 0
        BY <2>1, <3>1 DEF In, Where
      <4>2. \E t \in setup.tasks : n = Up(t)
        BY <4>1 DEF Init
      <4> QED
        BY <1>2, <3>1, <4>1, <4>2
    <3>2. CASE a = "unborn"
      BY <2>1, <3>2 DEF In, Where, Init
    <3>3. CASE a = "turn"
      BY <2>1, <3>3 DEF In, Where
    <3>4. CASE a = "waiting"
      BY <2>1, <3>4 DEF In, Where, Init
    <3>5. CASE a \in {"inbox", "inside", "outbox"}
      BY <2>1, <3>5 DEF In, Where, Init
    <3>6. a \in {"elsewhere", "unborn", "turn", "waiting", "inbox", "inside", "outbox"}
      BY <2>1 DEF In
    <3> QED
      BY <3>1, <3>2, <3>3, <3>4, <3>5, <3>6
  <2>2. Tasks \cap Requests = {}
    BY ProcessAssumption
  <2>3. m = Up(m.kernel) /\ m2 = Up(m2.kernel)
    BY <2>1, Phases
  <2>4. (o = "elsewhere" => m.kernel \in Tasks) /\ (o = "unborn" => m.kernel \in Requests)
    BY <2>1, Phases
  <2>5. (o2 = "elsewhere" => m2.kernel \in Tasks) /\ (o2 = "unborn" => m2.kernel \in Requests)
    BY <2>1, Phases
  <2>6. (o = "elsewhere" \/ o = "unborn") /\ i = 0 /\ (o2 = "elsewhere" \/ o2 = "unborn") /\ i2 = 0
    BY <2>1
  <2> QED
    BY <2>2, <2>3, <2>4, <2>5, <2>6
<1>9. Quiet
  BY DEF Init, Quiet
<1>10. NotOverloaded
  <2>1. JobSet(job) = {}
    BY DEF Init, JobSet
  <2>2. Total(load, job) = 0
    BY <2>1, SumEmpty DEF Total
  <2>3. TotalLoad(Now) = 0
    BY <1>4, <1>5, <2>2, NowIsMachine
  <2> QED
    BY <2>3, ProcessAssumption DEF NotOverloaded
<1> QED
  BY <1>4, <1>5, <1>6, <1>7, <1>8, <1>9, <1>10 DEF Inv

(* Every step keeps the invariant.                                         *)
LEMMA NextInv ==
    ASSUME Inv, [Next /\ UNCHANGED setup]_<<setup, vars>>
    PROVE  Inv'
<1>1. TypeOK
  BY DEF Inv
<1>2. deaths \in 0..setup.deaths /\ setup.deaths \in Nat
  BY <1>1, Types DEF TypeOK, Setup
<1>3. CASE UNCHANGED <<setup, vars>>
  <2>1. UNCHANGED <<setup, state, job, outstanding, started, saved, load, open, process, inbox,
                    inside, outbox, unborn, answered, elsewhere, done, deaths>>
    BY <1>3 DEF vars, handlers, pipes, program
  <2>2. TypeOK' /\ Letters'
    BY <2>1 DEF Inv, TypeOK, Letters
  <2>3. Unstarted' /\ JobsAreProcesses' /\ Quiet'
    BY <2>1 DEF Inv, Unstarted, JobsAreProcesses, Quiet
  <2>4. Books'
    BY <2>1 DEF Inv, Books, BookedNow
  <2>5. UniquePlace(Where)'
    <3>1. Where' = Where
      BY <2>1 DEF Where
    <3> QED
      BY <3>1, NextPlaces DEF Inv
  <2> QED
    BY <2>1, <2>2, <2>3, <2>4, <2>5, LoadSame DEF Inv
<1> SUFFICES ASSUME Next, setup' = setup PROVE Inv'
  BY <1>3
<1>4. CASE \E m \in elsewhere : Forward(m)
  BY <1>4, ForwardKeepsInv
<1>5. CASE ProcessKernels
  BY <1>5, ProcessKernelsKeepsInv
<1>6. CASE \E c \in Processes : \E m \in inbox[c] : Read(c, m)
  BY <1>6, ReadKeepsInv
<1>7. CASE \E c \in Processes, r \in Requests : Create(c, r)
  BY <1>7, CreateKeepsInv
<1>8. CASE \E c \in Processes : \E k \in inside[c] : Finish(c, k)
  BY <1>8, FinishKeepsInv
<1>9. CASE \E r \in Requests : ExecuteElsewhere(r)
  BY <1>9, ExecuteElsewhereKeepsInv
<1>10. CASE \E c \in Processes, k \in Kernels : Receive(c, k)
  BY <1>10, ReceiveKeepsInv
<1>11. CASE \E c \in Processes : HangUp(c)
  BY <1>11, HangUpKeepsInv
<1>12. ASSUME NEW c \in Processes, Exit(c) PROVE Inv'
  <2>1. /\ process[c] \in {"running", "killed"} /\ Die(c)
        /\ UNCHANGED <<state, job, outstanding, started, saved, load, open, outbox,
                       unborn, answered, elsewhere, done>>
        /\ deaths' \in 0..setup.deaths
    BY <1>2, <1>12 DEF Exit, handlers, program
  <2> QED
    BY <2>1, DieKeepsInv
<1>13. ASSUME NEW c \in Processes, Crash(c) PROVE Inv'
  <2>1. /\ process[c] \in {"running", "killed"} /\ Die(c)
        /\ UNCHANGED <<state, job, outstanding, started, saved, load, open, outbox,
                       unborn, answered, elsewhere, done>>
        /\ deaths' \in 0..setup.deaths
    BY <1>2, <1>13 DEF Crash, handlers, program
  <2> QED
    BY <2>1, DieKeepsInv
<1>14. ASSUME NEW c \in Processes, Reap(c) PROVE Inv'
  <2>1. /\ process[c] # "none" /\ state \in {"started", "stopping", "draining"}
        /\ process' = [process EXCEPT ![c] = "reaped"] /\ "reaped" \in States
        /\ \/ c \in Jobs(Now) /\ Dropped(c)
           \/ c \notin Jobs(Now) /\ UNCHANGED <<job, saved>>
        /\ UNCHANGED <<state, outstanding, started, load, open, inbox, inside, outbox,
                       unborn, answered, elsewhere, done>>
        /\ deaths' \in 0..setup.deaths
    BY <1>2, <1>14 DEF Reap, pipes, program, States
  <2> QED
    BY <2>1, GiveUpKeepsInv
<1>15. ASSUME NEW c \in Processes, RemoveJob(c) PROVE Inv'
  <2> DEFINE v == IF process[c] = "running" THEN "killed" ELSE process[c]
  <2>1. process[c] # "none"
    <3>1. c \in {job[a] : a \in Apps}
      BY <1>15 DEF RemoveJob, Jobs, Now
    <3>2. PICK a \in Apps : job[a] = c
      BY <3>1
    <3>3. c # NoProcess
      BY ProcessNumbers
    <3> QED
      BY <3>2, <3>3 DEF Inv, JobsAreProcesses
  <2>2. v \in States /\ process' = [process EXCEPT ![c] = v]
    BY <1>1, <1>15, Types DEF RemoveJob, States
  <2>3. /\ state \in {"started", "stopping", "draining"}
        /\ c \in Jobs(Now) /\ Dropped(c)
        /\ UNCHANGED <<state, outstanding, started, load, open, inbox, inside, outbox,
                       unborn, answered, elsewhere, done>>
        /\ deaths' \in 0..setup.deaths
    BY <1>2, <1>15 DEF RemoveJob, pipes, program
  <2> HIDE DEF v
  <2> QED
    BY <2>1, <2>2, <2>3, GiveUpKeepsInv
<1>16. process = [c \in Processes |-> process[c]]
  BY <1>1, Types
<1>17. CASE Stop
  <2>1. /\ UNCHANGED <<job, outstanding, started, saved, load, open, process, inbox, inside, outbox,
                       unborn, answered, elsewhere, done, deaths>>
        /\ state' = "stopping"
    BY <1>17 DEF Stop, handlers, pipes, program
  <2>2. Quiet'
    BY <2>1 DEF Quiet
  <2>3. process' = [c \in Processes |-> IF process[c] = "running" THEN process'[c] ELSE process[c]]
    BY <1>16, <2>1
  <2> QED
    BY <2>1, <2>2, <2>3, StateKeepsInv
<1>18. CASE LoopExit
  <2>1. /\ UNCHANGED <<job, outstanding, started, saved, load, open, inbox, inside, outbox,
                       unborn, answered, elsewhere, done, deaths>>
        /\ state' = "draining"
        /\ process' = [c \in Processes |-> IF process[c] = "running" THEN "killed" ELSE process[c]]
    BY <1>18 DEF LoopExit, handlers, pipes, program
  <2>2. Quiet'
    BY <2>1 DEF Quiet
  <2>3. \A c \in Processes : process[c] = "running" => process'[c] = "killed"
    BY <2>1
  <2>4. process' = [c \in Processes |-> IF process[c] = "running" THEN process'[c] ELSE process[c]]
    BY <2>1, <2>3
  <2> QED
    BY <2>1, <2>2, <2>3, <2>4, StateKeepsInv
<1>19. CASE Join
  <2>1. /\ UNCHANGED <<job, outstanding, started, saved, load, open, process, inbox, inside, outbox,
                       unborn, answered, elsewhere, done, deaths>>
        /\ state' = "stopped" /\ \A c \in Processes : process[c] \in {"none", "reaped"}
    BY <1>19 DEF Join, handlers, pipes, program
  <2>2. Quiet'
    BY <2>1 DEF Quiet
  <2>3. process' = [c \in Processes |-> IF process[c] = "running" THEN process'[c] ELSE process[c]]
    BY <1>16, <2>1
  <2> QED
    BY <2>1, <2>2, <2>3, StateKeepsInv
<1>20. CASE Clear
  BY <1>20, ClearKeepsInv
<1> QED
  BY <1>4, <1>5, <1>6, <1>7, <1>8, <1>9, <1>10, <1>11, <1>12, <1>13, <1>14, <1>15,
     <1>17, <1>18, <1>19, <1>20 DEF Next

(* The invariant of the process pipeline.                                  *)
THEOREM InvInvariance == Spec => []Inv
<1>1. Init => Inv
  BY InitInv
<1>2. Inv /\ [Next /\ UNCHANGED setup]_<<setup, vars>> => Inv'
  BY NextInv
<1> QED
  BY <1>1, <1>2, PTL DEF Spec

(* Every variable keeps its type, whatever the applications do.            *)
THEOREM TypeCorrect == Spec => []TypeOK
<1>1. Inv => TypeOK
  BY DEF Inv
<1> QED
  BY <1>1, InvInvariance, PTL

(* An application has one job (_jobs), which is a process that was not     *)
(* waited for.                                                             *)
THEOREM OneJobPerApplication == Spec => []JobsAreProcesses
<1>1. Inv => JobsAreProcesses
  BY DEF Inv
<1> QED
  BY <1>1, InvInvariance, PTL

(* Interleaved processes never get more threads than there are, although   *)
(* process_kernels reads the load once per turn.                           *)
THEOREM NeverOverloaded == Spec => []NotOverloaded
<1>1. Inv => NotOverloaded
  BY DEF Inv
<1> QED
  BY <1>1, InvInvariance, PTL

(* The load and the saved kernels of a handler are those of its process.   *)
THEOREM HandlersAreExact == Spec => []HandlerExact
<1>1. Inv => HandlerExact
  <2> SUFFICES ASSUME Inv, NEW c \in Jobs(Now), Alive(c)
               PROVE  /\ load[c] = FoldSet(LAMBDA k, sum : sum + Weight[k], 0, Held(c))
                      /\ saved[c] = Held(c) \cup (saved[c] \cap setup.main \cap done)
    BY DEF HandlerExact
  <2>1. PICK a \in Apps : job[a] = c /\ c # NoProcess
    BY DEF Jobs, Now
  <2>2. BookedNow(c)
    BY <2>1 DEF Inv, Books, Alive
  <2>3. Held(c) = HeldIn(inbox[c], saved[c], inside[c], outbox[c])
    BY DEF Held, HeldIn
  <2>4. /\ load[c] = SumOver(Weight, Held(c))
        /\ saved[c] = Held(c) \cup (saved[c] \cap setup.main \cap done)
    BY <2>2, <2>3 DEF BookedNow, Booked
  <2>5. SumOver(Weight, Held(c)) = FoldSet(LAMBDA k, sum : sum + Weight[k], 0, Held(c))
    BY DEF SumOver
  <2> QED
    BY <2>4, <2>5
<1> QED
  BY <1>1, InvInvariance, PTL
=============================================================================
