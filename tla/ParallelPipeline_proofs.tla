----------------------- MODULE ParallelPipeline_proofs -----------------------
(***************************************************************************)
(* Proofs about ParallelPipeline for any tree of kernels, any number of    *)
(* threads and any hash of the principals.                                 *)
(***************************************************************************)
EXTENDS ParallelPipeline, SetLemmas

-----------------------------------------------------------------------------
(* SetToSeq lists a finite set without repetition.                         *)
LEMMA SetToSeqProperty ==
    ASSUME NEW S, IsFiniteSet(S)
    PROVE  /\ SetToSeq(S) \in Seq(S)
           /\ Range(SetToSeq(S)) = S
           /\ IsInjective(SetToSeq(S))
           /\ Len(SetToSeq(S)) = Cardinality(S)
<1> DEFINE n == Cardinality(S)
           s == SetToSeq(S)
<1>1. n \in Nat /\ ExistsBijection(1..n, S)
  BY FS_CardinalityType
<1>2. PICK f : f \in Bijection(1..n, S)
  BY <1>1, Fun_ExistsBij
<1>3. f \in [1..n -> S] /\ \A a, b \in 1..n : f[a] = f[b] => a = b
  BY <1>2, Fun_BijectionProperties
<1>4. \E g \in [1..n -> S] : IsInjective(g)
  BY <1>3 DEF IsInjective
<1>5. s \in [1..n -> S] /\ IsInjective(s)
  BY <1>4 DEF SetToSeq
<1>6. s \in Injection(1..n, S)
  BY <1>5, Fun_IsInj DEF IsInjective
<1>7. s \in Surjection(1..n, S)
  BY <1>1, <1>6, FS_Interval, FS_Injection
<1>8. Range(s) = S
  BY <1>7, Fun_SurjectionProperties
<1> HIDE DEF s
<1>9. s \in Seq(S) /\ Len(s) = n
  BY <1>1, <1>5
<1> QED
  BY <1>5, <1>8, <1>9 DEF s

-----------------------------------------------------------------------------
(***************************************************************************)
(* The threads.                                                            *)
(***************************************************************************)
Busy(t) == pc[t] \in {"act", "react"}

(* A thread holds a kernel only while it executes one, reacts run on the   *)
(* threads that have a slot, and the thread of a new_thread kernel appears *)
(* with the kernel.  Nothing runs after the threads have been joined.      *)
ThreadsOK ==
    /\ \A t \in Threads : Busy(t) <=> job[t] # NoKernel
    /\ \A t \in Threads : pc[t] = "react" => t \in Slots
    /\ \A t \in NewThread : /\ pc[t] \in {"none", "act", "exited"}
                            /\ t \in unsent[ParentOf[t]] => pc[t] = "none"
    /\ \A t \in (UNION Layouts) \ downThreads : pc[t] = "none"
    /\ state \in {"stopped", "cleared"} => \A t \in Threads : pc[t] \in {"none", "exited"}

(* A notification changes the state of waiting threads only.               *)
Woken(t) == IF t = Timer THEN "woken" ELSE "check"

OnlyWakes(q, r) ==
    /\ r \in [Threads -> PCs]
    /\ \A t \in Threads : r[t] = q[t] \/ (q[t] = "waiting" /\ r[t] = Woken(t))

(* notify_one and notify_all move no thread that is not waiting.           *)
LEMMA NotifyWakes ==
    ASSUME NEW T, T \subseteq Threads, NEW q \in [Threads -> PCs], NEW r
    PROVE  /\ NotifyOne(T, q, r) => OnlyWakes(q, r)
           /\ r = NotifyAll(T, q) => OnlyWakes(q, r)
<1>1. ASSUME NotifyOne(T, q, r) PROVE OnlyWakes(q, r)
  <2>1. CASE r = q
    BY <2>1 DEF OnlyWakes
  <2>2. ASSUME NEW t \in Waiting(T, q), r = [q EXCEPT ![t] = Woken(t)]
        PROVE  OnlyWakes(q, r)
    BY <2>2 DEF OnlyWakes, Waiting, Woken, PCs
  <2> QED
    BY <1>1, <2>1, <2>2 DEF NotifyOne, Woken
<1>2. ASSUME r = NotifyAll(T, q) PROVE OnlyWakes(q, r)
  BY <1>2 DEF OnlyWakes, NotifyAll, Waiting, Woken, PCs
<1> QED
  BY <1>1, <1>2

(* A thread that is notified alone does not go on waiting.                 *)
LEMMA NotifiesOne ==
    ASSUME NEW t \in Threads, NEW q \in [Threads -> PCs], NEW r, NotifyOne({t}, q, r)
    PROVE  r[t] # "waiting"
<1>1. CASE Waiting({t}, q) = {}
  BY <1>1 DEF NotifyOne, Waiting
<1>2. CASE Waiting({t}, q) # {}
  <2>1. r = [q EXCEPT ![t] = IF t = Timer THEN "woken" ELSE "check"]
    BY <1>2 DEF NotifyOne, Waiting
  <2> QED
    BY <2>1
<1> QED
  BY <1>1, <1>2

(* Where the code sends kernels, and what it wakes for them.               *)
LEMMA SlotType ==
    ASSUME TypeOK, NEW p \in Kernels \cup {NoKernel}
    PROVE  SlotOf(p) \in Slots
BY PipelineAssumption DEF TypeOK, SlotOf, Slots

(* The pools of threads: which of them may overlap and which may not.      *)
LEMMA ThreadSets ==
    ASSUME TypeOK
    PROVE  /\ UpThreads \subseteq Threads /\ Slots \subseteq Threads /\ Timer \in Threads
           /\ PoolThreads \subseteq Threads /\ NewThread \subseteq Threads
           /\ NewThread \cap PoolThreads = {} /\ downThreads \subseteq UNION Layouts
           /\ Timer \notin Slots
BY PipelineAssumption DEF TypeOK, Threads, AllThreads, Slots, SlotsIn, PoolThreads

(* send_downstream() puts the kernel into a slot there is and wakes        *)
(* threads, nothing else.                                                  *)
LEMMA DownstreamWakes ==
    ASSUME TypeOK, NEW k \in Kernels, NEW after \in [Threads -> PCs], SendDownstream(k, after)
    PROVE  /\ SlotOf(ParentOf[k]) \in Slots
           /\ downstream' = [downstream EXCEPT ![SlotOf(ParentOf[k])] = Append(@, k)]
           /\ downstream' \in [Slots -> Seq(Kernels)]
           /\ OnlyWakes(after, pc')
<1>1. ParentOf[k] \in Kernels \cup {NoKernel}
  BY PipelineAssumption
<1>2. SlotOf(ParentOf[k]) \in Slots
  BY <1>1, SlotType
<1>3. downstream' = [downstream EXCEPT ![SlotOf(ParentOf[k])] = Append(@, k)]
  BY DEF SendDownstream
<1>4. Append(downstream[SlotOf(ParentOf[k])], k) \in Seq(Kernels)
  BY <1>2 DEF TypeOK
<1>5. downstream' \in [Slots -> Seq(Kernels)]
  BY <1>2, <1>3, <1>4 DEF TypeOK
<1>6. WakeForDownstream(SlotOf(ParentOf[k]), after, pc')
  BY DEF SendDownstream
<1>7. OnlyWakes(after, pc')
  <2>1. UpThreads \subseteq Threads /\ {SlotOf(ParentOf[k])} \subseteq Threads
    BY <1>2, ThreadSets
  <2> QED
    BY <1>6, <2>1, NotifyWakes DEF WakeForDownstream
<1> QED
  BY <1>2, <1>3, <1>5, <1>7

(* One kernel is sent upstream, to the timer or to a thread of its own.    *)
LEMMA SendOneCases ==
    ASSUME TypeOK, NEW k \in Kernels, SendOne(k)
    PROVE  \/ /\ k \in Scheduled
              /\ timer' = timer \cup {k} /\ UNCHANGED <<upstream, job>>
              /\ OnlyWakes(pc, pc') /\ pc'[Timer] # "waiting"
           \/ /\ k \in NewThread \ Scheduled
              /\ pc' = [pc EXCEPT ![k] = "act"]
              /\ job' = [job EXCEPT ![k] = k] /\ UNCHANGED <<upstream, timer>>
           \/ /\ k \notin Scheduled \cup NewThread
              /\ upstream' = Append(upstream, k) /\ UNCHANGED <<timer, job>>
              /\ NotifyOne(UpThreads, pc, pc')
              /\ OnlyWakes(pc, pc')
<1>1. pc \in [Threads -> PCs]
  BY DEF TypeOK
<1>2. NotifyOne(UpThreads, pc, pc') => OnlyWakes(pc, pc')
  BY <1>1, ThreadSets, NotifyWakes
<1>3. NotifyOne({Timer}, pc, pc') => OnlyWakes(pc, pc')
  BY <1>1, ThreadSets, NotifyWakes
<1>4. CASE k \in Scheduled
  <2>1. timer' = timer \cup {k} /\ NotifyOne({Timer}, pc, pc') /\ UNCHANGED <<upstream, job>>
    BY <1>4, PipelineAssumption DEF SendOne, WakeForTimer
  <2>2. pc'[Timer] # "waiting"
    BY <1>1, <2>1, ThreadSets, NotifiesOne
  <2> QED
    BY <1>3, <1>4, <2>1, <2>2
<1>5. CASE k \in NewThread
  BY <1>5, PipelineAssumption DEF SendOne
<1>6. CASE k \notin Scheduled \cup NewThread
  BY <1>2, <1>6 DEF SendOne, WakeForUpstream
<1> QED
  BY <1>4, <1>5, <1>6

(* The kernels of an array are sent together.                              *)
Plain(S) == S \ (Scheduled \cup NewThread)
Spawned(S) == [t \in Threads |-> IF t \in S \cap NewThread THEN "act" ELSE pc[t]]

(* What send() of an array leaves behind: where the kernels are, which     *)
(* threads run, and that nobody who was notified goes on waiting.          *)
LEMMA SendArrayCases ==
    ASSUME TypeOK, NEW S \in SUBSET Kernels, SendArray(S)
    PROVE  /\ timer' = timer \cup (S \cap Scheduled)
           /\ upstream' = upstream \o SetToSeq(Plain(S))
           /\ SetToSeq(Plain(S)) \in Seq(Kernels)
           /\ Range(SetToSeq(Plain(S))) = Plain(S)
           /\ IsInjective(SetToSeq(Plain(S)))
           /\ Len(SetToSeq(Plain(S))) = Cardinality(Plain(S))
           /\ job' = [t \in Threads |-> IF t \in S \cap NewThread THEN t ELSE job[t]]
           /\ Spawned(S) \in [Threads -> PCs]
           /\ OnlyWakes(Spawned(S), pc')
           /\ (Plain(S) # {} => \A t \in UpThreads : pc'[t] # "waiting")
           /\ (S \cap Scheduled # {} => pc'[Timer] # "waiting")
<1> DEFINE notified == IF Plain(S) = {} THEN Spawned(S) ELSE NotifyAll(UpThreads, Spawned(S))
<1>1. /\ timer' = timer \cup (S \cap Scheduled)
      /\ upstream' = upstream \o SetToSeq(Plain(S))
      /\ job' = [t \in Threads |-> IF t \in S \cap NewThread THEN t ELSE job[t]]
      /\ IF S \cap Scheduled = {} THEN pc' = notified ELSE NotifyOne({Timer}, notified, pc')
  BY DEF SendArray, Plain, Spawned, WakeForTimer
<1>2. IsFiniteSet(Plain(S)) /\ Plain(S) \subseteq Kernels
  <2>1. Plain(S) \in SUBSET Kernels
    BY DEF Plain
  <2> QED
    BY <2>1, FS_Subset, PipelineAssumption
<1>3. /\ SetToSeq(Plain(S)) \in Seq(Plain(S))
      /\ Range(SetToSeq(Plain(S))) = Plain(S)
      /\ IsInjective(SetToSeq(Plain(S)))
      /\ Len(SetToSeq(Plain(S))) = Cardinality(Plain(S))
  BY <1>2, SetToSeqProperty
<1>4. SetToSeq(Plain(S)) \in Seq(Kernels)
  BY <1>2, <1>3, SeqMonotonic
<1>5. Spawned(S) \in [Threads -> PCs]
  BY DEF Spawned, TypeOK, PCs
<1>6. OnlyWakes(Spawned(S), notified)
  <2>1. OnlyWakes(Spawned(S), Spawned(S))
    BY <1>5 DEF OnlyWakes
  <2>2. OnlyWakes(Spawned(S), NotifyAll(UpThreads, Spawned(S)))
    BY <1>5, ThreadSets, NotifyWakes
  <2> QED
    BY <2>1, <2>2
<1>7. Plain(S) # {} => \A t \in UpThreads : notified[t] # "waiting"
  BY ThreadSets DEF NotifyAll, Waiting
<1> HIDE DEF notified
<1>8. OnlyWakes(notified, pc')
  <2>1. notified \in [Threads -> PCs]
    BY <1>6 DEF OnlyWakes
  <2>2. NotifyOne({Timer}, notified, pc') => OnlyWakes(notified, pc')
    BY <2>1, ThreadSets, NotifyWakes
  <2>3. pc' = notified => OnlyWakes(notified, pc')
    BY <2>1 DEF OnlyWakes
  <2> QED
    BY <1>1, <2>2, <2>3
<1>9. OnlyWakes(Spawned(S), pc')
  BY <1>6, <1>8 DEF OnlyWakes, Woken
<1>10. Plain(S) # {} => \A t \in UpThreads : pc'[t] # "waiting"
  BY <1>7, <1>8, ThreadSets DEF OnlyWakes, Woken
<1>11. S \cap Scheduled # {} => pc'[Timer] # "waiting"
  <2>1. notified \in [Threads -> PCs]
    BY <1>6 DEF OnlyWakes
  <2> QED
    BY <1>1, <2>1, ThreadSets, NotifiesOne
<1> QED
  BY <1>1, <1>3, <1>4, <1>5, <1>9, <1>10, <1>11

(* What a step of thread t may do to the other threads is to wake them.    *)
Others(t) ==
    \A u \in Threads \ {t} :
        /\ job'[u] = job[u]
        /\ pc'[u] = pc[u] \/ (pc[u] = "waiting" /\ pc'[u] = Woken(u))

FreshShrinks ==
    \A k \in Kernels : k \in unsent'[ParentOf[k]] => k \in unsent[ParentOf[k]]

(* If one thread moves by the rules and the others are only woken, the     *)
(* rules for threads hold in the next state.                               *)
LEMMA ThreadsKept ==
    ASSUME TypeOK, ThreadsOK, UNCHANGED downThreads, FreshShrinks,
           NEW t \in Threads, Others(t),
           Busy(t)' <=> job'[t] # NoKernel,
           pc'[t] = "react" => t \in Slots,
           t \in NewThread => /\ pc'[t] \in {"none", "act", "exited"}
                              /\ t \in unsent'[ParentOf[t]] => pc'[t] = "none",
           t \in (UNION Layouts) \ downThreads => pc'[t] = "none",
           state' \in {"stopped", "cleared"} =>
               state \in {"stopped", "cleared"} /\ pc'[t] \in {"none", "exited"}
    PROVE  ThreadsOK'
<1>1. ASSUME NEW u \in Threads, u # t
      PROVE  /\ job'[u] = job[u]
             /\ pc'[u] = pc[u] \/ (pc[u] = "waiting" /\ pc'[u] \in {"woken", "check"})
  BY <1>1 DEF Others, Woken
<1>2. ASSUME NEW u \in Threads PROVE Busy(u)' <=> job'[u] # NoKernel
  BY <1>1 DEF Busy, ThreadsOK
<1>3. ASSUME NEW u \in Threads, pc'[u] = "react" PROVE u \in Slots'
  BY <1>1, <1>3 DEF ThreadsOK, Slots
<1>4. ASSUME NEW u \in NewThread
      PROVE  /\ pc'[u] \in {"none", "act", "exited"}
             /\ u \in unsent'[ParentOf[u]] => pc'[u] = "none"
  <2>1. u \in Threads /\ u \in Kernels
    BY ThreadSets, PipelineAssumption
  <2> QED
    BY <1>1, <2>1 DEF ThreadsOK, FreshShrinks
<1>5. ASSUME NEW u \in (UNION Layouts) \ downThreads PROVE pc'[u] = "none"
  <2>1. u \in Threads
    BY DEF Threads, AllThreads
  <2> QED
    BY <1>1, <2>1 DEF ThreadsOK
<1>6. ASSUME state' \in {"stopped", "cleared"}, NEW u \in Threads
      PROVE  pc'[u] \in {"none", "exited"}
  BY <1>1, <1>6 DEF ThreadsOK
<1> QED
  BY <1>2, <1>3, <1>4, <1>5, <1>6 DEF ThreadsOK

(* A thread that has executed its kernel is free again, or has ended.      *)
LEMMA ReleasedThread ==
    ASSUME TypeOK, ThreadsOK, NEW t \in Threads, Busy(t), Free(t),
           OnlyWakes(Released(t), pc')
    PROVE  /\ Released(t) \in [Threads -> PCs]
           /\ pc' \in [Threads -> PCs] /\ job' \in [Threads -> Kernels \cup {NoKernel}]
           /\ job'[t] = NoKernel /\ pc'[t] \in {"check", "exited"}
           /\ t \in NewThread => pc'[t] = "exited"
           /\ t \notin (UNION Layouts) \ downThreads
           /\ Others(t)
<1>1. Released(t) \in [Threads -> PCs]
  BY DEF Released, TypeOK, PCs
<1>2. /\ Released(t)[t] = IF t \in PoolThreads THEN "check" ELSE "exited"
      /\ \A u \in Threads \ {t} : Released(t)[u] = pc[u]
  BY DEF Released, TypeOK
<1>3. job' = [job EXCEPT ![t] = NoKernel]
  BY DEF Free
<1>4. job' \in [Threads -> Kernels \cup {NoKernel}] /\ job'[t] = NoKernel
      /\ \A u \in Threads \ {t} : job'[u] = job[u]
  BY <1>3 DEF TypeOK
<1>5. t \notin (UNION Layouts) \ downThreads
  BY DEF ThreadsOK, Busy
<1>6. pc' \in [Threads -> PCs] /\ pc'[t] = Released(t)[t]
  BY <1>2 DEF OnlyWakes
<1>7. Others(t)
  BY <1>2, <1>4 DEF Others, OnlyWakes
<1>8. t \in NewThread => pc'[t] = "exited"
  BY <1>2, <1>6, ThreadSets
<1> QED
  BY <1>1, <1>2, <1>4, <1>5, <1>6, <1>7, <1>8

(* Releasing a thread without sending anything is the simplest case.       *)
LEMMA ReleasedQuietly ==
    ASSUME TypeOK, NEW t \in Threads
    PROVE  OnlyWakes(Released(t), Released(t))
BY DEF Released, OnlyWakes, TypeOK, PCs

-----------------------------------------------------------------------------
(***************************************************************************)
(* Every step keeps the types and what the threads may be doing.           *)
(***************************************************************************)

(* A kernel's children are sent by it and come back to it.                 *)
Family ==
    \A p \in Kernels \cup {NoKernel} :
        unsent[p] \subseteq Children(p) /\ collected[p] \subseteq Children(p)

TypeInv == TypeOK /\ ThreadsOK /\ Family

(* Sending one kernel, from outside or from act(), keeps the types.        *)
LEMMA SendOneType ==
    ASSUME TypeInv, UNCHANGED downThreads, NEW p \in Kernels \cup {NoKernel},
           NEW k \in unsent[p], SendOne(k),
           k \in NewThread => state \notin {"stopped", "cleared"},
           unsent' = [unsent EXCEPT ![p] = @ \ {k}],
           UNCHANGED <<state, downstream, failed, alarm, now, collected, identified, discarded>>
    PROVE  TypeOK' /\ ThreadsOK'
<1>1. k \in Kernels /\ ParentOf[k] = p
  BY DEF TypeInv, Family, Children
<1>2. /\ unsent' \in [Kernels \cup {NoKernel} -> SUBSET Kernels] /\ FreshShrinks
      /\ k \notin unsent'[ParentOf[k]]
  BY <1>1 DEF TypeInv, TypeOK, FreshShrinks
<1>3. Slots' = Slots /\ Timer \in Threads
  BY ThreadSets DEF Slots, TypeInv
<1>4. CASE k \in Scheduled /\ timer' = timer \cup {k} /\ UNCHANGED <<upstream, job>>
           /\ OnlyWakes(pc, pc')
  <2>1. TypeOK'
    BY <1>2, <1>3, <1>4 DEF TypeInv, TypeOK, OnlyWakes
  <2>2. Others(Timer) /\ job'[Timer] = job[Timer]
        /\ (pc'[Timer] = pc[Timer] \/ (pc[Timer] = "waiting" /\ pc'[Timer] = "woken"))
    BY <1>3, <1>4 DEF Others, OnlyWakes, Woken
  <2>3. ThreadsOK'
    <3>1. Timer \notin NewThread /\ Timer \notin UNION Layouts
      BY PipelineAssumption DEF AllThreads
    <3> QED
      BY <1>2, <1>3, <2>2, <3>1, ThreadsKept DEF TypeInv, ThreadsOK, Busy
  <2> QED
    BY <2>1, <2>3
<1>5. CASE k \in NewThread \ Scheduled /\ pc' = [pc EXCEPT ![k] = "act"]
           /\ job' = [job EXCEPT ![k] = k] /\ UNCHANGED <<upstream, timer>>
  <2>1. k \in Threads /\ k \notin UNION Layouts
    BY <1>5, ThreadSets, PipelineAssumption DEF TypeInv, AllThreads
  <2>2. pc' \in [Threads -> PCs] /\ job' \in [Threads -> Kernels \cup {NoKernel}]
    BY <1>1, <1>5 DEF TypeInv, TypeOK, PCs
  <2>3. pc'[k] = "act" /\ job'[k] = k /\ Others(k)
    BY <1>5, <2>1 DEF TypeInv, TypeOK, Others
  <2>4. TypeOK'
    BY <1>2, <1>3, <1>5, <2>2 DEF TypeInv, TypeOK
  <2>5. ThreadsOK'
    BY <1>1, <1>2, <1>5, <2>1, <2>3, ThreadsKept, PipelineAssumption DEF TypeInv, Busy
  <2> QED
    BY <2>4, <2>5
<1>6. CASE k \notin Scheduled \cup NewThread /\ upstream' = Append(upstream, k)
           /\ UNCHANGED <<timer, job>> /\ OnlyWakes(pc, pc')
  <2>1. upstream' \in Seq(Kernels)
    BY <1>1, <1>6 DEF TypeInv, TypeOK
  <2>2. TypeOK'
    BY <1>2, <1>3, <1>6, <2>1 DEF TypeInv, TypeOK, OnlyWakes
  <2>3. Others(Timer) /\ job'[Timer] = job[Timer]
        /\ (pc'[Timer] = pc[Timer] \/ (pc[Timer] = "waiting" /\ pc'[Timer] = "woken"))
    BY <1>3, <1>6 DEF Others, OnlyWakes, Woken
  <2>4. ThreadsOK'
    <3>1. Timer \notin NewThread /\ Timer \notin UNION Layouts
      BY PipelineAssumption DEF AllThreads
    <3> QED
      BY <1>2, <1>3, <2>3, <3>1, ThreadsKept DEF TypeInv, ThreadsOK, Busy
  <2> QED
    BY <2>2, <2>4
<1> QED
  BY <1>1, <1>4, <1>5, <1>6, SendOneCases DEF TypeInv

(* Sending an array of kernels from act() keeps the types.                 *)
LEMMA SendArrayType ==
    ASSUME TypeInv, UNCHANGED downThreads, NEW t \in Threads, SendChildren(t)
    PROVE  TypeOK' /\ ThreadsOK'
<1> DEFINE p == job[t]
           S == unsent[p]
<1>1. p \in Kernels /\ S \in SUBSET Kernels /\ \A k \in S : ParentOf[k] = p
  BY DEF TypeInv, TypeOK, ThreadsOK, Family, Busy, SendChildren, Children
<1>2. /\ unsent' = [unsent EXCEPT ![p] = {}] /\ SendArray(S)
      /\ UNCHANGED <<state, downstream, failed, alarm, now, collected, identified, discarded>>
  BY DEF SendChildren
<1>3. /\ unsent' \in [Kernels \cup {NoKernel} -> SUBSET Kernels] /\ FreshShrinks
      /\ \A k \in S : k \notin unsent'[ParentOf[k]]
  BY <1>1, <1>2 DEF TypeInv, TypeOK, FreshShrinks
<1>4. state \notin {"stopped", "cleared"}
  BY DEF SendChildren, TypeInv, ThreadsOK
<1> HIDE DEF p, S
<1>5. /\ timer' = timer \cup (S \cap Scheduled)
      /\ upstream' = upstream \o SetToSeq(Plain(S)) /\ SetToSeq(Plain(S)) \in Seq(Kernels)
      /\ job' = [u \in Threads |-> IF u \in S \cap NewThread THEN u ELSE job[u]]
      /\ OnlyWakes(Spawned(S), pc')
  BY <1>1, <1>2, SendArrayCases DEF TypeInv
<1>6. TypeOK'
  <2>1. job' \in [Threads -> Kernels \cup {NoKernel}]
    BY <1>1, <1>5 DEF TypeInv, TypeOK
  <2>2. upstream' \in Seq(Kernels)
    BY <1>5 DEF TypeInv, TypeOK
  <2>3. pc' \in [Threads -> PCs]
    BY <1>5 DEF OnlyWakes
  <2> QED
    BY <1>2, <1>3, <1>5, <2>1, <2>2, <2>3 DEF TypeInv, TypeOK, Slots
<1>7. ASSUME NEW u \in Threads
      PROVE  \/ /\ u \in S \cap NewThread
                /\ pc'[u] = "act" /\ job'[u] = u /\ u \in Kernels
             \/ /\ u \notin S \cap NewThread /\ job'[u] = job[u]
                /\ pc'[u] = pc[u] \/ (pc[u] = "waiting" /\ pc'[u] \in {"woken", "check"})
  BY <1>1, <1>5 DEF OnlyWakes, Spawned, Woken
<1>8. ThreadsOK'
  <2>1. ASSUME NEW u \in Threads PROVE Busy(u)' <=> job'[u] # NoKernel
    BY <1>7, PipelineAssumption DEF Busy, TypeInv, ThreadsOK
  <2>2. ASSUME NEW u \in Threads, pc'[u] = "react" PROVE u \in Slots'
    BY <1>7, <2>2 DEF TypeInv, ThreadsOK, Slots
  <2>3. ASSUME NEW u \in NewThread
        PROVE  /\ pc'[u] \in {"none", "act", "exited"}
               /\ u \in unsent'[ParentOf[u]] => pc'[u] = "none"
    <3>1. u \in Threads /\ u \in Kernels
      BY ThreadSets, PipelineAssumption DEF TypeInv
    <3> QED
      BY <1>3, <1>7, <3>1 DEF TypeInv, ThreadsOK, FreshShrinks
  <2>4. ASSUME NEW u \in (UNION Layouts) \ downThreads PROVE pc'[u] = "none"
    <3>1. u \in Threads /\ u \notin NewThread
      BY PipelineAssumption DEF Threads, AllThreads
    <3> QED
      BY <1>7, <3>1 DEF TypeInv, ThreadsOK
  <2> QED
    BY <1>2, <1>4, <2>1, <2>2, <2>3, <2>4 DEF ThreadsOK
<1> QED
  BY <1>6, <1>8

(* Steps that leave a queue with a kernel less, and start to execute it.   *)
LEMMA TakeType ==
    ASSUME TypeInv, UNCHANGED <<downThreads, state, program>>, NEW t \in Threads,
           state \notin {"stopped", "cleared"},
           NEW k \in Kernels, NEW what \in {"act", "react"},
           pc' = [pc EXCEPT ![t] = what], job' = [job EXCEPT ![t] = k],
           what = "react" => t \in Slots, t \in PoolThreads
    PROVE  /\ pc' \in [Threads -> PCs] /\ job' \in [Threads -> Kernels \cup {NoKernel}]
           /\ ThreadsOK' /\ Others(t)
<1>1. /\ pc' \in [Threads -> PCs] /\ job' \in [Threads -> Kernels \cup {NoKernel}]
      /\ pc'[t] = what /\ job'[t] = k /\ Others(t)
  BY DEF TypeInv, TypeOK, PCs, Others
<1>2. t \notin NewThread /\ t \notin (UNION Layouts) \ downThreads
  BY ThreadSets, PipelineAssumption DEF TypeInv, PoolThreads
<1>3. FreshShrinks
  BY DEF program, FreshShrinks
<1>4. k # NoKernel
  BY PipelineAssumption
<1>5. ThreadsOK'
  BY <1>1, <1>2, <1>3, <1>4, ThreadsKept DEF TypeInv, Busy
<1> QED
  BY <1>1, <1>5

(* A thread takes downstream kernels from its own slot only.               *)
LEMMA OwnSlotType ==
    ASSUME TypeInv, NEW t, NEW s \in OwnSlot(t)
    PROVE  s = t /\ t \in Slots /\ t \in PoolThreads /\ downstream[s] \in Seq(Kernels)
BY DEF OwnSlot, Slots, SlotsIn, PoolThreads, TypeInv, TypeOK

(* A thread that neither starts nor ends the execution of a kernel.        *)
LEMMA IdleType ==
    ASSUME TypeInv, UNCHANGED <<downThreads, job, program>>, NEW t \in PoolThreads,
           NEW what \in {"check", "woken", "waiting", "exited"}, ~Busy(t),
           state \notin {"stopped", "cleared"},
           pc' = [pc EXCEPT ![t] = what], state' = state
    PROVE  pc' \in [Threads -> PCs] /\ ThreadsOK'
<1>1. t \in Threads /\ t \notin NewThread /\ t \notin (UNION Layouts) \ downThreads
  BY ThreadSets, PipelineAssumption DEF TypeInv, PoolThreads
<1>2. pc' \in [Threads -> PCs] /\ pc'[t] = what /\ Others(t)
  BY <1>1 DEF TypeInv, TypeOK, PCs, Others
<1>3. FreshShrinks
  BY DEF program, FreshShrinks
<1>4. job'[t] = NoKernel
  BY <1>1 DEF TypeInv, ThreadsOK
<1>5. ThreadsOK'
  BY <1>1, <1>2, <1>3, <1>4, ThreadsKept DEF TypeInv, Busy
<1> QED
  BY <1>2, <1>5

(* A thread that looks, sleeps or waits is one of the pool, and the pool   *)
(* has not been joined.                                                    *)
LEMMA PoolThread ==
    ASSUME TypeInv, NEW t \in Threads, pc[t] \in {"check", "woken", "waiting"}
    PROVE  t \in PoolThreads /\ ~Busy(t) /\ state \notin {"stopped", "cleared"}
BY DEF TypeInv, ThreadsOK, Threads, AllThreads, PoolThreads, Busy

(* A thread that ends the execution of a kernel keeps the rules for        *)
(* threads.                                                                *)
LEMMA ReleaseType ==
    ASSUME TypeInv, UNCHANGED <<downThreads, state, unsent>>, NEW t \in Threads, Busy(t),
           Free(t), OnlyWakes(Released(t), pc')
    PROVE  /\ pc' \in [Threads -> PCs] /\ job' \in [Threads -> Kernels \cup {NoKernel}]
           /\ ThreadsOK'
<1>1. /\ pc' \in [Threads -> PCs] /\ job' \in [Threads -> Kernels \cup {NoKernel}]
      /\ job'[t] = NoKernel /\ pc'[t] \in {"check", "exited"}
      /\ t \in NewThread => pc'[t] = "exited"
      /\ t \notin (UNION Layouts) \ downThreads
      /\ Others(t)
  BY ReleasedThread DEF TypeInv
<1>2. t \in NewThread => t \notin unsent[ParentOf[t]]
  BY DEF TypeInv, ThreadsOK, Busy
<1>3. state \notin {"stopped", "cleared"}
  BY DEF TypeInv, ThreadsOK, Busy
<1>4. FreshShrinks
  BY DEF FreshShrinks
<1>5. ThreadsOK'
  BY <1>1, <1>2, <1>3, <1>4, ThreadsKept DEF TypeInv, Busy
<1> QED
  BY <1>1, <1>5

(* A notification by somebody outside the pool disturbs no execution.      *)
LEMMA WakesType ==
    ASSUME TypeInv, UNCHANGED <<downThreads, job, unsent>>, OnlyWakes(pc, pc'),
           state' \in {"stopped", "cleared"} => state \in {"stopped", "cleared"}
    PROVE  pc' \in [Threads -> PCs] /\ ThreadsOK'
<1>1. /\ Others(Timer) /\ Timer \in Threads /\ job'[Timer] = job[Timer]
      /\ (pc'[Timer] = pc[Timer] \/ (pc[Timer] = "waiting" /\ pc'[Timer] = "woken"))
  BY ThreadSets DEF TypeInv, Others, OnlyWakes, Woken
<1>2. Timer \notin NewThread /\ Timer \notin UNION Layouts
  BY PipelineAssumption DEF AllThreads
<1>3. FreshShrinks
  BY DEF FreshShrinks
<1>4. ThreadsOK'
  BY <1>1, <1>2, <1>3, ThreadsKept DEF TypeInv, ThreadsOK, Busy
<1> QED
  BY <1>4 DEF OnlyWakes

(* mark_as_deleted() marks kernels.                                        *)
LEMMA MarkedType ==
    ASSUME NEW S
    PROVE  Marked(S) \subseteq Kernels
BY DEF Marked

(* Every step keeps the types and the rules for threads.                   *)
LEMMA TypeStep ==
    ASSUME TypeInv, [Next]_vars
    PROVE  TypeOK' /\ ThreadsOK'
<1>1. CASE UNCHANGED vars
  BY <1>1 DEF vars, moving, queues, threads, program, TypeInv, TypeOK, ThreadsOK, Busy, Slots
<1>2. SUFFICES ASSUME Step, UNCHANGED downThreads PROVE TypeOK' /\ ThreadsOK'
  BY <1>1 DEF Next
<1>3. Slots' = Slots /\ Timer \in Threads /\ Timer \in PoolThreads
  BY <1>2, ThreadSets DEF Slots, TypeInv, PoolThreads
<1>4. ASSUME NEW k \in Roots, SendRoot(k) PROVE TypeOK' /\ ThreadsOK'
  BY <1>2, <1>4, SendOneType DEF SendRoot
<1>5. ASSUME NEW t \in Threads, SendChild(t) PROVE TypeOK' /\ ThreadsOK'
  <2>1. PICK k \in unsent[job[t]] :
          unsent' = [unsent EXCEPT ![job[t]] = @ \ {k}] /\ SendOne(k)
    BY <1>5 DEF SendChild
  <2>2. job[t] \in Kernels \cup {NoKernel}
    BY DEF TypeInv, TypeOK
  <2>3. state = "started" \/ state = "stopping"
    BY <1>5 DEF SendChild, TypeInv, TypeOK, ThreadsOK
  <2>4. /\ k \in NewThread => state \notin {"stopped", "cleared"}
        /\ UNCHANGED <<state, downstream, failed, alarm, now, collected, identified, discarded>>
    BY <1>5, <2>3 DEF SendChild
  <2> QED
    BY <1>2, <2>1, <2>2, <2>4, SendOneType
<1>6. ASSUME NEW t \in Threads, SendChildren(t) PROVE TypeOK' /\ ThreadsOK'
  BY <1>2, <1>6, SendArrayType
<1>7. ASSUME NEW t \in Threads, TakeReturn(t) PROVE TypeOK' /\ ThreadsOK'
  <2>1. PICK s \in OwnSlot(t) :
          /\ downstream[s] # <<>>
          /\ downstream' = [downstream EXCEPT ![s] = Tail(@)]
          /\ job' = [job EXCEPT ![t] = Head(downstream[s])]
    BY <1>7 DEF TakeReturn
  <2>2. pc' = [pc EXCEPT ![t] = "react"] /\ pc[t] = "check"
        /\ UNCHANGED <<state, upstream, timer, failed, now, alarm, program, discarded>>
    BY <1>7 DEF TakeReturn
  <2>3. s = t /\ t \in Slots /\ t \in PoolThreads /\ downstream[s] \in Seq(Kernels)
    BY OwnSlotType
  <2>4. Head(downstream[s]) \in Kernels /\ Tail(downstream[s]) \in Seq(Kernels)
    BY <2>1, <2>3, HeadTailProperties
  <2>5. downstream' \in [Slots -> Seq(Kernels)]
    BY <2>1, <2>4 DEF TypeInv, TypeOK
  <2>6. /\ pc' \in [Threads -> PCs] /\ job' \in [Threads -> Kernels \cup {NoKernel}]
        /\ ThreadsOK'
    BY <1>2, <2>1, <2>2, <2>3, <2>4, PoolThread, TakeType
  <2> QED
    BY <1>2, <1>3, <2>2, <2>5, <2>6 DEF TypeInv, TypeOK, program
<1>8. ASSUME NEW t \in Threads, TakeWork(t) PROVE TypeOK' /\ ThreadsOK'
  <2>1. /\ upstream # <<>> /\ upstream' = Tail(upstream)
        /\ job' = [job EXCEPT ![t] = Head(upstream)] /\ pc' = [pc EXCEPT ![t] = "act"]
        /\ pc[t] = "check"
        /\ UNCHANGED <<state, downstream, timer, failed, now, alarm, program, discarded>>
    BY <1>8 DEF TakeWork, HasWork
  <2>2. Head(upstream) \in Kernels /\ Tail(upstream) \in Seq(Kernels)
    BY <2>1, HeadTailProperties DEF TypeInv, TypeOK
  <2>3. /\ pc' \in [Threads -> PCs] /\ job' \in [Threads -> Kernels \cup {NoKernel}]
        /\ ThreadsOK'
    BY <1>2, <2>1, <2>2, PoolThread, TakeType
  <2> QED
    BY <1>2, <1>3, <2>1, <2>2, <2>3 DEF TypeInv, TypeOK, program
<1>9. ASSUME TakeScheduled PROVE TypeOK' /\ ThreadsOK'
  <2>1. PICK k \in Due : timer' = timer \ {k} /\ job' = [job EXCEPT ![Timer] = k]
    BY <1>9 DEF TakeScheduled
  <2>2. /\ pc[Timer] \in {"check", "woken"} /\ pc' = [pc EXCEPT ![Timer] = "act"]
        /\ UNCHANGED <<state, upstream, downstream, failed, now, alarm, program, discarded>>
    BY <1>9 DEF TakeScheduled
  <2>3. k \in Kernels
    BY PipelineAssumption DEF Due, TypeInv, TypeOK
  <2>4. /\ pc' \in [Threads -> PCs] /\ job' \in [Threads -> Kernels \cup {NoKernel}]
        /\ ThreadsOK'
    BY <1>2, <1>3, <2>1, <2>2, <2>3, PoolThread, TakeType
  <2> QED
    BY <1>2, <1>3, <2>1, <2>2, <2>4 DEF TypeInv, TypeOK, program
<1>10. ASSUME NEW t \in Threads, Wait(t) \/ Exit(t) PROVE TypeOK' /\ ThreadsOK'
  <2>1. /\ pc[t] = "check"
        /\ pc' = [pc EXCEPT ![t] = "waiting"] \/ pc' = [pc EXCEPT ![t] = "exited"]
        /\ UNCHANGED <<state, queues, job, now, alarm, program, discarded>>
    BY <1>10 DEF Wait, Exit
  <2>2. pc' \in [Threads -> PCs] /\ ThreadsOK'
    BY <1>2, <2>1, PoolThread, IdleType
  <2> QED
    BY <1>2, <1>3, <2>1, <2>2 DEF TypeInv, TypeOK, queues, program
<1>11. ASSUME NEW t \in UpThreads \cup downThreads, SpuriousWakeup(t)
       PROVE  TypeOK' /\ ThreadsOK'
  <2>1. /\ pc[t] = "waiting" /\ pc' = [pc EXCEPT ![t] = "check"]
        /\ UNCHANGED <<state, queues, job, now, alarm, program, discarded>>
    BY <1>11 DEF SpuriousWakeup
  <2>2. t \in Threads
    BY ThreadSets DEF TypeInv, PoolThreads
  <2>3. pc' \in [Threads -> PCs] /\ ThreadsOK'
    BY <1>2, <2>1, <2>2, PoolThread, IdleType
  <2> QED
    BY <1>2, <1>3, <2>1, <2>3 DEF TypeInv, TypeOK, queues, program
<1>12. ASSUME Sleep PROVE TypeOK' /\ ThreadsOK'
  <2>1. /\ pc[Timer] \in {"check", "woken"} /\ pc' = [pc EXCEPT ![Timer] = "waiting"]
        /\ alarm' = Min({Never} \cup {At[k] : k \in timer})
        /\ UNCHANGED <<state, queues, job, now, program, discarded>>
    BY <1>12 DEF Sleep
  <2>2. pc' \in [Threads -> PCs] /\ ThreadsOK'
    BY <1>2, <1>3, <2>1, PoolThread, IdleType
  <2>3. alarm' \in 0..Never
    <3>1. \A k \in timer : At[k] \in 0..Never
      BY PipelineAssumption DEF TypeInv, TypeOK
    <3>2. {Never} \cup {At[k] : k \in timer} \in SUBSET Nat
      BY <3>1, PipelineAssumption
    <3>3. alarm' \in {Never} \cup {At[k] : k \in timer}
      BY <2>1, <3>2, MinProperty
    <3> QED
      BY <3>1, <3>3, PipelineAssumption
  <2> QED
    BY <1>2, <1>3, <2>1, <2>2, <2>3 DEF TypeInv, TypeOK, queues, program
<1>13. ASSUME Alarm \/ ExitTimer PROVE TypeOK' /\ ThreadsOK'
  <2>1. /\ pc[Timer] \in {"check", "woken", "waiting"}
        /\ pc' = [pc EXCEPT ![Timer] = "woken"] \/ pc' = [pc EXCEPT ![Timer] = "exited"]
        /\ UNCHANGED <<state, queues, job, now, alarm, program, discarded>>
    BY <1>13 DEF Alarm, ExitTimer
  <2>2. pc' \in [Threads -> PCs] /\ ThreadsOK'
    BY <1>2, <1>3, <2>1, PoolThread, IdleType
  <2> QED
    BY <1>2, <1>3, <2>1, <2>2 DEF TypeInv, TypeOK, queues, program
<1>14. ASSUME NEW t \in Threads, FinishAct(t) PROVE TypeOK' /\ ThreadsOK'
  <2>1. /\ Busy(t) /\ pc' = Released(t) /\ Free(t)
        /\ UNCHANGED <<state, queues, now, alarm, program, discarded>>
    BY <1>14 DEF FinishAct, Busy
  <2>2. /\ pc' \in [Threads -> PCs] /\ job' \in [Threads -> Kernels \cup {NoKernel}]
        /\ ThreadsOK'
    BY <1>2, <2>1, ReleasedQuietly, ReleaseType DEF TypeInv, program
  <2> QED
    BY <1>2, <1>3, <2>1, <2>2 DEF TypeInv, TypeOK, queues, program
<1>15. ASSUME NEW t \in Threads, CommitAct(t) PROVE TypeOK' /\ ThreadsOK'
  <2>1. /\ Busy(t) /\ SendDownstream(job[t], Released(t)) /\ Free(t)
        /\ UNCHANGED <<state, upstream, timer, failed, now, alarm, program, discarded>>
    BY <1>15 DEF CommitAct, Busy
  <2>2. job[t] \in Kernels
    BY <2>1 DEF TypeInv, TypeOK, ThreadsOK
  <2>3. Released(t) \in [Threads -> PCs]
    BY DEF Released, TypeInv, TypeOK, PCs
  <2>4. downstream' \in [Slots -> Seq(Kernels)] /\ OnlyWakes(Released(t), pc')
    BY <2>1, <2>2, <2>3, DownstreamWakes DEF TypeInv
  <2>5. /\ pc' \in [Threads -> PCs] /\ job' \in [Threads -> Kernels \cup {NoKernel}]
        /\ ThreadsOK'
    BY <1>2, <2>1, <2>4, ReleaseType DEF program
  <2> QED
    BY <1>2, <1>3, <2>1, <2>4, <2>5 DEF TypeInv, TypeOK, program
<1>16. ASSUME NEW t \in Threads, ThrowAct(t) PROVE TypeOK' /\ ThreadsOK'
  <2>1. /\ Busy(t) /\ pc' = Released(t) /\ Free(t)
        /\ job[t] \in MayThrow /\ failed' = failed \cup {job[t]}
        /\ UNCHANGED <<state, upstream, downstream, timer, now, alarm, program, discarded>>
    BY <1>16 DEF ThrowAct, Busy
  <2>2. /\ pc' \in [Threads -> PCs] /\ job' \in [Threads -> Kernels \cup {NoKernel}]
        /\ ThreadsOK'
    BY <1>2, <2>1, ReleasedQuietly, ReleaseType DEF TypeInv, program
  <2> QED
    BY <1>2, <1>3, <2>1, <2>2 DEF TypeInv, TypeOK, program
<1>17. ASSUME NEW t \in Threads, React(t) PROVE TypeOK' /\ ThreadsOK'
  <2> DEFINE k == job[t]
             p == ParentOf[k]
             all == collected[p] \cup {k} = Children(p)
  <2>1. /\ Busy(t) /\ Free(t)
        /\ collected' = [collected EXCEPT ![p] = @ \cup {k}]
        /\ \/ p # NoKernel /\ SendDownstream(p, Released(t))
           \/ pc' = Released(t) /\ UNCHANGED downstream
        /\ UNCHANGED <<state, upstream, timer, failed, now, alarm, unsent, identified, discarded>>
    BY <1>17 DEF React, Busy
  <2>2. k \in Kernels /\ p \in Kernels \cup {NoKernel}
    BY <2>1, PipelineAssumption DEF TypeInv, TypeOK, ThreadsOK
  <2>3. Released(t) \in [Threads -> PCs]
    BY DEF Released, TypeInv, TypeOK, PCs
  <2>4. collected' \in [Kernels \cup {NoKernel} -> SUBSET Kernels]
    BY <2>1, <2>2 DEF TypeInv, TypeOK
  <2> HIDE DEF k, p
  <2>5. downstream' \in [Slots -> Seq(Kernels)] /\ OnlyWakes(Released(t), pc')
    <3>1. CASE p # NoKernel /\ SendDownstream(p, Released(t))
      BY <2>2, <2>3, <3>1, DownstreamWakes DEF TypeInv
    <3>2. CASE pc' = Released(t) /\ UNCHANGED downstream
      BY <3>2, ReleasedQuietly DEF TypeInv, TypeOK
    <3> QED
      BY <2>1, <3>1, <3>2
  <2>6. /\ pc' \in [Threads -> PCs] /\ job' \in [Threads -> Kernels \cup {NoKernel}]
        /\ ThreadsOK'
    BY <1>2, <2>1, <2>5, ReleaseType
  <2> QED
    BY <1>2, <1>3, <2>1, <2>4, <2>5, <2>6 DEF TypeInv, TypeOK
<1>18. ASSUME NEW k \in Kernels, ReturnFailed(k) PROVE TypeOK' /\ ThreadsOK'
  <2>1. /\ failed' = failed \ {k} /\ SendDownstream(k, pc)
        /\ UNCHANGED <<state, upstream, timer, job, now, alarm, program, discarded>>
    BY <1>18 DEF ReturnFailed
  <2>2. downstream' \in [Slots -> Seq(Kernels)] /\ OnlyWakes(pc, pc')
    BY <2>1, DownstreamWakes DEF TypeInv, TypeOK
  <2>3. pc' \in [Threads -> PCs] /\ ThreadsOK'
    BY <1>2, <2>1, <2>2, WakesType DEF program
  <2> QED
    BY <1>2, <1>3, <2>1, <2>2, <2>3 DEF TypeInv, TypeOK, program
<1>19. ASSUME Stop PROVE TypeOK' /\ ThreadsOK'
  <2>1. /\ state' = "stopping" /\ pc' = NotifyAll(PoolThreads, pc)
        /\ UNCHANGED <<queues, job, now, alarm, program, discarded>>
    BY <1>19 DEF Stop, StopWakes
  <2>2. OnlyWakes(pc, pc')
    BY <2>1, ThreadSets, NotifyWakes DEF TypeInv, TypeOK
  <2>3. pc' \in [Threads -> PCs] /\ ThreadsOK'
    BY <1>2, <2>1, <2>2, WakesType DEF program
  <2> QED
    BY <1>2, <1>3, <2>1, <2>3 DEF TypeInv, TypeOK, queues, program
<1>20. ASSUME Join PROVE TypeOK' /\ ThreadsOK'
  BY <1>2, <1>3, <1>20 DEF Join, TypeInv, TypeOK, ThreadsOK, Busy, queues, threads, program
<1>21. ASSUME Clear PROVE TypeOK' /\ ThreadsOK'
  <2>1. /\ state = "stopped" /\ state' = "cleared"
        /\ discarded' = discarded \cup Marked(Queued \cup failed)
        /\ upstream' = <<>> /\ downstream' = [s \in Slots |-> <<>>]
        /\ timer' = {} /\ failed' = {}
        /\ UNCHANGED <<pc, job, alarm, now, program>>
    BY <1>21 DEF Clear, threads
  <2>2. discarded' \subseteq Kernels
    BY <2>1, MarkedType DEF TypeInv, TypeOK
  <2>3. TypeOK'
    <3>1. upstream' \in Seq(Kernels) /\ downstream' \in [Slots -> Seq(Kernels)]
      BY <2>1
    <3> QED
      BY <1>2, <1>3, <2>1, <2>2, <3>1 DEF TypeInv, TypeOK, program
  <2>4. ThreadsOK'
    BY <1>2, <1>3, <2>1 DEF TypeInv, ThreadsOK, Busy, program
  <2> QED
    BY <2>3, <2>4
<1>22. ASSUME NEW k \in Kernels, GetId(k) PROVE TypeOK' /\ ThreadsOK'
  BY <1>2, <1>3, <1>22 DEF GetId, TypeInv, TypeOK, ThreadsOK, Busy, queues, threads
<1>23. ASSUME Tick PROVE TypeOK' /\ ThreadsOK'
  <2>1. now' \in 0..Never
    BY <1>23, PipelineAssumption DEF Tick, TypeInv, TypeOK
  <2> QED
    BY <1>2, <1>3, <1>23, <2>1 DEF Tick, TypeInv, TypeOK, ThreadsOK, Busy, queues, threads, program
<1> QED
  BY <1>2, <1>4, <1>5, <1>6, <1>7, <1>8, <1>9, <1>10, <1>11, <1>12, <1>13, <1>14, <1>15,
     <1>16, <1>17, <1>18, <1>19, <1>20, <1>21, <1>22, <1>23 DEF Step, Work, TimerWork

(* Every step leaves in the hands of a parent, sent or reacted to, its own *)
(* children only.                                                          *)
LEMMA FamilyStep ==
    ASSUME TypeInv, [Next]_vars
    PROVE  Family'
<1>1. CASE UNCHANGED <<unsent, collected>>
  BY <1>1 DEF TypeInv, Family
<1>2. ASSUME NEW p \in Kernels \cup {NoKernel}, UNCHANGED collected,
             unsent'[p] \subseteq unsent[p],
             \A q \in Kernels \cup {NoKernel} : q # p => unsent'[q] = unsent[q]
      PROVE  Family'
  BY <1>2 DEF TypeInv, Family
<1>3. ASSUME NEW k \in Roots, SendRoot(k) PROVE Family'
  BY <1>2, <1>3 DEF SendRoot, TypeInv, TypeOK
<1>4. ASSUME NEW t \in Threads, SendChild(t) \/ SendChildren(t) PROVE Family'
  <2>1. job[t] \in Kernels \cup {NoKernel}
    BY DEF TypeInv, TypeOK
  <2>2. /\ UNCHANGED collected
        /\ \/ \E k \in unsent[job[t]] : unsent' = [unsent EXCEPT ![job[t]] = @ \ {k}]
           \/ unsent' = [unsent EXCEPT ![job[t]] = {}]
    BY <1>4 DEF SendChild, SendChildren
  <2>3. /\ unsent'[job[t]] \subseteq unsent[job[t]]
        /\ \A q \in Kernels \cup {NoKernel} : q # job[t] => unsent'[q] = unsent[q]
    BY <2>1, <2>2 DEF TypeInv, TypeOK
  <2> QED
    BY <1>2, <2>1, <2>2, <2>3
<1>5. ASSUME NEW t \in Threads, React(t) PROVE Family'
  <2>1. job[t] \in Kernels
    BY <1>5 DEF React, TypeInv, TypeOK, ThreadsOK, Busy
  <2>2. /\ UNCHANGED unsent
        /\ collected' = [collected EXCEPT ![ParentOf[job[t]]] = @ \cup {job[t]}]
    BY <1>5 DEF React
  <2> QED
    BY <2>1, <2>2 DEF TypeInv, TypeOK, Family, Children
<1>6. ASSUME NEW t \in Threads, Work(t) PROVE Family'
  BY <1>1, <1>4, <1>5, <1>6 DEF Work, TakeReturn, TakeWork, Wait, Exit, FinishAct, CommitAct,
     ThrowAct, program
<1>7. CASE TimerWork
  BY <1>1, <1>7 DEF TimerWork, TakeScheduled, Sleep, Alarm, ExitTimer, program
<1> QED
  BY <1>1, <1>3, <1>6, <1>7 DEF Next, Step, SpuriousWakeup, GetId, ReturnFailed, Tick, Stop, Join,
     Clear, program, vars, moving

(* A new pipeline is well typed: all threads look at empty queues.         *)
LEMMA TypeInit == Init => TypeInv
<1> SUFFICES ASSUME Init PROVE TypeInv
  OBVIOUS
<1>1. TypeOK
  <2>1. upstream \in Seq(Kernels) /\ downstream \in [Slots -> Seq(Kernels)]
    BY DEF Init
  <2>2. pc \in [Threads -> PCs]
    BY DEF Init, PCs
  <2>3. /\ unsent \in [Kernels \cup {NoKernel} -> SUBSET Kernels]
        /\ collected \in [Kernels \cup {NoKernel} -> SUBSET Kernels]
    BY DEF Init, Children
  <2> QED
    BY <2>1, <2>2, <2>3, PipelineAssumption DEF Init, TypeOK
<1>2. ThreadsOK
  BY <1>1, ThreadSets, PipelineAssumption
  DEF Init, ThreadsOK, Busy, PoolThreads, Threads, AllThreads
<1>3. Family
  BY DEF Init, Family
<1> QED
  BY <1>1, <1>2, <1>3 DEF TypeInv

(* The types, the rules for threads and the families hold for ever.        *)
THEOREM TypeInvariance == Spec => []TypeInv
<1>1. TypeInv /\ [Next]_vars => TypeInv'
  BY TypeStep, FamilyStep DEF TypeInv
<1> QED
  BY <1>1, TypeInit, PTL DEF Spec

(* The state of the pipeline is well typed for ever.                       *)
THEOREM TypeCorrect == Spec => []TypeOK
BY TypeInvariance, PTL DEF TypeInv

-----------------------------------------------------------------------------
(***************************************************************************)
(* What a step does to the kernels, whatever it notifies: the vocabulary   *)
(* of the proofs below.                                                    *)
(***************************************************************************)
Quiet(u) == job'[u] = job[u] /\ (pc'[u] = pc[u] \/ (~Busy(u) /\ ~Busy(u)'))
Undisturbed == \A u \in Threads : Quiet(u)

Starts(t, k, what) ==
    /\ t \in Threads /\ ~Busy(t) /\ pc'[t] = what /\ job'[t] = k
    /\ \A u \in Threads \ {t} : Quiet(u)

Ends(t) ==
    /\ t \in Threads /\ Busy(t) /\ ~Busy(t)' /\ job'[t] = NoKernel
    /\ \A u \in Threads \ {t} : Quiet(u)

Passes(k) ==
    LET s == SlotOf(ParentOf[k])
    IN  s \in Slots /\ downstream' = [downstream EXCEPT ![s] = Append(@, k)]

NothingMoves ==
    /\ Undisturbed
    /\ UNCHANGED <<upstream, downstream, timer, failed, unsent, collected, discarded>>
    /\ \/ state' = state
       \/ state = "started" /\ state' = "stopping"
       \/ /\ state = "stopping" /\ state' = "stopped"
          /\ \A t \in Threads : pc[t] \in {"none", "exited"}

Sends(p, k) ==
    /\ k \in unsent[p] /\ k \in Kernels /\ ParentOf[k] = p
    /\ p = NoKernel \/ (\E t \in Threads : pc[t] = "act" /\ job[t] = p)
    /\ state # "cleared"
    /\ unsent' = [unsent EXCEPT ![p] = @ \ {k}]
    /\ \/ k \in Scheduled /\ timer' = timer \cup {k} /\ Undisturbed /\ UNCHANGED upstream
       \/ k \in NewThread /\ Starts(k, k, "act") /\ UNCHANGED <<upstream, timer>>
       \/ upstream' = Append(upstream, k) /\ Undisturbed /\ UNCHANGED timer
    /\ UNCHANGED <<state, downstream, failed, collected, discarded>>

SendsAll(t) ==
    LET S == unsent[job[t]]
    IN  /\ t \in Threads /\ pc[t] = "act" /\ job[t] \in Kernels
        /\ S \subseteq Kernels /\ \A k \in S : ParentOf[k] = job[t]
        /\ unsent' = [unsent EXCEPT ![job[t]] = {}]
        /\ timer' = timer \cup (S \cap Scheduled)
        /\ upstream' = upstream \o SetToSeq(Plain(S))
        /\ SetToSeq(Plain(S)) \in Seq(Kernels)
        /\ Range(SetToSeq(Plain(S))) = Plain(S) /\ IsInjective(SetToSeq(Plain(S)))
        /\ \A u \in Threads :
              IF u \in S \cap NewThread
              THEN ~Busy(u) /\ pc'[u] = "act" /\ job'[u] = u
              ELSE Quiet(u)
        /\ UNCHANGED <<state, downstream, failed, collected, discarded>>

TakesReturn(t) ==
    /\ t \in Slots /\ downstream[t] # <<>>
    /\ downstream' = [downstream EXCEPT ![t] = Tail(@)]
    /\ Starts(t, Head(downstream[t]), "react")
    /\ UNCHANGED <<state, upstream, timer, failed, unsent, collected, discarded>>

TakesWork(t) ==
    /\ upstream # <<>> /\ upstream' = Tail(upstream)
    /\ Starts(t, Head(upstream), "act")
    /\ UNCHANGED <<state, downstream, timer, failed, unsent, collected, discarded>>

TakesScheduled(k) ==
    /\ k \in timer /\ timer' = timer \ {k}
    /\ Starts(Timer, k, "act")
    /\ UNCHANGED <<state, upstream, downstream, failed, unsent, collected, discarded>>

FinishesAct(t) ==
    /\ pc[t] = "act" /\ Children(job[t]) # {} /\ unsent[job[t]] = {}
    /\ Ends(t)
    /\ UNCHANGED <<state, upstream, downstream, timer, failed, unsent, collected, discarded>>

Commits(t) ==
    /\ pc[t] = "act" /\ Children(job[t]) = {} /\ job[t] \in Kernels
    /\ Ends(t) /\ Passes(job[t])
    /\ UNCHANGED <<state, upstream, timer, failed, unsent, collected, discarded>>

Throws(t) ==
    /\ pc[t] = "act" /\ job[t] \in MayThrow /\ job[t] \in Kernels
    /\ Ends(t) /\ failed' = failed \cup {job[t]}
    /\ UNCHANGED <<state, upstream, downstream, timer, unsent, collected, discarded>>

SendsBack(k) ==
    /\ state \in {"started", "stopping"}
    /\ k \in failed /\ failed' = failed \ {k}
    /\ Undisturbed /\ Passes(k)
    /\ UNCHANGED <<state, upstream, timer, unsent, collected, discarded>>

Reacts(t) ==
    LET k == job[t]
        p == ParentOf[k]
    IN  /\ pc[t] = "react" /\ k \in Kernels /\ Ends(t)
        /\ collected' = [collected EXCEPT ![p] = @ \cup {k}]
        /\ IF p # NoKernel /\ collected[p] \cup {k} = Children(p)
           THEN Passes(p) ELSE UNCHANGED downstream
        /\ UNCHANGED <<state, upstream, timer, failed, unsent, discarded>>

Clears ==
    /\ state = "stopped" /\ state' = "cleared"
    /\ discarded' = discarded \cup Marked(Queued \cup failed)
    /\ upstream' = <<>> /\ downstream' = [s \in Slots |-> <<>>]
    /\ timer' = {} /\ failed' = {}
    /\ UNCHANGED <<pc, job, unsent, collected>>

(* A wake-up neither starts nor ends the execution of a kernel.            *)
LEMMA WakesQuietly ==
    ASSUME UNCHANGED job, OnlyWakes(pc, pc')
    PROVE  Undisturbed
BY DEF OnlyWakes, Undisturbed, Quiet, Busy, Woken

(* Neither does a thread that goes to sleep, wakes up or ends.             *)
LEMMA IdlesQuietly ==
    ASSUME TypeInv, UNCHANGED job, NEW t \in Threads, ~Busy(t),
           NEW what \in {"check", "woken", "waiting", "exited"},
           pc' = [pc EXCEPT ![t] = what]
    PROVE  Undisturbed
BY DEF TypeInv, TypeOK, Undisturbed, Quiet, Busy

(* A thread that takes a kernel starts to execute it, and no other thread  *)
(* does anything.                                                          *)
LEMMA StartsOne ==
    ASSUME TypeInv, NEW t \in Threads, ~Busy(t), NEW k, NEW what,
           pc' = [pc EXCEPT ![t] = what], job' = [job EXCEPT ![t] = k]
    PROVE  Starts(t, k, what)
BY DEF TypeInv, TypeOK, Starts, Quiet

(* A thread that is released ends the execution of its kernel, and no      *)
(* other thread does.                                                      *)
LEMMA EndsOne ==
    ASSUME TypeInv, NEW t \in Threads, Busy(t), Free(t), OnlyWakes(Released(t), pc')
    PROVE  Ends(t)
<1>1. job'[t] = NoKernel /\ pc'[t] \in {"check", "exited"} /\ Others(t)
  BY ReleasedThread DEF TypeInv
<1> QED
  BY <1>1 DEF Ends, Others, Quiet, Busy, Woken

(* Sending one kernel moves it from the hands of its parent to a queue,    *)
(* the timer or a thread.                                                  *)
LEMMA SendsEffect ==
    ASSUME TypeInv, NEW p \in Kernels \cup {NoKernel}, NEW k \in unsent[p], SendOne(k),
           p = NoKernel \/ (\E t \in Threads : pc[t] = "act" /\ job[t] = p),
           state # "cleared", unsent' = [unsent EXCEPT ![p] = @ \ {k}],
           UNCHANGED <<state, downstream, failed, collected, discarded>>
    PROVE  Sends(p, k)
<1>1. k \in Kernels /\ ParentOf[k] = p
  BY DEF TypeInv, Family, Children
<1>2. CASE k \in Scheduled /\ timer' = timer \cup {k} /\ UNCHANGED <<upstream, job>>
           /\ OnlyWakes(pc, pc')
  BY <1>1, <1>2, WakesQuietly DEF Sends
<1>3. CASE k \in NewThread \ Scheduled /\ pc' = [pc EXCEPT ![k] = "act"]
           /\ job' = [job EXCEPT ![k] = k] /\ UNCHANGED <<upstream, timer>>
  <2>1. k \in Threads /\ ~Busy(k)
    BY <1>1, <1>3, ThreadSets DEF TypeInv, ThreadsOK, Busy
  <2>2. Starts(k, k, "act")
    BY <1>3, <2>1, StartsOne
  <2> QED
    BY <1>1, <1>3, <2>2 DEF Sends
<1>4. CASE upstream' = Append(upstream, k) /\ UNCHANGED <<timer, job>> /\ OnlyWakes(pc, pc')
  BY <1>1, <1>4, WakesQuietly DEF Sends
<1> QED
  BY <1>1, <1>2, <1>3, <1>4, SendOneCases DEF TypeInv

(* Sending an array moves all of it.                                       *)
LEMMA SendsAllEffect ==
    ASSUME TypeInv, NEW t \in Threads, SendChildren(t)
    PROVE  SendsAll(t)
<1> DEFINE p == job[t]
           S == unsent[p]
<1>1. p \in Kernels /\ S \in SUBSET Kernels /\ \A k \in S : ParentOf[k] = p /\ k \in Children(p)
  BY DEF TypeInv, TypeOK, ThreadsOK, Family, Busy, SendChildren, Children
<1>2. /\ unsent' = [unsent EXCEPT ![p] = {}] /\ SendArray(S) /\ pc[t] = "act"
      /\ UNCHANGED <<state, downstream, failed, collected, discarded>>
  BY DEF SendChildren
<1> HIDE DEF S
<1>3. /\ timer' = timer \cup (S \cap Scheduled)
      /\ upstream' = upstream \o SetToSeq(Plain(S)) /\ SetToSeq(Plain(S)) \in Seq(Kernels)
      /\ Range(SetToSeq(Plain(S))) = Plain(S) /\ IsInjective(SetToSeq(Plain(S)))
      /\ job' = [u \in Threads |-> IF u \in S \cap NewThread THEN u ELSE job[u]]
      /\ OnlyWakes(Spawned(S), pc')
  BY <1>1, <1>2, SendArrayCases DEF TypeInv
<1>4. ASSUME NEW u \in Threads, u \in S \cap NewThread
      PROVE  ~Busy(u) /\ pc'[u] = "act" /\ job'[u] = u
  <2>1. u \in unsent[ParentOf[u]]
    BY <1>1, <1>4 DEF S
  <2>2. ~Busy(u)
    BY <1>4, <2>1 DEF TypeInv, ThreadsOK, Busy
  <2> QED
    BY <1>3, <1>4, <2>2 DEF OnlyWakes, Spawned
<1>5. ASSUME NEW u \in Threads, u \notin S \cap NewThread PROVE Quiet(u)
  BY <1>3, <1>5 DEF OnlyWakes, Spawned, Quiet, Busy, Woken
<1> QED
  BY <1>1, <1>2, <1>3, <1>4, <1>5 DEF SendsAll, S

(* send_downstream() moves the kernel into the slot of its principal.      *)
LEMMA PassesEffect ==
    ASSUME TypeInv, NEW k \in Kernels, NEW after \in [Threads -> PCs], SendDownstream(k, after)
    PROVE  Passes(k) /\ OnlyWakes(after, pc')
BY DownstreamWakes DEF TypeInv, Passes

(* Releasing a thread is a state of threads that wakes nobody.             *)
LEMMA ReleasedType ==
    ASSUME TypeInv, NEW t \in Threads
    PROVE  Released(t) \in [Threads -> PCs] /\ OnlyWakes(Released(t), Released(t))
<1>1. Released(t) \in [Threads -> PCs]
  BY DEF TypeInv, TypeOK, Released, PCs
<1> QED
  BY <1>1, ReleasedQuietly DEF TypeInv

Effect ==
    \/ NothingMoves
    \/ \E p \in Kernels \cup {NoKernel} : \E k \in Kernels : Sends(p, k)
    \/ \E t \in Threads : \/ SendsAll(t) \/ TakesReturn(t) \/ TakesWork(t) \/ FinishesAct(t)
                          \/ Commits(t) \/ Throws(t) \/ Reacts(t)
    \/ \E k \in Kernels : TakesScheduled(k) \/ SendsBack(k)
    \/ Clears

(* Every step of the pipeline has one of these effects.                    *)
LEMMA StepEffect ==
    ASSUME TypeInv, [Next]_vars
    PROVE  Effect
<1>1. CASE UNCHANGED vars
  BY <1>1 DEF vars, moving, queues, threads, program, Effect, NothingMoves, Undisturbed, Quiet
<1>2. SUFFICES ASSUME Step, UNCHANGED downThreads PROVE Effect
  BY <1>1 DEF Next
<1>3. ASSUME NEW k \in Roots, SendRoot(k) PROVE Effect
  <2>1. /\ k \in unsent[NoKernel] /\ k \in Kernels /\ SendOne(k) /\ state # "cleared"
        /\ unsent' = [unsent EXCEPT ![NoKernel] = @ \ {k}]
        /\ UNCHANGED <<state, downstream, failed, collected, discarded>>
    BY <1>3 DEF SendRoot, Roots, Children
  <2>2. Sends(NoKernel, k)
    BY <2>1, SendsEffect
  <2> QED
    BY <2>1, <2>2 DEF Effect
<1>4. ASSUME NEW t \in Threads, SendChild(t) PROVE Effect
  <2>1. PICK k \in unsent[job[t]] :
          unsent' = [unsent EXCEPT ![job[t]] = @ \ {k}] /\ SendOne(k)
    BY <1>4 DEF SendChild
  <2>2. job[t] \in Kernels \cup {NoKernel} /\ k \in Kernels
    BY DEF TypeInv, TypeOK
  <2>3. state # "cleared" /\ pc[t] = "act"
        /\ UNCHANGED <<state, downstream, failed, collected, discarded>>
    BY <1>4 DEF SendChild, TypeInv, ThreadsOK
  <2>4. Sends(job[t], k)
    BY <2>1, <2>2, <2>3, SendsEffect
  <2> QED
    BY <2>2, <2>4 DEF Effect
<1>5. ASSUME NEW t \in Threads, SendChildren(t) PROVE Effect
  BY <1>5, SendsAllEffect DEF Effect
<1>6. ASSUME NEW t \in Threads, TakeReturn(t) PROVE Effect
  <2>1. PICK s \in OwnSlot(t) :
          /\ downstream[s] # <<>>
          /\ downstream' = [downstream EXCEPT ![s] = Tail(@)]
          /\ job' = [job EXCEPT ![t] = Head(downstream[s])]
    BY <1>6 DEF TakeReturn
  <2>2. pc' = [pc EXCEPT ![t] = "react"] /\ ~Busy(t)
        /\ UNCHANGED <<state, upstream, timer, failed, unsent, collected, discarded>>
    BY <1>6 DEF TakeReturn, Busy, program
  <2>3. s = t /\ t \in Slots
    BY OwnSlotType
  <2>4. Starts(t, Head(downstream[t]), "react")
    BY <2>1, <2>2, <2>3, StartsOne
  <2> QED
    BY <2>1, <2>2, <2>3, <2>4 DEF Effect, TakesReturn
<1>7. ASSUME NEW t \in Threads, TakeWork(t) PROVE Effect
  <2>1. /\ upstream # <<>> /\ upstream' = Tail(upstream) /\ ~Busy(t)
        /\ job' = [job EXCEPT ![t] = Head(upstream)] /\ pc' = [pc EXCEPT ![t] = "act"]
        /\ UNCHANGED <<state, downstream, timer, failed, unsent, collected, discarded>>
    BY <1>7 DEF TakeWork, HasWork, Busy, program
  <2>2. Starts(t, Head(upstream), "act")
    BY <2>1, StartsOne
  <2> QED
    BY <2>1, <2>2 DEF Effect, TakesWork
<1>8. ASSUME TakeScheduled PROVE Effect
  <2>1. PICK k \in Due : timer' = timer \ {k} /\ job' = [job EXCEPT ![Timer] = k]
    BY <1>8 DEF TakeScheduled
  <2>2. /\ pc' = [pc EXCEPT ![Timer] = "act"] /\ ~Busy(Timer)
        /\ UNCHANGED <<state, upstream, downstream, failed, unsent, collected, discarded>>
    BY <1>8 DEF TakeScheduled, Busy, program
  <2>3. k \in Kernels /\ k \in timer /\ Timer \in Threads
    BY PipelineAssumption, ThreadSets DEF Due, TypeInv, TypeOK
  <2>4. Starts(Timer, k, "act")
    BY <2>1, <2>2, <2>3, StartsOne
  <2> QED
    BY <2>1, <2>2, <2>3, <2>4 DEF Effect, TakesScheduled
<1>9. ASSUME NEW t \in Threads, Wait(t) \/ Exit(t) PROVE Effect
  <2>1. /\ ~Busy(t)
        /\ pc' = [pc EXCEPT ![t] = "waiting"] \/ pc' = [pc EXCEPT ![t] = "exited"]
        /\ UNCHANGED <<state, queues, job, unsent, collected, discarded>>
    BY <1>9 DEF Wait, Exit, Busy, program
  <2>2. Undisturbed
    BY <2>1, IdlesQuietly
  <2> QED
    BY <2>1, <2>2 DEF Effect, NothingMoves, queues
<1>10. ASSUME NEW t \in UpThreads \cup downThreads, SpuriousWakeup(t) PROVE Effect
  <2>1. /\ ~Busy(t) /\ pc' = [pc EXCEPT ![t] = "check"]
        /\ UNCHANGED <<state, queues, job, unsent, collected, discarded>>
    BY <1>10 DEF SpuriousWakeup, Busy, program
  <2>2. t \in Threads
    BY ThreadSets DEF TypeInv, PoolThreads
  <2>3. Undisturbed
    BY <2>1, <2>2, IdlesQuietly
  <2> QED
    BY <2>1, <2>3 DEF Effect, NothingMoves, queues
<1>11. ASSUME Sleep \/ Alarm \/ ExitTimer PROVE Effect
  <2>1. /\ ~Busy(Timer)
        /\ \/ pc' = [pc EXCEPT ![Timer] = "waiting"] \/ pc' = [pc EXCEPT ![Timer] = "exited"]
           \/ pc' = [pc EXCEPT ![Timer] = "woken"]
        /\ UNCHANGED <<state, queues, job, unsent, collected, discarded>>
    BY <1>11 DEF Sleep, Alarm, ExitTimer, Busy, program
  <2>2. Undisturbed
    BY <2>1, ThreadSets, IdlesQuietly DEF TypeInv
  <2> QED
    BY <2>1, <2>2 DEF Effect, NothingMoves, queues
<1>12. ASSUME NEW t \in Threads, FinishAct(t) PROVE Effect
  <2>1. /\ Busy(t) /\ Free(t) /\ pc[t] = "act" /\ pc' = Released(t)
        /\ Children(job[t]) # {} /\ unsent[job[t]] = {}
        /\ UNCHANGED <<state, queues, unsent, collected, discarded>>
    BY <1>12 DEF FinishAct, Busy, program
  <2>2. Ends(t)
    BY <2>1, ReleasedType, EndsOne
  <2> QED
    BY <2>1, <2>2 DEF Effect, FinishesAct, queues
<1>13. ASSUME NEW t \in Threads, CommitAct(t) PROVE Effect
  <2>1. /\ Busy(t) /\ Free(t) /\ pc[t] = "act" /\ SendDownstream(job[t], Released(t))
        /\ Children(job[t]) = {}
        /\ UNCHANGED <<state, upstream, timer, failed, unsent, collected, discarded>>
    BY <1>13 DEF CommitAct, Busy, program
  <2>2. job[t] \in Kernels
    BY <2>1 DEF TypeInv, TypeOK, ThreadsOK
  <2>3. Passes(job[t]) /\ Ends(t)
    BY <2>1, <2>2, ReleasedType, PassesEffect, EndsOne
  <2> QED
    BY <2>1, <2>2, <2>3 DEF Effect, Commits
<1>14. ASSUME NEW t \in Threads, ThrowAct(t) PROVE Effect
  <2>1. /\ Busy(t) /\ Free(t) /\ pc[t] = "act" /\ pc' = Released(t)
        /\ job[t] \in MayThrow /\ failed' = failed \cup {job[t]}
        /\ UNCHANGED <<state, upstream, downstream, timer, unsent, collected, discarded>>
    BY <1>14 DEF ThrowAct, Busy, program
  <2>2. Ends(t)
    BY <2>1, ReleasedType, EndsOne
  <2>3. job[t] \in Kernels
    BY <2>1 DEF TypeInv, TypeOK, ThreadsOK
  <2> QED
    BY <2>1, <2>2, <2>3 DEF Effect, Throws
<1>15. ASSUME NEW t \in Threads, React(t) PROVE Effect
  <2> DEFINE k == job[t]
             p == ParentOf[k]
             passed == p # NoKernel /\ collected[p] \cup {k} = Children(p)
  <2>1. /\ Busy(t) /\ Free(t) /\ pc[t] = "react"
        /\ collected' = [collected EXCEPT ![p] = @ \cup {k}]
        /\ IF passed THEN SendDownstream(p, Released(t))
                     ELSE pc' = Released(t) /\ UNCHANGED downstream
        /\ UNCHANGED <<state, upstream, timer, failed, unsent, discarded>>
    BY <1>15 DEF React, Busy
  <2>2. k \in Kernels /\ p \in Kernels \cup {NoKernel}
    BY <2>1, PipelineAssumption DEF TypeInv, TypeOK, ThreadsOK
  <2>3. CASE passed
    <3>1. Passes(p) /\ Ends(t)
      BY <2>1, <2>2, <2>3, ReleasedType, PassesEffect, EndsOne
    <3>2. Reacts(t)
      BY <2>1, <2>2, <2>3, <3>1 DEF Reacts
    <3> QED
      BY <3>2 DEF Effect
  <2>4. CASE ~passed
    <3>1. Ends(t) /\ UNCHANGED downstream
      BY <2>1, <2>4, ReleasedType, EndsOne
    <3>2. Reacts(t)
      BY <2>1, <2>2, <2>4, <3>1 DEF Reacts
    <3> QED
      BY <3>2 DEF Effect
  <2> QED
    BY <2>3, <2>4
<1>16. ASSUME NEW k \in Kernels, ReturnFailed(k) PROVE Effect
  <2>1. /\ state \in {"started", "stopping"} /\ k \in failed /\ failed' = failed \ {k}
        /\ SendDownstream(k, pc)
        /\ UNCHANGED <<state, upstream, timer, job, unsent, collected, discarded>>
    BY <1>16 DEF ReturnFailed, program
  <2>2. Passes(k) /\ Undisturbed
    BY <2>1, PassesEffect, WakesQuietly DEF TypeInv, TypeOK
  <2> QED
    BY <2>1, <2>2 DEF Effect, SendsBack
<1>17. ASSUME Stop PROVE Effect
  <2>1. OnlyWakes(pc, pc')
    BY <1>17, ThreadSets, NotifyWakes DEF Stop, StopWakes, TypeInv, TypeOK
  <2>2. Undisturbed
    BY <1>17, <2>1, WakesQuietly DEF Stop
  <2> QED
    BY <1>17, <2>2 DEF Stop, Effect, NothingMoves, queues, program
<1>18. ASSUME Join \/ Tick \/ (\E k \in Kernels : GetId(k)) PROVE Effect
  BY <1>18 DEF Join, Tick, GetId, Effect, NothingMoves, Undisturbed, Quiet, queues, threads, program
<1>19. ASSUME Clear PROVE Effect
  BY <1>19 DEF Clear, Clears, Effect, threads, program
<1> QED
  BY <1>2, <1>3, <1>4, <1>5, <1>6, <1>7, <1>8, <1>9, <1>10, <1>11, <1>12, <1>13, <1>14, <1>15,
     <1>16, <1>17, <1>18, <1>19 DEF Step, Work, TimerWork

-----------------------------------------------------------------------------
(***************************************************************************)
(* The reacts of one parent.                                               *)
(***************************************************************************)

(* The kernels of a parent that never gets an id are in one slot, and its  *)
(* reacts run on the thread of that slot.                                  *)
ByAddress(k, s) == ParentOf[k] \notin Remote => SlotByAddress[downThreads][ParentOf[k]] = s

InSlot ==
    /\ \A s \in Slots : \A k \in Range(downstream[s]) : ByAddress(k, s)
    /\ \A t \in Threads : pc[t] = "react" => ByAddress(job[t], t)

(* A kernel that is passed on goes to the slot its principal hashes to.    *)
LEMMA PassedToSlot ==
    ASSUME TypeInv, InSlot, NEW k \in Kernels, Passes(k), UNCHANGED downThreads
    PROVE  \A s \in Slots : \A j \in Range(downstream'[s]) : ByAddress(j, s)
<1> DEFINE r == SlotOf(ParentOf[k])
<1>1. r \in Slots /\ downstream' = [downstream EXCEPT ![r] = Append(@, k)]
  BY DEF Passes
<1>2. ByAddress(k, r)
  BY DEF ByAddress, SlotOf, TypeInv, TypeOK
<1> HIDE DEF r
<1>3. downstream[r] \in Seq(Kernels)
  BY <1>1 DEF TypeInv, TypeOK
<1>4. Range(Append(downstream[r], k)) = Range(downstream[r]) \cup {k}
  BY <1>3, RangeOfAppend
<1>5. ASSUME NEW s \in Slots
      PROVE  Range(downstream'[s]) = IF s = r THEN Range(downstream[s]) \cup {k}
                                               ELSE Range(downstream[s])
  BY <1>1, <1>4 DEF TypeInv, TypeOK
<1> QED
  BY <1>2, <1>5 DEF InSlot

(* Every step keeps the kernels of a principal in one slot.                *)
LEMMA InSlotStep ==
    ASSUME TypeInv, TypeOK', InSlot, [Next]_vars
    PROVE  InSlot'
<1>1. Effect /\ UNCHANGED downThreads /\ Slots' = Slots
  BY StepEffect DEF Next, vars, Slots
<1>2. ASSUME NEW j, NEW s PROVE ByAddress(j, s)' <=> ByAddress(j, s)
  BY <1>1 DEF ByAddress
<1> DEFINE SlotsKept == \A s \in Slots : \A j \in Range(downstream'[s]) : ByAddress(j, s)
           ReactsKept == \A t \in Threads : pc'[t] = "react" => ByAddress(job'[t], t)
<1>3. UNCHANGED downstream => SlotsKept
  BY DEF InSlot
<1>4. Undisturbed => ReactsKept
  BY DEF Undisturbed, Quiet, Busy, InSlot
<1>5. ASSUME NEW t \in Threads, NEW k, Starts(t, k, "act") PROVE ReactsKept
  BY <1>5 DEF Starts, Quiet, Busy, InSlot
<1>6. ASSUME NEW t \in Threads, Ends(t) PROVE ReactsKept
  BY <1>6 DEF Ends, Quiet, Busy, InSlot
<1>7. ASSUME NEW k \in Kernels, Passes(k) PROVE SlotsKept
  BY <1>1, <1>7, PassedToSlot
<1>8. SUFFICES SlotsKept /\ ReactsKept
  BY <1>1, <1>2 DEF InSlot
<1>9. CASE NothingMoves
  BY <1>3, <1>4, <1>9 DEF NothingMoves
<1>10. ASSUME NEW p \in Kernels \cup {NoKernel}, NEW k \in Kernels, Sends(p, k)
       PROVE  SlotsKept /\ ReactsKept
  <2>1. UNCHANGED downstream /\ (Undisturbed \/ Starts(k, k, "act"))
    BY <1>10 DEF Sends
  <2> QED
    BY <1>3, <1>4, <1>5, <2>1 DEF Starts
<1>11. ASSUME NEW t \in Threads, SendsAll(t) PROVE SlotsKept /\ ReactsKept
  <2>1. UNCHANGED downstream
    BY <1>11 DEF SendsAll
  <2>2. ASSUME NEW u \in Threads, pc'[u] = "react" PROVE pc[u] = "react" /\ job'[u] = job[u]
    BY <1>11, <2>2 DEF SendsAll, Quiet, Busy
  <2> QED
    BY <1>3, <2>1, <2>2 DEF InSlot
<1>12. ASSUME NEW t \in Threads, TakesReturn(t) PROVE SlotsKept /\ ReactsKept
  <2>1. /\ t \in Slots /\ downstream[t] # <<>> /\ downstream[t] \in Seq(Kernels)
        /\ downstream' = [downstream EXCEPT ![t] = Tail(@)]
        /\ Starts(t, Head(downstream[t]), "react")
    BY <1>12 DEF TakesReturn, TypeInv, TypeOK
  <2>2. /\ Head(downstream[t]) \in Range(downstream[t])
        /\ Range(Tail(downstream[t])) \subseteq Range(downstream[t])
    BY <2>1, RangeOfTail
  <2>3. ASSUME NEW s \in Slots PROVE Range(downstream'[s]) \subseteq Range(downstream[s])
    BY <2>1, <2>2 DEF TypeInv, TypeOK
  <2>4. SlotsKept
    BY <2>3 DEF InSlot
  <2>5. ReactsKept
    BY <2>1, <2>2 DEF Starts, Quiet, Busy, InSlot
  <2> QED
    BY <2>4, <2>5
<1>13. ASSUME NEW t \in Threads, TakesWork(t) PROVE SlotsKept /\ ReactsKept
  BY <1>3, <1>5, <1>13 DEF TakesWork
<1>14. ASSUME NEW t \in Threads, FinishesAct(t) \/ Throws(t) PROVE SlotsKept /\ ReactsKept
  BY <1>3, <1>6, <1>14 DEF FinishesAct, Throws
<1>15. ASSUME NEW t \in Threads, Commits(t) PROVE SlotsKept /\ ReactsKept
  BY <1>6, <1>7, <1>15 DEF Commits
<1>16. ASSUME NEW t \in Threads, Reacts(t) PROVE SlotsKept /\ ReactsKept
  <2>1. ParentOf[job[t]] # NoKernel => ParentOf[job[t]] \in Kernels
    BY <1>16, PipelineAssumption DEF Reacts
  <2> QED
    BY <1>3, <1>6, <1>7, <1>16, <2>1 DEF Reacts
<1>17. ASSUME NEW k \in Kernels, TakesScheduled(k) PROVE SlotsKept /\ ReactsKept
  BY <1>3, <1>5, <1>17, ThreadSets DEF TakesScheduled, TypeInv
<1>18. ASSUME NEW k \in Kernels, SendsBack(k) PROVE SlotsKept /\ ReactsKept
  BY <1>4, <1>7, <1>18 DEF SendsBack
<1>19. CASE Clears
  <2>1. \A s \in Slots : Range(downstream'[s]) = {}
    BY <1>19, RangeOfEmpty DEF Clears
  <2> QED
    BY <1>19, <2>1 DEF Clears, InSlot
<1> QED
  BY <1>1, <1>9, <1>10, <1>11, <1>12, <1>13, <1>14, <1>15, <1>16, <1>17, <1>18, <1>19 DEF Effect

(* The kernels of a principal without an id stay in one slot and on one    *)
(* thread.                                                                 *)
THEOREM InSlotInvariance == Spec => [](TypeInv /\ InSlot)
<1>1. Init => InSlot
  BY RangeOfEmpty DEF Init, InSlot
<1>2. TypeInv /\ InSlot /\ [Next]_vars => InSlot'
  BY TypeStep, InSlotStep
<1>3. TypeInv /\ [Next]_vars => TypeInv'
  BY TypeStep, FamilyStep DEF TypeInv
<1> QED
  BY <1>1, <1>2, <1>3, TypeInit, PTL DEF Spec

(* However many threads there are and wherever principals hash to, no two  *)
(* of them run react() of one principal at a time, unless it gets an id.   *)
THEOREM OneReactAtATime == Spec => []ReactsSerial
<1>1. TypeInv /\ InSlot => ReactsSerial
  BY PipelineAssumption DEF InSlot, ByAddress, ReactsSerial
<1> QED
  BY <1>1, InSlotInvariance, PTL

-----------------------------------------------------------------------------
(***************************************************************************)
(* Where the kernels are.                                                  *)
(***************************************************************************)
Fresh == {k \in Kernels : k \in unsent[ParentOf[k]]}
InUp == Range(upstream)
InDown == UNION {Range(downstream[s]) : s \in Slots}
Acting == {k \in Kernels : Children(k) = {} /\ \E t \in Threads : pc[t] = "act" /\ job[t] = k}
Reacting == {k \in Kernels : \E t \in Threads : pc[t] = "react" /\ job[t] = k}
Back == {k \in Kernels : k \in collected[ParentOf[k]]}

Begun == Fresh \cup InUp \cup timer
Done == failed \cup InDown \cup Reacting \cup Back
Everywhere == Begun \cup Acting \cup Done \cup discarded

(* No kernel is in two of these places ...                                 *)
Apart ==
    /\ Fresh \cap (InUp \cup timer \cup Acting \cup Done \cup discarded) = {}
    /\ InUp \cap (timer \cup Acting \cup Done \cup discarded) = {}
    /\ timer \cap (Acting \cup Done \cup discarded) = {}
    /\ Acting \cap (Done \cup discarded) = {}
    /\ failed \cap (InDown \cup Reacting \cup Back \cup discarded) = {}
    /\ InDown \cap (Reacting \cup Back \cup discarded) = {}
    /\ Reacting \cap (Back \cup discarded) = {}
    /\ Back \cap discarded = {}

(* ... or twice in one of them.                                            *)
SingleThread ==
    \A t, u \in Threads : Busy(t) /\ pc[t] = pc[u] /\ job[t] = job[u] => t = u

SingleDown ==
    /\ \A s \in Slots : IsInjective(downstream[s])
    /\ \A r, s \in Slots : r # s => Range(downstream[r]) \cap Range(downstream[s]) = {}

Single == IsInjective(upstream) /\ SingleDown /\ SingleThread

(* A kernel that has not been executed yet has all its children in its     *)
(* hands, and one that is passed on has got them all back.                 *)
Untouched ==
    \A k \in Begun :
        unsent[k] = Children(k) /\ collected[k] = {} /\ \A t \in Threads : job[t] # k

Complete == \A k \in Done : collected[k] = Children(k)

(* A kernel that is nowhere waits for children, and it is not the kernel   *)
(* but act() that has them if some of them have not been sent.             *)
InAct(k) == \E t \in Threads : pc[t] = "act" /\ job[t] = k

Accounted ==
    \A k \in Kernels \ Everywhere :
        collected[k] # Children(k) /\ (unsent[k] # {} => InAct(k))

(* Only clear() deletes kernels, and it finds all that did not come back.  *)
Cleared ==
    /\ state # "cleared" => discarded = {}
    /\ state = "cleared" => /\ InUp = {} /\ InDown = {} /\ timer = {} /\ failed = {}
                            /\ discarded = Kernels \ (Fresh \cup Back)

Books == Apart /\ Single /\ Untouched /\ Complete /\ Accounted /\ Cleared

-----------------------------------------------------------------------------
(* How the places change.                                                  *)
LEMMA PlacesOfKernels ==
    ASSUME TypeInv
    PROVE  /\ InUp \subseteq Kernels /\ InDown \subseteq Kernels /\ timer \subseteq Kernels
           /\ failed \subseteq Kernels
           /\ \A s \in Slots : Range(downstream[s]) \subseteq InDown
<1>1. InUp \subseteq Kernels
  BY RangeOfSeq DEF InUp, TypeInv, TypeOK
<1>2. ASSUME NEW s \in Slots PROVE Range(downstream[s]) \subseteq Kernels
  <2>1. downstream[s] \in Seq(Kernels)
    BY DEF TypeInv, TypeOK
  <2> QED
    BY <2>1, RangeOfSeq
<1>3. timer \subseteq Kernels /\ failed \subseteq Kernels
  BY PipelineAssumption DEF TypeInv, TypeOK
<1> QED
  BY <1>1, <1>2, <1>3 DEF InDown

(* If no thread starts or ends an execution the threads execute the same   *)
(* kernels.                                                                *)
LEMMA UndisturbedPlaces ==
    ASSUME Undisturbed
    PROVE  /\ Acting' = Acting /\ Reacting' = Reacting
           /\ (SingleThread => SingleThread')
           /\ \A k : InAct(k) => InAct(k)'
<1>1. Acting' = Acting /\ Reacting' = Reacting
  BY DEF Undisturbed, Quiet, Busy, Acting, Reacting
<1>2. SingleThread => SingleThread'
  BY DEF Undisturbed, Quiet, Busy, SingleThread
<1>3. \A k : InAct(k) => InAct(k)'
  BY DEF Undisturbed, Quiet, Busy, InAct
<1> QED
  BY <1>1, <1>2, <1>3

(* A thread that starts to execute a kernel adds it to those being         *)
(* executed.                                                               *)
LEMMA StartedPlaces ==
    ASSUME NEW t \in Threads, NEW k \in Kernels, NEW what \in {"act", "react"}, Starts(t, k, what),
           SingleThread, \A u \in Threads : pc[u] = what => job[u] # k
    PROVE  /\ Acting' = IF what = "act" /\ Children(k) = {} THEN Acting \cup {k} ELSE Acting
           /\ Reacting' = IF what = "react" THEN Reacting \cup {k} ELSE Reacting
           /\ SingleThread'
           /\ \A j : InAct(j) => InAct(j)'
           /\ what = "act" => InAct(k)'
<1>1. Acting' = IF what = "act" /\ Children(k) = {} THEN Acting \cup {k} ELSE Acting
  BY DEF Starts, Quiet, Busy, Acting
<1>2. Reacting' = IF what = "react" THEN Reacting \cup {k} ELSE Reacting
  BY DEF Starts, Quiet, Busy, Reacting
<1>3. SingleThread'
  <2>1. SUFFICES ASSUME NEW a \in Threads, NEW b \in Threads, Busy(a)', pc'[a] = pc'[b],
                        job'[a] = job'[b], a # b
                 PROVE  FALSE
    BY DEF SingleThread, Busy
  <2>2. Busy(b)'
    BY <2>1 DEF Busy
  <2>3. ASSUME NEW u \in Threads \ {t}, Busy(u)' PROVE pc'[u] = pc[u] /\ job'[u] = job[u] /\ Busy(u)
    BY <2>3 DEF Starts, Quiet, Busy
  <2>4. pc'[t] = what /\ job'[t] = k
    BY DEF Starts
  <2>5. CASE a = t
    BY <2>1, <2>2, <2>3, <2>4, <2>5
  <2>6. CASE b = t
    BY <2>1, <2>2, <2>3, <2>4, <2>6
  <2>7. CASE a # t /\ b # t
    BY <2>1, <2>2, <2>3, <2>7 DEF SingleThread
  <2> QED
    BY <2>5, <2>6, <2>7
<1>4. \A j : InAct(j) => InAct(j)'
  BY DEF Starts, Quiet, Busy, InAct
<1>5. what = "act" => InAct(k)'
  BY DEF Starts, InAct
<1> QED
  BY <1>1, <1>2, <1>3, <1>4, <1>5

(* A thread that ends the execution of a kernel takes it from those being  *)
(* executed.                                                               *)
LEMMA EndedPlaces ==
    ASSUME NEW t \in Threads, Ends(t), SingleThread
    PROVE  /\ Acting' = IF pc[t] = "act" THEN Acting \ {job[t]} ELSE Acting
           /\ Reacting' = IF pc[t] = "react" THEN Reacting \ {job[t]} ELSE Reacting
           /\ SingleThread'
           /\ \A j : InAct(j) /\ (pc[t] = "react" \/ j # job[t]) => InAct(j)'
           /\ \A u \in Threads : job'[u] = job[u] \/ job'[u] = NoKernel
<1>1. ASSUME NEW u \in Threads
      PROVE  /\ Busy(u)' => u # t /\ Busy(u) /\ pc'[u] = pc[u] /\ job'[u] = job[u]
             /\ Busy(u) /\ u # t => pc'[u] = pc[u] /\ job'[u] = job[u]
  BY DEF Ends, Quiet, Busy
<1>2. ASSUME NEW u \in Threads, u # t, pc[u] = pc[t] PROVE job[u] # job[t]
  BY <1>2 DEF Ends, SingleThread
<1>3. Acting' = IF pc[t] = "act" THEN Acting \ {job[t]} ELSE Acting
  BY <1>1, <1>2 DEF Acting, Busy
<1>4. Reacting' = IF pc[t] = "react" THEN Reacting \ {job[t]} ELSE Reacting
  BY <1>1, <1>2 DEF Reacting, Busy
<1>5. SingleThread'
  BY <1>1 DEF SingleThread, Busy
<1>6. \A j : InAct(j) /\ (pc[t] = "react" \/ j # job[t]) => InAct(j)'
  BY <1>1 DEF InAct, Busy
<1>7. \A u \in Threads : job'[u] = job[u] \/ job'[u] = NoKernel
  BY DEF Ends, Quiet
<1> QED
  BY <1>3, <1>4, <1>5, <1>6, <1>7

(* A kernel that is passed on is one more in the downstream queues.        *)
LEMMA PassedPlaces ==
    ASSUME TypeInv, SingleDown, NEW k \in Kernels, Passes(k), k \notin InDown,
           UNCHANGED downThreads
    PROVE  InDown' = InDown \cup {k} /\ SingleDown'
<1> DEFINE r == SlotOf(ParentOf[k])
<1>1. r \in Slots /\ downstream' = [downstream EXCEPT ![r] = Append(@, k)] /\ Slots' = Slots
  BY DEF Passes, Slots
<1> HIDE DEF r
<1>2. downstream[r] \in Seq(Kernels) /\ k \notin Range(downstream[r])
  BY <1>1 DEF TypeInv, TypeOK, InDown
<1>3. /\ Range(Append(downstream[r], k)) = Range(downstream[r]) \cup {k}
      /\ IsInjective(Append(downstream[r], k))
  BY <1>1, <1>2, RangeOfAppend DEF SingleDown
<1>4. /\ downstream'[r] = Append(downstream[r], k)
      /\ \A s \in Slots \ {r} : downstream'[s] = downstream[s]
  BY <1>1 DEF TypeInv, TypeOK
<1>5. InDown' = InDown \cup {k}
  BY <1>1, <1>3, <1>4 DEF InDown
<1>6. \A s \in Slots : k \notin Range(downstream[s])
  BY DEF InDown
<1>7. SingleDown'
  <2>1. ASSUME NEW s \in Slots
        PROVE  /\ IsInjective(downstream'[s])
               /\ Range(downstream'[s]) \subseteq Range(downstream[s]) \cup {k}
               /\ s # r => Range(downstream'[s]) = Range(downstream[s])
    BY <1>1, <1>3, <1>4 DEF SingleDown
  <2>2. ASSUME NEW a \in Slots, NEW b \in Slots, a # b
        PROVE  Range(downstream'[a]) \cap Range(downstream'[b]) = {}
    <3>1. Range(downstream[a]) \cap Range(downstream[b]) = {}
      BY <2>2 DEF SingleDown
    <3> QED
      BY <1>6, <2>1, <2>2, <3>1
  <2> QED
    BY <1>1, <2>1, <2>2 DEF SingleDown
<1> QED
  BY <1>5, <1>7

(* The head of a downstream queue leaves it.                               *)
LEMMA TakenPlaces ==
    ASSUME TypeInv, SingleDown, NEW t \in Slots, downstream[t] # <<>>,
           downstream' = [downstream EXCEPT ![t] = Tail(@)], UNCHANGED downThreads
    PROVE  /\ Head(downstream[t]) \in InDown
           /\ InDown' = InDown \ {Head(downstream[t])} /\ SingleDown'
<1> DEFINE k == Head(downstream[t])
<1>1. downstream[t] \in Seq(Kernels) /\ IsInjective(downstream[t]) /\ Slots' = Slots
  BY DEF TypeInv, TypeOK, SingleDown, Slots
<1>2. /\ k \in Range(downstream[t]) /\ k \notin Range(Tail(downstream[t]))
      /\ Range(downstream[t]) = Range(Tail(downstream[t])) \cup {k}
      /\ IsInjective(Tail(downstream[t]))
  BY <1>1, RangeOfTail
<1> HIDE DEF k
<1>3. /\ downstream'[t] = Tail(downstream[t])
      /\ \A s \in Slots \ {t} : downstream'[s] = downstream[s] /\ k \notin Range(downstream[s])
  BY <1>2 DEF TypeInv, TypeOK, SingleDown
<1>4. k \in InDown
  BY <1>2 DEF InDown
<1>5. InDown' = InDown \ {k}
  BY <1>1, <1>2, <1>3 DEF InDown
<1>6. SingleDown'
  <2>1. ASSUME NEW s \in Slots
        PROVE  IsInjective(downstream'[s]) /\ Range(downstream'[s]) \subseteq Range(downstream[s])
    BY <1>1, <1>2, <1>3 DEF SingleDown
  <2>2. ASSUME NEW a \in Slots, NEW b \in Slots, a # b
        PROVE  Range(downstream'[a]) \cap Range(downstream'[b]) = {}
    <3>1. Range(downstream[a]) \cap Range(downstream[b]) = {}
      BY <2>2 DEF SingleDown
    <3> QED
      BY <2>1, <3>1
  <2> QED
    BY <1>1, <2>1, <2>2 DEF SingleDown
<1> QED
  BY <1>4, <1>5, <1>6 DEF k

-----------------------------------------------------------------------------
(* Every effect keeps the books.                                           *)
LEMMA BusyBooks ==
    ASSUME TypeInv, Books, NEW t \in Threads, Busy(t)
    PROVE  state \notin {"stopped", "cleared"} /\ discarded = {}
BY DEF TypeInv, ThreadsOK, Busy, Books, Cleared

(* A step that moves no kernel: a wake-up, a tick, stop() or the join of   *)
(* the threads.                                                            *)
LEMMA NothingMovesBooks ==
    ASSUME TypeInv, Books, UNCHANGED downThreads, NothingMoves
    PROVE  Books'
<1>1. /\ Fresh' = Fresh /\ InUp' = InUp /\ timer' = timer /\ failed' = failed
      /\ InDown' = InDown /\ Back' = Back /\ discarded' = discarded
  BY DEF NothingMoves, Fresh, InUp, InDown, Back, Slots
<1>2. /\ Acting' = Acting /\ Reacting' = Reacting /\ SingleThread'
      /\ \A k : InAct(k) => InAct(k)'
  BY UndisturbedPlaces DEF NothingMoves, Books, Single
<1>3. Begun' = Begun /\ Done' = Done /\ Everywhere' = Everywhere
  BY <1>1, <1>2 DEF Begun, Done, Everywhere
<1>4. Apart'
  BY <1>1, <1>2, <1>3 DEF Books, Apart
<1>5. Single'
  BY <1>2 DEF NothingMoves, Books, Single, SingleDown, Slots
<1>6. Untouched'
  BY <1>3 DEF NothingMoves, Undisturbed, Quiet, Books, Untouched
<1>7. Complete' /\ Accounted'
  BY <1>2, <1>3 DEF NothingMoves, Books, Complete, Accounted
<1>8. Cleared'
  BY <1>1 DEF NothingMoves, Books, Cleared
<1> QED
  BY <1>4, <1>5, <1>6, <1>7, <1>8 DEF Books

(* A parent sends one child.                                               *)
LEMMA SendsBooks ==
    ASSUME TypeInv, Books, UNCHANGED downThreads,
           NEW p \in Kernels \cup {NoKernel}, NEW k \in Kernels, Sends(p, k)
    PROVE  Books'
<1>1. /\ k \in unsent[p] /\ ParentOf[k] = p /\ unsent' = [unsent EXCEPT ![p] = @ \ {k}]
      /\ UNCHANGED <<state, downstream, failed, collected, discarded>> /\ state # "cleared"
      /\ p = NoKernel \/ (\E t \in Threads : pc[t] = "act" /\ job[t] = p)
  BY DEF Sends
<1>2. k \in Fresh /\ Fresh' = Fresh \ {k}
  BY <1>1 DEF Fresh, TypeInv, TypeOK
<1>3. /\ InDown' = InDown /\ Back' = Back /\ failed' = failed /\ discarded' = discarded
      /\ SingleDown' = SingleDown
  BY <1>1 DEF InDown, Back, Slots, SingleDown
<1>4. \A j \in Kernels : j # p => unsent'[j] = unsent[j]
  BY <1>1 DEF TypeInv, TypeOK
<1>5. p \notin Begun
  <2>1. NoKernel \notin Begun
    BY PlacesOfKernels, PipelineAssumption DEF Begun, Fresh
  <2> QED
    BY <1>1, <2>1 DEF Books, Untouched
<1>6. k \in Begun /\ unsent[k] = Children(k) /\ collected[k] = {} /\ \A t \in Threads : job[t] # k
  BY <1>2 DEF Begun, Books, Untouched
<1>7. \A j \in Kernels : unsent'[j] \subseteq unsent[j]
  BY <1>1, <1>4 DEF TypeInv, TypeOK
<1>8. Cleared'
  BY <1>1 DEF Books, Cleared
<1>9. k \notin InUp /\ k \notin timer /\ k \notin Acting /\ k \notin Done /\ k \notin discarded
  BY <1>2 DEF Books, Apart
<1> DEFINE ToTimer == timer' = timer \cup {k} /\ Undisturbed /\ UNCHANGED upstream
           ToThread == Starts(k, k, "act") /\ UNCHANGED <<upstream, timer>>
           ToUp == upstream' = Append(upstream, k) /\ Undisturbed /\ UNCHANGED timer
<1>10. ToTimer \/ ToThread \/ ToUp
  BY DEF Sends
<1>11. CASE ToTimer
  <2>1. /\ InUp' = InUp /\ timer' = timer \cup {k} /\ Acting' = Acting /\ Reacting' = Reacting
        /\ SingleThread' /\ \A j : InAct(j) => InAct(j)'
    BY <1>11, UndisturbedPlaces DEF InUp, Books, Single
  <2>2. Begun' = Begun /\ Done' = Done /\ Everywhere' = Everywhere
    BY <1>2, <1>3, <2>1 DEF Begun, Done, Everywhere
  <2>3. Apart'
    BY <1>2, <1>3, <1>9, <2>1, <2>2 DEF Books, Apart
  <2>4. Single'
    BY <1>3, <1>11, <2>1 DEF Books, Single
  <2>5. Untouched'
    <3>1. \A t \in Threads : job'[t] = job[t]
      BY <1>11 DEF Undisturbed, Quiet
    <3>2. \A j \in Begun : j \in Kernels /\ j # p
      BY <1>5, PlacesOfKernels DEF Begun, Fresh
    <3> QED
      BY <1>1, <1>4, <2>2, <3>1, <3>2 DEF Books, Untouched
  <2>6. Complete' /\ Accounted'
    BY <1>1, <1>7, <2>1, <2>2 DEF Books, Complete, Accounted
  <2> QED
    BY <1>8, <2>3, <2>4, <2>5, <2>6 DEF Books
<1>12. CASE ToUp
  <2>1. /\ timer' = timer /\ Acting' = Acting /\ Reacting' = Reacting
        /\ SingleThread' /\ \A j : InAct(j) => InAct(j)'
    BY <1>12, UndisturbedPlaces DEF Books, Single
  <2>2. InUp' = InUp \cup {k} /\ IsInjective(upstream')
    <3>1. upstream \in Seq(Kernels) /\ k \notin Range(upstream) /\ IsInjective(upstream)
      BY <1>9 DEF InUp, TypeInv, TypeOK, Books, Single
    <3> QED
      BY <1>12, <3>1, RangeOfAppend DEF InUp
  <2>3. Begun' = Begun /\ Done' = Done /\ Everywhere' = Everywhere
    BY <1>2, <1>3, <2>1, <2>2 DEF Begun, Done, Everywhere
  <2>4. Apart'
    BY <1>2, <1>3, <1>9, <2>1, <2>2, <2>3 DEF Books, Apart
  <2>5. Single'
    BY <1>3, <2>1, <2>2 DEF Books, Single
  <2>6. Untouched'
    <3>1. \A t \in Threads : job'[t] = job[t]
      BY <1>12 DEF Undisturbed, Quiet
    <3>2. \A j \in Begun : j \in Kernels /\ j # p
      BY <1>5, PlacesOfKernels DEF Begun, Fresh
    <3> QED
      BY <1>1, <1>4, <2>3, <3>1, <3>2 DEF Books, Untouched
  <2>7. Complete' /\ Accounted'
    BY <1>1, <1>7, <2>1, <2>3 DEF Books, Complete, Accounted
  <2> QED
    BY <1>8, <2>4, <2>5, <2>6, <2>7 DEF Books
<1>13. CASE ToThread
  <2>1. /\ InUp' = InUp /\ timer' = timer
        /\ Acting' = IF Children(k) = {} THEN Acting \cup {k} ELSE Acting
        /\ Reacting' = Reacting
        /\ SingleThread' /\ (\A j : InAct(j) => InAct(j)') /\ InAct(k)'
    <3>1. k \in Threads
      BY <1>13 DEF Starts
    <3> QED
      BY <1>6, <1>13, <3>1, StartedPlaces DEF InUp, Books, Single
  <2>2. Begun' = Begun \ {k} /\ Done' = Done
    BY <1>2, <1>3, <1>9, <2>1 DEF Begun, Done
  <2>3. Apart'
    BY <1>2, <1>3, <1>9, <2>1, <2>2 DEF Books, Apart
  <2>4. Single'
    BY <1>3, <1>13, <2>1 DEF Books, Single
  <2>5. Untouched'
    <3>1. \A t \in Threads : job'[t] = job[t] \/ job'[t] = k
      BY <1>13 DEF Starts, Quiet
    <3>2. \A j \in Begun : j \in Kernels /\ j # p
      BY <1>5, PlacesOfKernels DEF Begun, Fresh
    <3> QED
      BY <1>1, <1>4, <2>2, <3>1, <3>2 DEF Books, Untouched
  <2>6. Complete'
    BY <1>1, <2>2 DEF Books, Complete
  <2>7. Accounted'
    <3>1. ASSUME NEW j \in Kernels, j \notin Everywhere', j # k
          PROVE  collected'[j] # Children(j) /\ (unsent'[j] # {} => InAct(j)')
      <4>1. j \notin Everywhere
        BY <1>3, <2>1, <2>2, <3>1 DEF Everywhere
      <4> QED
        BY <1>1, <1>7, <2>1, <4>1 DEF Books, Accounted
    <3>2. ASSUME k \notin Everywhere' PROVE collected'[k] # Children(k)
      BY <1>1, <1>6, <2>1, <3>2 DEF Everywhere
    <3> QED
      BY <2>1, <3>1, <3>2 DEF Accounted
  <2> QED
    BY <1>8, <2>3, <2>4, <2>5, <2>6, <2>7 DEF Books
<1> QED
  BY <1>10, <1>11, <1>12, <1>13

(* Taking, finishing and passing kernels leaves the hands of the parents   *)
(* as they are.                                                            *)
LEMMA MovedBooks ==
    ASSUME Books, state # "cleared",
           UNCHANGED <<downThreads, unsent, collected, state, discarded>>,
           Single', Apart', Begun' \subseteq Begun,
           \A j \in Begun' : \A t \in Threads : job'[t] # j,
           \A j \in Done' \ Done : collected[j] = Children(j),
           \A j \in Kernels \ Everywhere' :
               collected[j] # Children(j) /\ (unsent[j] # {} => InAct(j)')
    PROVE  Books'
<1>1. Untouched'
  BY DEF Books, Untouched
<1>2. Complete'
  BY DEF Books, Complete
<1>3. Accounted'
  BY DEF Accounted
<1>4. Cleared'
  BY DEF Books, Cleared
<1> QED
  BY <1>1, <1>2, <1>3, <1>4 DEF Books

(* A thread takes a downstream kernel.                                     *)
LEMMA TakesReturnBooks ==
    ASSUME TypeInv, Books, UNCHANGED downThreads, NEW t \in Threads, TakesReturn(t)
    PROVE  Books'
<1> DEFINE k == Head(downstream[t])
<1>1. /\ t \in Slots /\ downstream[t] # <<>> /\ downstream' = [downstream EXCEPT ![t] = Tail(@)]
      /\ Starts(t, k, "react")
      /\ UNCHANGED <<state, upstream, timer, failed, unsent, collected, discarded>>
  BY DEF TakesReturn
<1>2. k \in InDown /\ InDown' = InDown \ {k} /\ SingleDown'
  BY <1>1, TakenPlaces DEF Books, Single
<1> HIDE DEF k
<1>3. k \in Kernels /\ k \notin Reacting
  BY <1>2, PlacesOfKernels DEF Books, Apart
<1>4. \A u \in Threads : pc[u] = "react" => job[u] # k
  BY <1>3 DEF Reacting
<1>5. /\ Acting' = Acting /\ Reacting' = Reacting \cup {k} /\ SingleThread'
      /\ \A j : InAct(j) => InAct(j)'
  BY <1>1, <1>3, <1>4, StartedPlaces DEF Books, Single
<1>6. /\ Fresh' = Fresh /\ InUp' = InUp /\ timer' = timer /\ failed' = failed
      /\ Back' = Back /\ discarded' = discarded
  BY <1>1 DEF Fresh, InUp, Back
<1>7. Begun' = Begun /\ Done' = Done /\ Everywhere' = Everywhere
  BY <1>2, <1>5, <1>6 DEF Begun, Done, Everywhere
<1>8. Apart'
  BY <1>2, <1>5, <1>6, <1>7 DEF Books, Apart
<1>9. Single'
  BY <1>1, <1>2, <1>5 DEF Books, Single
<1>10. k \notin Begun
  BY <1>2 DEF Books, Apart, Begun, Done
<1>11. \A j \in Begun' : \A u \in Threads : job'[u] # j
  BY <1>1, <1>7, <1>10 DEF Starts, Quiet, Books, Untouched
<1>12. state # "cleared"
  BY <1>2 DEF Books, Cleared
<1> QED
  BY <1>1, <1>5, <1>7, <1>8, <1>9, <1>11, <1>12, MovedBooks DEF Books, Accounted

(* A thread starts to execute a kernel that was in the queue or the timer. *)
LEMMA TakesBooks ==
    ASSUME TypeInv, Books, UNCHANGED downThreads, state # "cleared",
           NEW t \in Threads, NEW k \in InUp \cup timer, Starts(t, k, "act"),
           InUp' = InUp \ {k}, timer' = timer \ {k}, IsInjective(upstream'),
           UNCHANGED <<state, downstream, failed, unsent, collected, discarded>>
    PROVE  Books'
<1>1. k \in Kernels /\ k \in Begun /\ k \notin Fresh
  BY PlacesOfKernels DEF Begun, Books, Apart
<1>2. collected[k] = {} /\ \A u \in Threads : job[u] # k
  BY <1>1 DEF Books, Untouched
<1>3. /\ Acting' = IF Children(k) = {} THEN Acting \cup {k} ELSE Acting
      /\ Reacting' = Reacting /\ SingleThread'
      /\ (\A j : InAct(j) => InAct(j)') /\ InAct(k)'
  BY <1>1, <1>2, StartedPlaces DEF Books, Single
<1>4. /\ Fresh' = Fresh /\ failed' = failed /\ InDown' = InDown
      /\ Back' = Back /\ discarded' = discarded
  BY DEF Fresh, InDown, Back, Slots
<1>5. k \notin Acting /\ k \notin Done /\ k \notin discarded
  BY DEF Books, Apart
<1>6. Begun' = Begun \ {k} /\ Done' = Done
  BY <1>1, <1>3, <1>4 DEF Begun, Done
<1>7. Apart'
  BY <1>3, <1>4, <1>5, <1>6 DEF Books, Apart
<1>8. Single'
  BY <1>3 DEF Books, Single, SingleDown, Slots
<1>9. \A j \in Begun' : \A u \in Threads : job'[u] # j
  BY <1>6 DEF Starts, Quiet, Books, Untouched
<1>10. ASSUME NEW j \in Kernels \ Everywhere'
       PROVE  collected[j] # Children(j) /\ (unsent[j] # {} => InAct(j)')
  <2>1. CASE j = k
    BY <1>2, <1>3, <2>1 DEF Everywhere
  <2>2. CASE j # k
    <3>1. j \notin Everywhere
      BY <1>3, <1>4, <1>6, <2>2 DEF Everywhere
    <3> QED
      BY <1>3, <3>1 DEF Books, Accounted
  <2> QED
    BY <2>1, <2>2
<1> QED
  BY <1>6, <1>7, <1>8, <1>9, <1>10, MovedBooks

(* A thread takes an upstream kernel.                                      *)
LEMMA TakesWorkBooks ==
    ASSUME TypeInv, Books, UNCHANGED downThreads, NEW t \in Threads, TakesWork(t)
    PROVE  Books'
<1> DEFINE k == Head(upstream)
<1>1. /\ upstream # <<>> /\ upstream' = Tail(upstream) /\ Starts(t, k, "act")
      /\ UNCHANGED <<state, downstream, timer, failed, unsent, collected, discarded>>
  BY DEF TakesWork
<1>2. upstream \in Seq(Kernels) /\ IsInjective(upstream)
  BY DEF TypeInv, TypeOK, Books, Single
<1>3. /\ k \in InUp /\ k \notin Range(Tail(upstream)) /\ InUp = Range(Tail(upstream)) \cup {k}
      /\ IsInjective(Tail(upstream))
  BY <1>1, <1>2, RangeOfTail DEF InUp
<1> HIDE DEF k
<1>4. InUp' = InUp \ {k} /\ IsInjective(upstream')
  BY <1>1, <1>3 DEF InUp
<1>5. timer' = timer \ {k}
  BY <1>1, <1>3 DEF Books, Apart
<1>6. state # "cleared"
  BY <1>3 DEF Books, Cleared
<1> QED
  BY <1>1, <1>3, <1>4, <1>5, <1>6, TakesBooks

(* The timer thread takes a kernel whose time has come.                    *)
LEMMA TakesScheduledBooks ==
    ASSUME TypeInv, Books, UNCHANGED downThreads, NEW k \in Kernels, TakesScheduled(k)
    PROVE  Books'
<1>1. /\ k \in timer /\ timer' = timer \ {k} /\ Starts(Timer, k, "act")
      /\ UNCHANGED <<state, upstream, downstream, failed, unsent, collected, discarded>>
  BY DEF TakesScheduled
<1>2. InUp' = InUp \ {k}
  BY <1>1 DEF InUp, Books, Apart
<1>3. IsInjective(upstream') /\ state # "cleared" /\ Timer \in Threads
  BY <1>1, ThreadSets DEF Books, Single, Cleared, TypeInv
<1> QED
  BY <1>1, <1>2, <1>3, TakesBooks

(* act() of a parent returns after its last child is sent.                 *)
LEMMA FinishesActBooks ==
    ASSUME TypeInv, Books, UNCHANGED downThreads, NEW t \in Threads, FinishesAct(t)
    PROVE  Books'
<1> DEFINE k == job[t]
<1>1. /\ pc[t] = "act" /\ Children(k) # {} /\ unsent[k] = {} /\ Ends(t)
      /\ UNCHANGED <<state, upstream, downstream, timer, failed, unsent, collected, discarded>>
  BY DEF FinishesAct
<1>2. k \notin Acting
  BY <1>1 DEF Acting
<1>3. /\ Acting' = Acting /\ Reacting' = Reacting /\ SingleThread'
      /\ (\A j : InAct(j) /\ j # k => InAct(j)')
      /\ (\A u \in Threads : job'[u] = job[u] \/ job'[u] = NoKernel)
  BY <1>1, <1>2, EndedPlaces DEF Books, Single
<1> HIDE DEF k
<1>4. /\ Fresh' = Fresh /\ InUp' = InUp /\ timer' = timer /\ failed' = failed
      /\ InDown' = InDown /\ Back' = Back /\ discarded' = discarded
  BY <1>1 DEF Fresh, InUp, InDown, Back, Slots
<1>5. Begun' = Begun /\ Done' = Done /\ Everywhere' = Everywhere
  BY <1>3, <1>4 DEF Begun, Done, Everywhere
<1>6. Apart'
  BY <1>3, <1>4, <1>5 DEF Books, Apart
<1>7. Single'
  BY <1>1, <1>3 DEF Books, Single, SingleDown, Slots
<1>8. NoKernel \notin Begun
  BY PlacesOfKernels, PipelineAssumption DEF Begun, Fresh
<1>9. \A j \in Begun' : \A u \in Threads : job'[u] # j
  BY <1>3, <1>5, <1>8 DEF Books, Untouched
<1>10. \A j \in Kernels \ Everywhere' :
           collected[j] # Children(j) /\ (unsent[j] # {} => InAct(j)')
  BY <1>1, <1>3, <1>5 DEF Books, Accounted
<1>11. state # "cleared"
  <2>1. Busy(t)
    BY <1>1 DEF Ends
  <2> QED
    BY <2>1, BusyBooks
<1> QED
  BY <1>1, <1>5, <1>6, <1>7, <1>9, <1>10, <1>11, MovedBooks

(* A kernel without children that commits or throws.                       *)
LEMMA LeafBooks ==
    ASSUME TypeInv, Books, UNCHANGED downThreads, NEW t \in Threads, NEW k \in Kernels,
           pc[t] = "act", job[t] = k, Children(k) = {}, Ends(t),
           \/ InDown' = InDown \cup {k} /\ UNCHANGED failed
           \/ failed' = failed \cup {k} /\ InDown' = InDown,
           SingleDown',
           UNCHANGED <<state, upstream, timer, unsent, collected, discarded>>
    PROVE  Books'
<1>1. k \in Acting
  BY DEF Acting
<1>2. /\ Acting' = Acting \ {k} /\ Reacting' = Reacting /\ SingleThread'
      /\ (\A j : InAct(j) /\ j # k => InAct(j)')
      /\ (\A u \in Threads : job'[u] = job[u] \/ job'[u] = NoKernel)
  BY EndedPlaces DEF Books, Single
<1>3. /\ Fresh' = Fresh /\ InUp' = InUp /\ timer' = timer
      /\ Back' = Back /\ discarded' = discarded
  BY DEF Fresh, InUp, Back
<1>4. k \notin Begun /\ k \notin Done /\ k \notin discarded
  BY <1>1 DEF Books, Apart, Begun
<1>5. Begun' = Begun /\ Done' = Done \cup {k}
  BY <1>2, <1>3 DEF Begun, Done
<1>6. Everywhere' = Everywhere
  BY <1>1, <1>2, <1>3, <1>5 DEF Everywhere
<1>7. Apart'
  <2>1. CASE InDown' = InDown \cup {k} /\ failed' = failed
    BY <1>2, <1>3, <1>4, <1>5, <2>1 DEF Books, Apart, Begun, Done
  <2>2. CASE failed' = failed \cup {k} /\ InDown' = InDown
    BY <1>2, <1>3, <1>4, <1>5, <2>2 DEF Books, Apart, Begun, Done
  <2> QED
    BY <2>1, <2>2
<1>8. Single'
  BY <1>2 DEF Books, Single
<1>9. NoKernel \notin Begun
  BY PlacesOfKernels, PipelineAssumption DEF Begun, Fresh
<1>10. \A j \in Begun' : \A u \in Threads : job'[u] # j
  BY <1>2, <1>5, <1>9 DEF Books, Untouched
<1>11. \A j \in Done' \ Done : collected[j] = Children(j)
  BY <1>5 DEF TypeInv, Family
<1>12. \A j \in Kernels \ Everywhere' :
           collected[j] # Children(j) /\ (unsent[j] # {} => InAct(j)')
  BY <1>1, <1>2, <1>6 DEF Books, Accounted, Everywhere
<1>13. state # "cleared"
  BY BusyBooks DEF Ends
<1> QED
  BY <1>5, <1>7, <1>8, <1>10, <1>11, <1>12, <1>13, MovedBooks

(* A kernel without children commits: it is passed on to its parent.       *)
LEMMA CommitsBooks ==
    ASSUME TypeInv, Books, UNCHANGED downThreads, NEW t \in Threads, Commits(t)
    PROVE  Books'
<1> DEFINE k == job[t]
<1>1. /\ pc[t] = "act" /\ Children(k) = {} /\ k \in Kernels /\ Ends(t) /\ Passes(k)
      /\ UNCHANGED <<state, upstream, timer, failed, unsent, collected, discarded>>
  BY DEF Commits
<1>2. k \notin InDown
  <2>1. k \in Acting
    BY <1>1 DEF Acting
  <2> QED
    BY <2>1 DEF Books, Apart, Done
<1> HIDE DEF k
<1>3. InDown' = InDown \cup {k} /\ SingleDown'
  BY <1>1, <1>2, PassedPlaces DEF Books, Single
<1> QED
  BY <1>1, <1>3, LeafBooks DEF k

(* A kernel without children throws: it goes to the error pipeline.        *)
LEMMA ThrowsBooks ==
    ASSUME TypeInv, Books, UNCHANGED downThreads, NEW t \in Threads, Throws(t)
    PROVE  Books'
<1>1. /\ pc[t] = "act" /\ job[t] \in Kernels /\ Children(job[t]) = {} /\ Ends(t)
      /\ failed' = failed \cup {job[t]}
      /\ UNCHANGED <<state, upstream, downstream, timer, unsent, collected, discarded>>
  BY PipelineAssumption DEF Throws
<1>2. InDown' = InDown /\ SingleDown'
  BY <1>1 DEF InDown, SingleDown, Slots, Books, Single
<1> QED
  BY <1>1, <1>2, LeafBooks

(* The error pipeline sends a kernel back to its parent.                   *)
LEMMA SendsBackBooks ==
    ASSUME TypeInv, Books, UNCHANGED downThreads, NEW k \in Kernels, SendsBack(k)
    PROVE  Books'
<1>1. /\ k \in failed /\ failed' = failed \ {k} /\ Undisturbed /\ Passes(k)
      /\ UNCHANGED <<state, upstream, timer, unsent, collected, discarded>>
      /\ state # "cleared"
  BY DEF SendsBack
<1>2. k \notin InDown
  BY <1>1 DEF Books, Apart
<1>3. InDown' = InDown \cup {k} /\ SingleDown'
  BY <1>1, <1>2, PassedPlaces DEF Books, Single
<1>4. /\ Acting' = Acting /\ Reacting' = Reacting /\ SingleThread'
      /\ \A j : InAct(j) => InAct(j)'
  BY <1>1, UndisturbedPlaces DEF Books, Single
<1>5. /\ Fresh' = Fresh /\ InUp' = InUp /\ timer' = timer
      /\ Back' = Back /\ discarded' = discarded
  BY <1>1 DEF Fresh, InUp, Back
<1>6. Begun' = Begun /\ Done' = Done
  BY <1>1, <1>3, <1>4, <1>5 DEF Begun, Done
<1>7. Everywhere' = Everywhere
  BY <1>4, <1>5, <1>6 DEF Everywhere
<1>8. Apart'
  BY <1>1, <1>3, <1>4, <1>5, <1>6 DEF Books, Apart
<1>9. Single'
  BY <1>1, <1>3, <1>4 DEF Books, Single
<1>10. \A j \in Begun' : \A u \in Threads : job'[u] # j
  BY <1>1, <1>6 DEF Undisturbed, Quiet, Books, Untouched
<1> QED
  BY <1>1, <1>4, <1>6, <1>7, <1>8, <1>9, <1>10, MovedBooks DEF Books, Accounted

(* react(): the parent of a child that is being reacted to is nowhere, and *)
(* it is passed on after the last child.                                   *)
LEMMA ParentNowhere ==
    ASSUME TypeInv, Books, NEW k \in Reacting, ParentOf[k] # NoKernel,
           state # "cleared"
    PROVE  ParentOf[k] \in Kernels \ Everywhere
<1> DEFINE p == ParentOf[k]
<1>1. k \in Kernels /\ p \in Kernels /\ k \in Children(p)
  BY PipelineAssumption DEF Reacting, Children
<1>2. k \notin Fresh /\ k \notin Back
  BY DEF Books, Apart, Done
<1>3. p \notin Begun
  BY <1>1, <1>2 DEF Books, Untouched, Fresh
<1>4. p \notin Done
  BY <1>1, <1>2 DEF Books, Complete, Back
<1>5. p \notin Acting /\ p \notin discarded
  BY <1>1 DEF Acting, Books, Cleared
<1> QED
  BY <1>1, <1>3, <1>4, <1>5 DEF Everywhere

(* react() of a parent, which is passed on itself after its last child.    *)
LEMMA ReactsBooks ==
    ASSUME TypeInv, Books, UNCHANGED downThreads, NEW t \in Threads, Reacts(t)
    PROVE  Books'
<1> DEFINE k == job[t]
           p == ParentOf[k]
           last == p # NoKernel /\ collected[p] \cup {k} = Children(p)
<1>1. /\ pc[t] = "react" /\ k \in Kernels /\ Ends(t)
      /\ collected' = [collected EXCEPT ![p] = @ \cup {k}]
      /\ IF last THEN Passes(p) ELSE UNCHANGED downstream
      /\ UNCHANGED <<state, upstream, timer, failed, unsent, discarded>>
  BY DEF Reacts
<1>2. k \in Reacting /\ state # "cleared" /\ p \in Kernels \cup {NoKernel}
  BY <1>1, BusyBooks, PipelineAssumption DEF Reacting, Ends
<1>3. p # NoKernel => p \in Kernels \ Everywhere
  BY <1>2, ParentNowhere
<1>4. /\ Acting' = Acting /\ Reacting' = Reacting \ {k} /\ SingleThread'
      /\ (\A j : InAct(j) => InAct(j)')
      /\ (\A u \in Threads : job'[u] = job[u] \/ job'[u] = NoKernel)
  BY <1>1, EndedPlaces DEF Books, Single
<1>5. /\ collected'[p] = collected[p] \cup {k}
      /\ \A j \in Kernels : j # p => collected'[j] = collected[j]
  BY <1>1, <1>2 DEF TypeInv, TypeOK
<1>6. Back' = Back \cup {k}
  <2>1. ASSUME NEW j \in Kernels
        PROVE  j \in collected'[ParentOf[j]] <=> (j \in collected[ParentOf[j]] \/ j = k)
    BY <1>1, <1>2, PipelineAssumption DEF TypeInv, TypeOK
  <2> QED
    BY <1>1, <2>1 DEF Back
<1> HIDE DEF k, p
<1>7. IF last THEN InDown' = InDown \cup {p} /\ SingleDown' ELSE InDown' = InDown /\ SingleDown'
  <2>1. CASE last
    <3>1. p \in Kernels /\ p \notin InDown
      BY <1>3, <2>1 DEF Everywhere, Done
    <3> QED
      BY <1>1, <2>1, <3>1, PassedPlaces DEF Books, Single
  <2>2. CASE ~last
    BY <1>1, <2>2 DEF InDown, SingleDown, Slots, Books, Single
  <2> QED
    BY <2>1, <2>2
<1>8. /\ Fresh' = Fresh /\ InUp' = InUp /\ timer' = timer /\ failed' = failed
      /\ discarded' = discarded
  BY <1>1 DEF Fresh, InUp
<1>9. Begun' = Begun
  BY <1>8 DEF Begun
<1>10. Done' = IF last THEN Done \cup {p} ELSE Done
  BY <1>2, <1>4, <1>6, <1>7, <1>8 DEF Done
<1>11. Apart'
  <2>1. CASE last
    <3>1. /\ p \notin Fresh /\ p \notin InUp /\ p \notin timer /\ p \notin Acting
          /\ p \notin failed /\ p \notin Reacting /\ p \notin Back /\ p \notin discarded /\ p # k
      BY <1>2, <1>3, <2>1 DEF Everywhere, Begun, Done
    <3> QED
      BY <1>2, <1>4, <1>6, <1>7, <1>8, <1>10, <2>1, <3>1 DEF Books, Apart
  <2>2. CASE ~last
    BY <1>2, <1>4, <1>6, <1>7, <1>8, <1>10, <2>2 DEF Books, Apart
  <2> QED
    BY <2>1, <2>2
<1>12. Single'
  BY <1>1, <1>4, <1>7 DEF Books, Single
<1>13. \A j \in Begun \cup Done : j \in Kernels /\ j # p /\ j # NoKernel
  <2>1. Begun \cup Done \subseteq Kernels
    BY PlacesOfKernels DEF Begun, Done, Fresh, Reacting, Back
  <2> QED
    BY <1>3, <2>1, PipelineAssumption DEF Everywhere
<1>14. Untouched'
  BY <1>1, <1>4, <1>5, <1>9, <1>13 DEF Books, Untouched
<1>15. Complete'
  BY <1>5, <1>10, <1>13 DEF Books, Complete
<1>16. Accounted'
  <2>1. ASSUME NEW j \in Kernels \ Everywhere'
        PROVE  collected'[j] # Children(j) /\ (unsent'[j] # {} => InAct(j)')
    <3>1. j \notin Everywhere
      BY <1>4, <1>8, <1>9, <1>10 DEF Everywhere
    <3>2. collected[j] # Children(j) /\ (unsent[j] # {} => InAct(j))
      BY <3>1 DEF Books, Accounted
    <3>3. collected'[j] # Children(j)
      <4>1. CASE j # p
        BY <1>5, <3>2, <4>1
      <4>2. CASE j = p /\ ~last
        BY <1>5, <4>2, PipelineAssumption
      <4>3. CASE j = p /\ last
        BY <1>10, <4>3 DEF Everywhere
      <4> QED
        BY <4>1, <4>2, <4>3
    <3> QED
      BY <1>1, <1>4, <3>2, <3>3
  <2> QED
    BY <2>1 DEF Accounted
<1>17. Cleared'
  BY <1>1, <1>2 DEF Books, Cleared
<1> QED
  BY <1>11, <1>12, <1>14, <1>15, <1>16, <1>17 DEF Books

(* What an array does to the threads: each new_thread kernel runs on its   *)
(* own.                                                                    *)
LEMMA SendsAllPlaces ==
    ASSUME TypeInv, Books, UNCHANGED downThreads, NEW t \in Threads, SendsAll(t),
           NEW N, N = unsent[job[t]] \cap NewThread
    PROVE  /\ Acting' = Acting \cup {k \in N : Children(k) = {}}
           /\ Reacting' = Reacting /\ SingleThread'
           /\ (\A j : InAct(j) => InAct(j)') /\ (\A k \in N : InAct(k)')
           /\ \A j \in Begun \ N : \A u \in Threads : job'[u] # j
<1>1. ASSUME NEW u \in Threads
      PROVE  IF u \in N THEN ~Busy(u) /\ pc'[u] = "act" /\ job'[u] = u ELSE Quiet(u)
  BY DEF SendsAll
<1>2. N \subseteq Threads /\ N \subseteq Kernels /\ N \subseteq Begun
  <2>1. \A k \in unsent[job[t]] : k \in Fresh
    BY DEF SendsAll, Fresh
  <2> QED
    BY <2>1, ThreadSets, PipelineAssumption DEF TypeInv, Begun
<1>3. \A k \in N : \A u \in Threads : job[u] # k
  BY <1>2 DEF Books, Untouched
<1>4. Acting' = Acting \cup {k \in N : Children(k) = {}}
  BY <1>1, <1>2 DEF Quiet, Busy, Acting
<1>5. Reacting' = Reacting
  BY <1>1 DEF Quiet, Busy, Reacting
<1>6. \A j : InAct(j) => InAct(j)'
  BY <1>1 DEF Quiet, Busy, InAct
<1>7. \A k \in N : InAct(k)'
  BY <1>1, <1>2 DEF InAct
<1>8. \A j \in Begun \ N : \A u \in Threads : job'[u] # j
  BY <1>1 DEF Quiet, Books, Untouched
<1>9. SingleThread'
  <2>1. SUFFICES ASSUME NEW a \in Threads, NEW b \in Threads, Busy(a)', pc'[a] = pc'[b],
                        job'[a] = job'[b]
                 PROVE  a = b
    BY DEF SingleThread, Busy
  <2>2. Busy(b)'
    BY <2>1 DEF Busy
  <2>3. ASSUME NEW u \in Threads, u \notin N, Busy(u)'
        PROVE  pc'[u] = pc[u] /\ job'[u] = job[u] /\ Busy(u)
    BY <1>1, <2>3 DEF Quiet, Busy
  <2>4. CASE a \in N /\ b \in N
    BY <1>1, <2>1, <2>4
  <2>5. CASE a \in N /\ b \notin N
    BY <1>1, <1>3, <2>1, <2>2, <2>3, <2>5
  <2>6. CASE a \notin N /\ b \in N
    BY <1>1, <1>3, <2>1, <2>3, <2>6
  <2>7. CASE a \notin N /\ b \notin N
    BY <2>1, <2>2, <2>3, <2>7 DEF Books, Single, SingleThread
  <2> QED
    BY <2>4, <2>5, <2>6, <2>7
<1> QED
  BY <1>4, <1>5, <1>6, <1>7, <1>8, <1>9

(* A parent sends all the children it has left.                            *)
LEMMA SendsAllBooks ==
    ASSUME TypeInv, Books, UNCHANGED downThreads, NEW t \in Threads, SendsAll(t)
    PROVE  Books'
<1> DEFINE p == job[t]
           S == unsent[p]
           N == S \cap NewThread
<1>1. /\ p \in Kernels /\ S \subseteq Kernels /\ (\A k \in S : ParentOf[k] = p) /\ pc[t] = "act"
      /\ unsent' = [unsent EXCEPT ![p] = {}]
      /\ timer' = timer \cup (S \cap Scheduled)
      /\ upstream' = upstream \o SetToSeq(Plain(S))
      /\ SetToSeq(Plain(S)) \in Seq(Kernels)
      /\ Range(SetToSeq(Plain(S))) = Plain(S) /\ IsInjective(SetToSeq(Plain(S)))
      /\ UNCHANGED <<state, downstream, failed, collected, discarded>>
  BY DEF SendsAll
<1>2. /\ Acting' = Acting \cup {k \in N : Children(k) = {}}
      /\ Reacting' = Reacting /\ SingleThread'
      /\ (\A j : InAct(j) => InAct(j)') /\ (\A k \in N : InAct(k)')
      /\ \A j \in Begun \ N : \A u \in Threads : job'[u] # j
  BY SendsAllPlaces
<1>3. S \subseteq Fresh /\ Fresh' = Fresh \ S
  BY <1>1 DEF Fresh, TypeInv, TypeOK
<1>4. /\ unsent'[p] = {} /\ \A j \in Kernels : j # p => unsent'[j] = unsent[j]
  BY <1>1 DEF TypeInv, TypeOK
<1>5. p \notin Begun
  BY <1>1 DEF Books, Untouched
<1> HIDE DEF p, S
<1>6. S \cap (InUp \cup timer \cup Acting \cup Done \cup discarded) = {}
  BY <1>3 DEF Books, Apart
<1>7. InUp' = InUp \cup Plain(S) /\ IsInjective(upstream')
  <2>1. upstream \in Seq(Kernels) /\ IsInjective(upstream) /\ Range(upstream) \cap Plain(S) = {}
    BY <1>6 DEF TypeInv, TypeOK, Books, Single, InUp, Plain
  <2> QED
    BY <1>1, <2>1, RangeOfConcat DEF InUp
<1>8. /\ InDown' = InDown /\ Back' = Back /\ failed' = failed /\ discarded' = discarded
      /\ SingleDown'
  BY <1>1 DEF InDown, Back, Slots, SingleDown, Books, Single
<1>9. Begun' = Begun \ N /\ Done' = Done
  <2>1. N \cap Scheduled = {} /\ S = N \cup Plain(S) \cup (S \cap Scheduled)
    BY PipelineAssumption DEF Plain
  <2>2. Begun' = Begun \ N
    BY <1>1, <1>3, <1>6, <1>7, <2>1 DEF Begun, Plain
  <2> QED
    BY <1>2, <1>8, <2>2 DEF Done
<1>10. Apart'
  <2>1. Plain(S) \cap Scheduled = {} /\ Plain(S) \subseteq S /\ N \subseteq S
        /\ Plain(S) \cap N = {} /\ N \cap Scheduled = {}
    BY PipelineAssumption DEF Plain
  <2> HIDE DEF N
  <2>2. Fresh' \cap (InUp' \cup timer' \cup Acting' \cup Done' \cup discarded') = {}
    BY <1>1, <1>2, <1>3, <1>7, <1>8, <1>9, <2>1 DEF Books, Apart
  <2>3. InUp' \cap (timer' \cup Acting' \cup Done' \cup discarded') = {}
    BY <1>1, <1>2, <1>6, <1>7, <1>8, <1>9, <2>1 DEF Books, Apart
  <2>4. timer' \cap (Acting' \cup Done' \cup discarded') = {}
    BY <1>1, <1>2, <1>6, <1>8, <1>9, <2>1 DEF Books, Apart
  <2>5. Acting' \cap (Done' \cup discarded') = {}
    BY <1>2, <1>6, <1>8, <1>9, <2>1 DEF Books, Apart
  <2> QED
    BY <1>2, <1>8, <2>2, <2>3, <2>4, <2>5 DEF Books, Apart
<1>11. Single'
  BY <1>2, <1>7, <1>8 DEF Single
<1>12. Untouched'
  <2>1. \A j \in Begun : j \in Kernels /\ j # p
    BY <1>5, PlacesOfKernels DEF Begun, Fresh
  <2> HIDE DEF N
  <2> QED
    BY <1>1, <1>2, <1>4, <1>9, <2>1 DEF Books, Untouched
<1>13. Complete'
  BY <1>1, <1>9 DEF Books, Complete
<1>14. Accounted'
  <2>1. ASSUME NEW j \in Kernels \ Everywhere'
        PROVE  collected'[j] # Children(j) /\ (unsent'[j] # {} => InAct(j)')
    <3>1. CASE j \in N
      <4>1. j \in Begun
        BY <1>3, <3>1 DEF Begun
      <4>2. Children(j) # {}
        BY <1>2, <3>1 DEF Everywhere
      <4>3. collected[j] = {}
        BY <4>1 DEF Books, Untouched
      <4> QED
        BY <1>1, <1>2, <3>1, <4>2, <4>3
    <3>2. CASE j \notin N
      <4>1. j \notin Everywhere
        BY <1>2, <1>8, <1>9, <3>2 DEF Everywhere
      <4> QED
        BY <1>1, <1>2, <1>4, <4>1 DEF Books, Accounted
    <3> QED
      BY <3>1, <3>2
  <2> QED
    BY <2>1 DEF Accounted
<1>15. Cleared'
  <2>1. state # "cleared"
    BY <1>1, BusyBooks DEF Busy
  <2> QED
    BY <1>1, <2>1 DEF Books, Cleared
<1> QED
  BY <1>10, <1>11, <1>12, <1>13, <1>14, <1>15 DEF Books

(* clear() deletes the kernels of the queues and their parents, and these  *)
(* are all that were sent and did not come back: a kernel that is nowhere  *)
(* waits for a child, and so on down to one that is in a queue.            *)
LEMMA MarkedAll ==
    ASSUME TypeInv, Books, state = "stopped"
    PROVE  Marked(Queued \cup failed) = Kernels \ (Fresh \cup Back)
<1> DEFINE A == Queued \cup failed
           R == Kernels \ (Fresh \cup Back)
           Closed(T) == \A k \in T : ParentOf[k] \in T \cup {NoKernel}
<1>1. A = InUp \cup InDown \cup timer \cup failed
  BY DEF Queued, InUp, InDown
<1>2. Acting = {} /\ Reacting = {} /\ discarded = {} /\ \A k : ~InAct(k)
  BY DEF TypeInv, ThreadsOK, Acting, Reacting, InAct, Books, Cleared
<1>3. A \subseteq R
  <2>1. A \subseteq Kernels
    BY <1>1, PlacesOfKernels
  <2> QED
    BY <1>1, <2>1 DEF Books, Apart, Done
<1>4. Closed(R)
  <2>1. SUFFICES ASSUME NEW k \in R, ParentOf[k] # NoKernel PROVE ParentOf[k] \in R
    OBVIOUS
  <2>2. ParentOf[k] \in Kernels /\ k \in Children(ParentOf[k])
    BY <2>1, PipelineAssumption DEF Children
  <2>3. ParentOf[k] \notin Fresh
    BY <2>2 DEF Books, Untouched, Begun, Fresh
  <2>4. ParentOf[k] \notin Back
    BY <2>2 DEF Books, Complete, Done, Back
  <2> QED
    BY <2>2, <2>3, <2>4
<1>5. ASSUME NEW T \in SUBSET Kernels, A \subseteq T, Closed(T) PROVE R \subseteq T
  <2> DEFINE C == R \ T
  <2>1. SUFFICES ASSUME C # {} PROVE FALSE
    OBVIOUS
  <2>2. PICK k \in C : Children(k) \cap C = {}
    <3>1. C \in (SUBSET Kernels) \ {{}}
      BY <2>1
    <3> QED
      BY <3>1, PipelineAssumption
  <2>3. k \in Kernels \ Everywhere
    BY <1>1, <1>2, <1>5, <2>2 DEF Everywhere, Begun, Done
  <2>4. collected[k] # Children(k) /\ unsent[k] = {}
    BY <1>2, <2>3 DEF Books, Accounted
  <2>5. PICK c \in Children(k) : c \notin collected[k]
    BY <2>3, <2>4 DEF TypeInv, Family
  <2>6. c \in Kernels /\ ParentOf[c] = k
    BY DEF Children
  <2>7. c \in R
    BY <2>4, <2>5, <2>6 DEF Fresh, Back
  <2>8. c \in T
    BY <2>2, <2>7
  <2>9. k \in T
    BY <1>5, <2>3, <2>6, <2>8, PipelineAssumption
  <2> QED
    BY <2>2, <2>9
<1>6. \A p \in Marked(A) : p \in R
  <2>1. R \in SUBSET Kernels
    OBVIOUS
  <2> HIDE DEF R, A
  <2> QED
    BY <1>3, <1>4, <2>1 DEF Marked
<1>7. \A p \in R : p \in Marked(A)
  <2> HIDE DEF A
  <2> QED
    BY <1>5 DEF Marked
<1> QED
  BY <1>6, <1>7 DEF Marked

(* clear() empties the queues and deletes every kernel that is out.        *)
LEMMA ClearsBooks ==
    ASSUME TypeInv, Books, UNCHANGED downThreads, Clears
    PROVE  Books'
<1>1. /\ state = "stopped" /\ state' = "cleared"
      /\ discarded' = discarded \cup Marked(Queued \cup failed)
      /\ upstream' = <<>> /\ downstream' = [s \in Slots |-> <<>>]
      /\ timer' = {} /\ failed' = {} /\ UNCHANGED <<pc, job, unsent, collected>>
  BY DEF Clears
<1>2. discarded' = Kernels \ (Fresh \cup Back)
  BY <1>1, MarkedAll DEF Books, Cleared
<1>3. Fresh' = Fresh /\ Back' = Back /\ Slots' = Slots
  BY <1>1 DEF Fresh, Back, Slots
<1>4. InUp' = {} /\ InDown' = {} /\ IsInjective(upstream') /\ SingleDown'
  BY <1>1, <1>3, RangeOfEmpty DEF InUp, InDown, SingleDown
<1>5. Acting' = {} /\ Reacting' = {} /\ SingleThread'
  BY <1>1 DEF TypeInv, ThreadsOK, Acting, Reacting, SingleThread, Busy
<1>6. Begun' = Fresh /\ Done' = Back
  BY <1>1, <1>3, <1>4, <1>5 DEF Begun, Done
<1>7. Fresh \cap Back = {} /\ Fresh \subseteq Begun /\ Back \subseteq Done
  BY DEF Books, Apart, Begun, Done
<1>8. Apart'
  BY <1>1, <1>2, <1>3, <1>4, <1>5, <1>6, <1>7 DEF Apart
<1>9. Single'
  BY <1>4, <1>5 DEF Single
<1>10. Untouched' /\ Complete'
  BY <1>1, <1>6, <1>7 DEF Books, Untouched, Complete
<1>11. Accounted'
  <2>1. Kernels \subseteq Everywhere'
    BY <1>2, <1>6 DEF Everywhere
  <2> QED
    BY <2>1 DEF Accounted
<1>12. Cleared'
  BY <1>1, <1>2, <1>3, <1>4 DEF Cleared
<1> QED
  BY <1>8, <1>9, <1>10, <1>11, <1>12 DEF Books

(* Every step of the pipeline balances the books.                          *)
LEMMA BooksStep ==
    ASSUME TypeInv, Books, [Next]_vars
    PROVE  Books'
<1>1. Effect /\ UNCHANGED downThreads
  BY StepEffect DEF Next, vars
<1>2. ASSUME NEW t \in Threads,
             \/ SendsAll(t) \/ TakesReturn(t) \/ TakesWork(t) \/ FinishesAct(t)
             \/ Commits(t) \/ Throws(t) \/ Reacts(t)
      PROVE  Books'
  BY <1>1, <1>2, SendsAllBooks, TakesReturnBooks, TakesWorkBooks, FinishesActBooks,
     CommitsBooks, ThrowsBooks, ReactsBooks
<1>3. ASSUME NEW k \in Kernels, TakesScheduled(k) \/ SendsBack(k) PROVE Books'
  BY <1>1, <1>3, TakesScheduledBooks, SendsBackBooks
<1>4. ASSUME NEW p \in Kernels \cup {NoKernel}, NEW k \in Kernels, Sends(p, k) PROVE Books'
  BY <1>1, <1>4, SendsBooks
<1>5. CASE NothingMoves
  BY <1>1, <1>5, NothingMovesBooks
<1>6. CASE Clears
  BY <1>1, <1>6, ClearsBooks
<1> QED
  BY <1>1, <1>2, <1>3, <1>4, <1>5, <1>6 DEF Effect

(* Before the first send all kernels are with their parents.               *)
LEMMA BooksInit == Init => Books
<1> SUFFICES ASSUME Init PROVE Books
  OBVIOUS
<1>1. /\ upstream = <<>> /\ downstream = [s \in Slots |-> <<>>]
      /\ timer = {} /\ failed = {} /\ discarded = {} /\ state = "started"
      /\ unsent = [k \in Kernels \cup {NoKernel} |-> Children(k)]
      /\ collected = [k \in Kernels \cup {NoKernel} |-> {}]
      /\ \A t \in Threads : job[t] = NoKernel /\ ~Busy(t)
  BY DEF Init, Busy
<1>2. Fresh = Kernels /\ Back = {}
  BY <1>1, PipelineAssumption DEF Fresh, Back, Children
<1>3. InUp = {} /\ InDown = {} /\ IsInjective(upstream) /\ SingleDown
  BY <1>1, RangeOfEmpty DEF InUp, InDown, SingleDown
<1>4. Acting = {} /\ Reacting = {} /\ SingleThread
  BY <1>1 DEF Acting, Reacting, SingleThread, Busy
<1>5. Apart /\ Single
  BY <1>1, <1>2, <1>3, <1>4 DEF Apart, Single, Done
<1>6. Untouched
  BY <1>1, <1>2, <1>3, PipelineAssumption DEF Untouched, Begun
<1>7. Complete /\ Accounted /\ Cleared
  BY <1>1, <1>2, <1>3, <1>4 DEF Complete, Accounted, Cleared, Done, Everywhere, Begun
<1> QED
  BY <1>5, <1>6, <1>7 DEF Books

(* The books of the kernels always balance.                                *)
THEOREM BooksInvariance == Spec => [](TypeInv /\ Books)
<1>1. TypeInv /\ [Next]_vars => TypeInv'
  BY TypeStep, FamilyStep DEF TypeInv
<1>2. TypeInv /\ Books /\ [Next]_vars => Books'
  BY BooksStep
<1> QED
  BY <1>1, <1>2, TypeInit, BooksInit, PTL DEF Spec

-----------------------------------------------------------------------------
(***************************************************************************)
(* What the books say about the pipeline.                                  *)
(***************************************************************************)

(* clear() leaves nothing behind: in any tree of kernels one that was sent *)
(* and did not come back to its parent is deleted, and no other.           *)
THEOREM NothingLeaks == Spec => []NoLeak
<1>1. ASSUME TypeInv, Books PROVE NoLeak
  <2>1. SUFFICES ASSUME state = "cleared", NEW k \in Sent
                 PROVE  k \in discarded <=> k \notin collected[ParentOf[k]]
    BY DEF NoLeak
  <2>2. discarded = Kernels \ (Fresh \cup Back)
    BY <1>1, <2>1 DEF Books, Cleared
  <2>3. k \in Kernels \ Fresh
    <3>1. k \in Kernels /\ \A p \in Kernels \cup {NoKernel} : k \notin unsent[p]
      BY DEF Sent
    <3> QED
      BY <3>1, PipelineAssumption DEF Fresh
  <2> QED
    BY <2>2, <2>3 DEF Back
<1> QED
  BY <1>1, BooksInvariance, PTL

(* The places of Books are those that OnePlace counts.                     *)
Held(k) == k \in Fresh \cup timer \cup failed \cup discarded \cup Back

(* Where OnePlace finds a kernel is one of the places of the books.        *)
LEMMA PlaceKinds ==
    ASSUME TypeInv, NEW k \in Kernels, NEW x \in Places(k)
    PROVE  \/ /\ k \in InUp
              /\ \E i \in DOMAIN upstream : x = <<"upstream", i>> /\ upstream[i] = k
           \/ /\ k \in InDown
              /\ \E s \in Slots : \E i \in DOMAIN downstream[s] :
                     x = <<s, i>> /\ downstream[s][i] = k
           \/ /\ k \in Acting \cup Reacting
              /\ \E t \in Threads : x = <<"thread", t>> /\ job[t] = k /\ Busy(t) /\ ~ReturningAct(t)
           \/ /\ Held(k)
              /\ \E h \in DOMAIN Holders : x = <<h>> /\ k \in Holders[h]
<1>1. ASSUME NEW i \in DOMAIN upstream, upstream[i] = k PROVE k \in InUp
  BY <1>1 DEF InUp, Range
<1>2. ASSUME NEW s \in Slots, NEW i \in DOMAIN downstream[s], downstream[s][i] = k
      PROVE  k \in InDown
  BY <1>2 DEF InDown, Range
<1>3. ASSUME NEW t \in Threads, job[t] = k, ~ReturningAct(t)
      PROVE  Busy(t) /\ k \in Acting \cup Reacting
  BY <1>3, PipelineAssumption DEF TypeInv, ThreadsOK, Busy, ReturningAct, Acting, Reacting
<1>4. ASSUME NEW h \in DOMAIN Holders, k \in Holders[h] PROVE Held(k)
  <2>1. k \in UNION Range(unsent) => k \in Fresh
    BY DEF TypeInv, TypeOK, Family, Children, Range, Fresh
  <2>2. k \in UNION Range(collected) => k \in Back
    BY DEF TypeInv, TypeOK, Family, Children, Range, Back
  <2> QED
    BY <1>4, <2>1, <2>2 DEF Holders, Held
<1> QED
  BY <1>1, <1>2, <1>3, <1>4 DEF Places

(* A kernel outside of the queues and threads is in one place.             *)
LEMMA HeldOnce ==
    ASSUME TypeInv, Books, NEW k \in Kernels, NEW g \in DOMAIN Holders, NEW h \in DOMAIN Holders,
           k \in Holders[g], k \in Holders[h]
    PROVE  g = h
<1>1. /\ k \in UNION Range(unsent) => k \in Fresh
      /\ k \in UNION Range(collected) => k \in Back
  BY DEF TypeInv, TypeOK, Family, Children, Range, Fresh, Back
<1>2. /\ Holders.timer = timer /\ Holders.failed = failed /\ Holders.discarded = discarded
      /\ Holders.unsent = UNION Range(unsent) /\ Holders.collected = UNION Range(collected)
      /\ DOMAIN Holders = {"timer", "failed", "discarded", "unsent", "collected"}
  BY DEF Holders
<1>3. /\ k \in Fresh => k \notin timer \cup failed \cup discarded \cup Back
      /\ k \in timer => k \notin failed \cup discarded \cup Back
      /\ k \in failed => k \notin discarded \cup Back
      /\ k \in Back => k \notin discarded
  BY DEF Books, Apart, Done
<1> QED
  BY <1>1, <1>2, <1>3

(* A kernel is in one place at a time, however the threads interleave.     *)
THEOREM KernelsInOnePlace == Spec => []OnePlace
<1>1. ASSUME TypeInv, Books PROVE OnePlace
  <2>1. SUFFICES ASSUME NEW k \in Kernels, NEW x \in Places(k), NEW y \in Places(k)
                 PROVE  x = y
    BY AtMostOne DEF OnePlace
  <2> DEFINE Up(z) == \E i \in DOMAIN upstream : z = <<"upstream", i>> /\ upstream[i] = k
             Down(z) == \E s \in Slots : \E i \in DOMAIN downstream[s] :
                            z = <<s, i>> /\ downstream[s][i] = k
             Run(z) == \E t \in Threads :
                           z = <<"thread", t>> /\ job[t] = k /\ Busy(t) /\ ~ReturningAct(t)
             Hold(z) == \E h \in DOMAIN Holders : z = <<h>> /\ k \in Holders[h]
             Kind(z) == \/ k \in InUp /\ Up(z)
                        \/ k \in InDown /\ Down(z)
                        \/ k \in Acting \cup Reacting /\ Run(z)
                        \/ Held(k) /\ Hold(z)
  <2>2. Kind(x)
    BY <1>1, PlaceKinds
  <2>3. Kind(y)
    BY <1>1, PlaceKinds
  <2>4. /\ ~(k \in InUp /\ (k \in InDown \/ k \in Acting \cup Reacting \/ Held(k)))
        /\ ~(k \in InDown /\ (k \in Acting \cup Reacting \/ Held(k)))
        /\ ~(k \in Acting \cup Reacting /\ Held(k))
    BY <1>1 DEF Books, Apart, Done, Held
  <2>5. ASSUME Up(x), Up(y) PROVE x = y
    BY <1>1, <2>5 DEF Books, Single, IsInjective
  <2>6. ASSUME Down(x), Down(y) PROVE x = y
    <3>1. PICK r \in Slots :
              \E i \in DOMAIN downstream[r] : x = <<r, i>> /\ downstream[r][i] = k
      BY <2>6
    <3>2. PICK s \in Slots :
              \E i \in DOMAIN downstream[s] : y = <<s, i>> /\ downstream[s][i] = k
      BY <2>6
    <3>3. k \in Range(downstream[r]) /\ k \in Range(downstream[s])
      BY <3>1, <3>2 DEF Range
    <3>4. r = s
      BY <1>1, <3>3 DEF Books, Single, SingleDown
    <3> QED
      BY <1>1, <3>1, <3>2, <3>4 DEF Books, Single, SingleDown, IsInjective
  <2>7. ASSUME Run(x), Run(y) PROVE x = y
    <3>1. PICK t \in Threads : x = <<"thread", t>> /\ job[t] = k /\ Busy(t) /\ ~ReturningAct(t)
      BY <2>7
    <3>2. PICK u \in Threads : y = <<"thread", u>> /\ job[u] = k /\ Busy(u) /\ ~ReturningAct(u)
      BY <2>7
    <3>3. ASSUME NEW v \in Threads, job[v] = k, ~ReturningAct(v)
          PROVE  (pc[v] = "act" => k \in Acting) /\ (pc[v] = "react" => k \in Reacting)
      BY <3>3 DEF ReturningAct, Acting, Reacting
    <3>4. Acting \cap Reacting = {}
      BY <1>1 DEF Books, Apart, Done
    <3>5. pc[t] = pc[u]
      BY <3>1, <3>2, <3>3, <3>4 DEF Busy
    <3> QED
      BY <1>1, <3>1, <3>2, <3>5 DEF Books, Single, SingleThread
  <2>8. ASSUME Hold(x), Hold(y) PROVE x = y
    BY <1>1, <2>8, HeldOnce
  <2> HIDE DEF Up, Down, Run, Hold
  <2> QED
    BY <2>2, <2>3, <2>4, <2>5, <2>6, <2>7, <2>8
<1> QED
  BY <1>1, BooksInvariance, PTL

-----------------------------------------------------------------------------
(***************************************************************************)
(* The pipeline keeps the promise of KernelService.                        *)
(***************************************************************************)
(* What a parent knows about a child follows from where the child is.      *)
LEMMA StatusByPlace ==
    ASSUME Books, NEW k \in Kernels
    PROVE  StatusOf(k) = IF k \in Back THEN "returned"
                         ELSE IF k \in discarded THEN "discarded"
                         ELSE IF k \in Fresh THEN "fresh"
                         ELSE "pending"
<1>1. k \in Back => k \notin discarded /\ k \notin Fresh
  BY DEF Books, Apart, Done
<1>2. k \in discarded => k \notin Fresh
  BY DEF Books, Apart
<1> QED
  BY <1>1, <1>2 DEF StatusOf, Back, Fresh

(* The same for all children at once.                                      *)
LEMMA StatusMap ==
    ASSUME Books
    PROVE  [k \in Kernels |-> StatusOf(k)] =
               [k \in Kernels |-> IF k \in Back THEN "returned"
                                  ELSE IF k \in discarded THEN "discarded"
                                  ELSE IF k \in Fresh THEN "fresh"
                                  ELSE "pending"]
BY StatusByPlace

(* For the parents there are four kinds of steps: nothing happens that     *)
(* they see, some children are sent, one comes back, or clear() deletes.   *)
SeesNothing ==
    /\ Fresh' = Fresh /\ Back' = Back /\ discarded' = discarded
    /\ state' = "started" => state = "started"

SeesSent(S) ==
    /\ S \subseteq Fresh /\ Fresh' = Fresh \ S
    /\ Back' = Back /\ discarded' = discarded /\ state' = state

SeesReturn(k) ==
    /\ k \in Reacting /\ Back' = Back \cup {k}
    /\ Fresh' = Fresh /\ discarded' = discarded /\ state' = state

SeesDeletion ==
    /\ Fresh' = Fresh /\ Back' = Back /\ discarded = {}
    /\ state # "started" /\ state' # "started"

Seen ==
    \/ SeesNothing
    \/ \E S \in SUBSET Kernels : SeesSent(S)
    \/ \E k \in Kernels : SeesReturn(k)
    \/ SeesDeletion

(* Every effect is one of the four for the parents.                        *)
LEMMA EffectSeen ==
    ASSUME TypeInv, Books, Effect
    PROVE  Seen
<1>1. UNCHANGED <<unsent, collected, discarded, state>> => SeesNothing
  BY DEF SeesNothing, Fresh, Back
<1>2. CASE NothingMoves
  BY <1>2 DEF NothingMoves, Seen, SeesNothing, Fresh, Back
<1>3. ASSUME NEW p \in Kernels \cup {NoKernel}, NEW k \in Kernels, Sends(p, k) PROVE Seen
  <2>1. /\ k \in unsent[p] /\ ParentOf[k] = p /\ unsent' = [unsent EXCEPT ![p] = @ \ {k}]
        /\ UNCHANGED <<state, collected, discarded>>
    BY <1>3 DEF Sends
  <2>2. {k} \subseteq Fresh /\ Fresh' = Fresh \ {k} /\ Back' = Back
    BY <2>1 DEF Fresh, Back, TypeInv, TypeOK
  <2>3. SeesSent({k})
    BY <2>1, <2>2 DEF SeesSent
  <2> QED
    BY <2>3 DEF Seen
<1>4. ASSUME NEW t \in Threads, SendsAll(t) PROVE Seen
  <2> DEFINE p == job[t]
             S == unsent[p]
  <2>1. /\ p \in Kernels /\ S \subseteq Kernels /\ (\A k \in S : ParentOf[k] = p)
        /\ unsent' = [unsent EXCEPT ![p] = {}]
        /\ UNCHANGED <<state, collected, discarded>>
    BY <1>4 DEF SendsAll
  <2>2. S \subseteq Fresh /\ Fresh' = Fresh \ S /\ Back' = Back
    BY <2>1 DEF Fresh, Back, TypeInv, TypeOK
  <2>3. SeesSent(S)
    BY <2>1, <2>2 DEF SeesSent
  <2> QED
    BY <2>1, <2>3 DEF Seen
<1>5. ASSUME NEW t \in Threads,
             TakesReturn(t) \/ TakesWork(t) \/ FinishesAct(t) \/ Commits(t) \/ Throws(t)
      PROVE  Seen
  BY <1>1, <1>5 DEF TakesReturn, TakesWork, FinishesAct, Commits, Throws, Seen
<1>6. ASSUME NEW k \in Kernels, TakesScheduled(k) \/ SendsBack(k) PROVE Seen
  BY <1>1, <1>6 DEF TakesScheduled, SendsBack, Seen
<1>7. ASSUME NEW t \in Threads, Reacts(t) PROVE Seen
  <2> DEFINE k == job[t]
             p == ParentOf[k]
  <2>1. /\ pc[t] = "react" /\ k \in Kernels
        /\ collected' = [collected EXCEPT ![p] = @ \cup {k}]
        /\ UNCHANGED <<state, unsent, discarded>>
    BY <1>7 DEF Reacts
  <2>2. ASSUME NEW j \in Kernels
        PROVE  j \in collected'[ParentOf[j]] <=> (j \in collected[ParentOf[j]] \/ j = k)
    BY <2>1, PipelineAssumption DEF TypeInv, TypeOK
  <2>3. Back' = Back \cup {k} /\ k \in Reacting /\ Fresh' = Fresh
    BY <2>1, <2>2 DEF Back, Reacting, Fresh
  <2>4. SeesReturn(k)
    BY <2>1, <2>3 DEF SeesReturn
  <2> QED
    BY <2>1, <2>4 DEF Seen
<1>8. CASE Clears
  <2>1. SeesDeletion
    BY <1>8 DEF Clears, SeesDeletion, Fresh, Back, Books, Cleared
  <2> QED
    BY <2>1 DEF Seen
<1> QED
  BY <1>2, <1>3, <1>4, <1>5, <1>6, <1>7, <1>8 DEF Effect

(* ... and each of the four is a step of KernelService or none.            *)
LEMMA ServiceStep ==
    ASSUME TypeInv, Books, Books', Seen
    PROVE  [Service!Next]_Service!vars
<1> DEFINE before == [k \in Kernels |-> StatusOf(k)]
           after == [k \in Kernels |-> StatusOf(k)']
           By(F, B, D) == [k \in Kernels |-> IF k \in B THEN "returned"
                                             ELSE IF k \in D THEN "discarded"
                                             ELSE IF k \in F THEN "fresh"
                                             ELSE "pending"]
<1>1. before = By(Fresh, Back, discarded)
  BY StatusMap
<1>2. after = By(Fresh', Back', discarded')
  <2>1. ASSUME NEW k \in Kernels
        PROVE  StatusOf(k)' = IF k \in Back' THEN "returned"
                              ELSE IF k \in discarded' THEN "discarded"
                              ELSE IF k \in Fresh' THEN "fresh"
                              ELSE "pending"
    <3>1. k \in Back' => k \notin discarded' /\ k \notin Fresh'
      BY DEF Books, Apart, Done
    <3>2. k \in discarded' => k \notin Fresh'
      BY DEF Books, Apart
    <3> QED
      BY <3>1, <3>2 DEF StatusOf, Back, Fresh
  <2> QED
    BY <2>1
<1> HIDE DEF before, after
<1>3. CASE SeesNothing
  <2>1. after = before
    BY <1>1, <1>2, <1>3 DEF SeesNothing
  <2>2. CASE state # "started" <=> state' # "started"
    BY <2>1, <2>2 DEF Service!vars, before, after
  <2>3. CASE state = "started" /\ state' # "started"
    BY <2>1, <2>3 DEF Service!Next, Service!Close, before, after
  <2> QED
    BY <1>3, <2>2, <2>3 DEF SeesNothing
<1>4. ASSUME NEW S \in SUBSET Kernels, SeesSent(S) PROVE [Service!Next]_Service!vars
  <2>1. S \cap Back = {} /\ S \cap discarded = {}
    BY <1>4 DEF SeesSent, Books, Apart, Done
  <2>2. \A k \in S : before[k] = "fresh"
    BY <1>1, <1>4, <2>1 DEF SeesSent
  <2>3. after = [k \in Kernels |-> IF k \in S THEN "pending" ELSE before[k]]
    BY <1>1, <1>2, <1>4, <2>1 DEF SeesSent
  <2>4. CASE S = {}
    <3>1. after = before
      BY <1>1, <1>2, <1>4, <2>4 DEF SeesSent
    <3> QED
      BY <1>4, <3>1 DEF SeesSent, Service!vars, before, after
  <2>5. CASE S # {}
    <3>1. Service!Submit(S)
      BY <1>4, <2>2, <2>3, <2>5 DEF SeesSent, Service!Submit, before, after
    <3> QED
      BY <3>1 DEF Service!Next
  <2> QED
    BY <2>4, <2>5
<1>5. ASSUME NEW k \in Kernels, SeesReturn(k) PROVE [Service!Next]_Service!vars
  <2>1. k \notin Back /\ k \notin discarded /\ k \notin Fresh
    BY <1>5 DEF SeesReturn, Books, Apart, Done
  <2>2. before[k] = "pending"
    BY <1>1, <2>1
  <2>3. after = [j \in Kernels |-> IF j \in {k} THEN "returned"
                                   ELSE IF j \in {} THEN "discarded" ELSE before[j]]
    BY <1>1, <1>2, <1>5 DEF SeesReturn
  <2>4. Service!Settle({k}, {})
    BY <1>5, <2>3 DEF SeesReturn, Service!Settle, before, after
  <2>5. {k} \in SUBSET Service!Pending /\ {} \in SUBSET Service!Pending
    BY <2>2 DEF Service!Pending, before
  <2> QED
    BY <2>4, <2>5 DEF Service!Next
<1>6. CASE SeesDeletion
  <2>1. discarded' \cap (Fresh \cup Back) = {}
    BY <1>6 DEF SeesDeletion, Books, Apart, Done
  <2> DEFINE D == discarded' \cap Kernels
  <2>2. after = [j \in Kernels |-> IF j \in {} THEN "returned"
                                   ELSE IF j \in D THEN "discarded" ELSE before[j]]
    BY <1>1, <1>2, <1>6, <2>1 DEF SeesDeletion
  <2>3. \A k \in D : before[k] = "pending"
    BY <1>1, <1>6, <2>1 DEF SeesDeletion
  <2>4. CASE D = {}
    <3>1. after = before
      BY <1>1, <1>2, <1>6, <2>4 DEF SeesDeletion
    <3> QED
      BY <1>6, <3>1 DEF SeesDeletion, Service!vars, before, after
  <2>5. CASE D # {}
    <3> HIDE DEF D
    <3>1. Service!Settle({}, D)
      BY <1>6, <2>2, <2>5 DEF SeesDeletion, Service!Settle, before, after
    <3>2. D \in SUBSET Service!Pending /\ {} \in SUBSET Service!Pending
      BY <2>3 DEF Service!Pending, before, D
    <3> QED
      BY <3>1, <3>2 DEF Service!Next
  <2> QED
    BY <2>4, <2>5
<1> QED
  BY <1>3, <1>4, <1>5, <1>6 DEF Seen

(* A kernel executed here comes back to its parent at most once, and only  *)
(* clear() deletes kernels that do not come back.                          *)
THEOREM PipelineIsService == Spec => ImplementsService
<1>1. Init => Service!Init
  <2>1. SUFFICES ASSUME Init PROVE Service!Init
    OBVIOUS
  <2>2. Books /\ state = "started" /\ discarded = {}
    BY <2>1, BooksInit DEF Init
  <2>3. Fresh = Kernels /\ Back = {}
    BY <2>1, PipelineAssumption DEF Init, Fresh, Back, Children
  <2>4. [k \in Kernels |-> StatusOf(k)] = [k \in Kernels |-> "fresh"]
    BY <2>2, <2>3, StatusMap
  <2> QED
    BY <2>2, <2>4 DEF Service!Init
<1>2. TypeInv /\ Books /\ Books' /\ [Next]_vars => [Service!Next]_Service!vars
  BY StepEffect, EffectSeen, ServiceStep
<1> QED
  BY <1>1, <1>2, BooksInvariance, PTL DEF Spec, ImplementsService, Service!Spec

-----------------------------------------------------------------------------
(***************************************************************************)
(* Wake-ups.                                                               *)
(***************************************************************************)

(* A thread that was woken up for a downstream kernel takes that one first *)
(* and is no help to the upstream queue: the threads that look at the      *)
(* queues and have no downstream kernel are enough for it.                 *)
Looking == {t \in UpThreads : pc[t] = "check" /\ ~HasReturns(t)}

AwakeUp == Waiting(UpThreads, pc) # {} => Cardinality(Looking) >= Len(upstream)

AwakeSlots == \A t \in UpThreads \cup downThreads : pc[t] = "waiting" => ~HasReturns(t)

AwakeTimer == pc[Timer] = "waiting" => \A k \in timer : alarm <= At[k]

Awake == AwakeUp /\ AwakeSlots /\ AwakeTimer

Loops == UpThreads \cup downThreads

(* The threads of the loops are where they were or look at the queues.     *)
Relaxed(q) == \A u \in Loops : q[u] = pc[u] \/ q[u] = "check"

(* The threads of the two loops, without the timer and the new_thread      *)
(* ones.                                                                   *)
LEMMA LoopsAreThreads ==
    ASSUME TypeInv
    PROVE  /\ Loops \subseteq Threads /\ Timer \notin Loops /\ UpThreads \subseteq Loops
           /\ Loops \cap NewThread = {} /\ UpThreads \cap downThreads = {}
           /\ Loops \subseteq PoolThreads
BY PipelineAssumption
   DEF Loops, Threads, AllThreads, PoolThreads, TypeInv, TypeOK

(* A thread has a downstream kernel if the queue of its slot is not empty. *)
LEMMA ReturnsOfSlot ==
    ASSUME TypeInv, NEW t \in Loops
    PROVE  HasReturns(t) <=> t \in Slots /\ downstream[t] # <<>>
BY DEF HasReturns, OwnSlot, Slots, SlotsIn, Loops, TypeInv, TypeOK

(* The threads that look at the queues can be counted.                     *)
LEMMA LookingCount ==
    ASSUME TypeInv
    PROVE  IsFiniteSet(Looking) /\ Cardinality(Looking) \in Nat /\ Len(upstream) \in Nat
<1>1. Looking \in SUBSET UpThreads
  BY DEF Looking
<1>2. IsFiniteSet(Looking)
  BY <1>1, FS_Subset, PipelineAssumption
<1>3. Len(upstream) \in Nat
  BY DEF TypeInv, TypeOK
<1> QED
  BY <1>2, <1>3, FS_CardinalityType

(* More threads look, no other thread waits and no kernel has come: the    *)
(* threads that look are still enough.                                     *)
LEMMA MoreLooking ==
    ASSUME TypeInv, TypeInv', AwakeUp, Looking \subseteq Looking',
           Waiting(UpThreads, pc') \subseteq Waiting(UpThreads, pc),
           Len(upstream') <= Len(upstream)
    PROVE  AwakeUp'
<1>1. IsFiniteSet(Looking') /\ Cardinality(Looking') \in Nat /\ Len(upstream') \in Nat
  <2>1. Looking' \in SUBSET UpThreads
    BY DEF Looking
  <2>2. IsFiniteSet(Looking')
    BY <2>1, FS_Subset, PipelineAssumption
  <2>3. Len(upstream') \in Nat
    BY DEF TypeInv, TypeOK
  <2> QED
    BY <2>2, <2>3, FS_CardinalityType
<1>2. Cardinality(Looking) <= Cardinality(Looking') /\ Cardinality(Looking) \in Nat
      /\ Len(upstream) \in Nat
  BY <1>1, FS_Subset, LookingCount
<1>3. SUFFICES ASSUME Waiting(UpThreads, pc') # {}
               PROVE  Cardinality(Looking') >= Len(upstream')
  BY DEF AwakeUp
<1>4. Cardinality(Looking) >= Len(upstream)
  BY <1>3 DEF AwakeUp
<1> QED
  BY <1>1, <1>2, <1>4

(* Threads that come back to the queues never make the others too few.     *)
LEMMA RelaxedAwake ==
    ASSUME TypeInv, TypeInv', AwakeUp, AwakeSlots, Relaxed(pc'),
           UNCHANGED <<downThreads, upstream, downstream>>
    PROVE  AwakeUp' /\ AwakeSlots'
<1>1. \A t : HasReturns(t)' <=> HasReturns(t)
  BY DEF HasReturns, OwnSlot
<1>2. Looking \subseteq Looking'
  BY <1>1, LoopsAreThreads DEF Relaxed, Looking
<1>3. Waiting(UpThreads, pc') \subseteq Waiting(UpThreads, pc)
  BY LoopsAreThreads DEF Relaxed, Waiting
<1>4. Len(upstream') <= Len(upstream)
  BY DEF TypeInv, TypeOK
<1>5. AwakeUp'
  BY <1>2, <1>3, <1>4, MoreLooking
<1>6. AwakeSlots'
  BY <1>1 DEF AwakeSlots, Relaxed, Loops
<1> QED
  BY <1>5, <1>6

(* The alarm is early enough as long as nothing new is scheduled.          *)
LEMMA TimerAwake ==
    ASSUME AwakeTimer, timer' \subseteq timer, alarm' = alarm,
           pc'[Timer] = "waiting" => pc[Timer] = "waiting"
    PROVE  AwakeTimer'
BY DEF AwakeTimer

(* A kernel is sent downstream: the thread of the slot, or all of them.    *)
LEMMA PassedAwake ==
    ASSUME TypeInv, TypeInv', AwakeUp, AwakeSlots, UNCHANGED <<downThreads, upstream>>,
           NEW k \in Kernels, NEW after \in [Threads -> PCs], Relaxed(after),
           SendDownstream(k, after)
    PROVE  AwakeUp' /\ AwakeSlots'
<1> DEFINE s == SlotOf(ParentOf[k])
<1>1. /\ s \in Slots /\ s \in Threads
      /\ downstream' = [downstream EXCEPT ![s] = Append(@, k)] /\ OnlyWakes(after, pc')
  BY DownstreamWakes, ThreadSets DEF TypeInv
<1>2. WakeForDownstream(s, after, pc')
  BY DEF SendDownstream
<1> HIDE DEF s
<1>3. pc'[s] # "waiting"
  <2>1. CASE downThreads = {}
    BY <1>1, <1>2, <2>1 DEF WakeForDownstream, NotifyAll, Waiting, Slots, SlotsIn
  <2>2. CASE downThreads # {}
    BY <1>1, <1>2, <2>2, NotifiesOne DEF WakeForDownstream
  <2> QED
    BY <2>1, <2>2
<1>4. \A u \in Loops : pc'[u] = pc[u] \/ pc'[u] = "check"
  BY <1>1, LoopsAreThreads DEF Relaxed, OnlyWakes, Woken
<1>5. ASSUME NEW u \in Loops, u # s PROVE HasReturns(u)' <=> HasReturns(u)
  <2>1. u \in Slots => downstream'[u] = downstream[u]
    BY <1>1, <1>5 DEF TypeInv, TypeOK
  <2>2. HasReturns(u) <=> u \in Slots /\ downstream[u] # <<>>
    BY ReturnsOfSlot
  <2>3. HasReturns(u)' <=> u \in Slots /\ downstream'[u] # <<>>
    BY DEF HasReturns, OwnSlot, Slots, SlotsIn, Loops, TypeInv, TypeOK
  <2> QED
    BY <2>1, <2>2, <2>3
<1>6. AwakeSlots'
  BY <1>3, <1>4, <1>5 DEF AwakeSlots, Loops
<1>7. AwakeUp'
  <2>1. CASE downThreads = {}
    <3>1. \A u \in UpThreads : pc'[u] # "waiting"
      BY <1>2, <2>1, LoopsAreThreads DEF WakeForDownstream, NotifyAll, Waiting
    <3> QED
      BY <3>1 DEF AwakeUp, Waiting
  <2>2. CASE downThreads # {}
    <3>1. s \notin UpThreads
      BY <1>1, <2>2, LoopsAreThreads DEF Slots, SlotsIn
    <3>2. Looking \subseteq Looking'
      BY <1>4, <1>5, <3>1, LoopsAreThreads DEF Looking
    <3>3. Waiting(UpThreads, pc') \subseteq Waiting(UpThreads, pc)
      BY <1>4, LoopsAreThreads DEF Waiting
    <3>4. Len(upstream') <= Len(upstream)
      BY DEF TypeInv, TypeOK
    <3> QED
      BY <3>2, <3>3, <3>4, MoreLooking
  <2> QED
    BY <2>1, <2>2
<1> QED
  BY <1>6, <1>7

(* A released thread of a loop looks at the queues again.                  *)
LEMMA ReleasedRelaxed ==
    ASSUME TypeInv, NEW t \in Threads
    PROVE  Relaxed(Released(t)) /\ Relaxed(pc)
BY LoopsAreThreads DEF Released, Relaxed, TypeInv, TypeOK

(* Sending one kernel: the wake-up goes to a thread that has no downstream *)
(* kernel, because no thread waits that has one.                           *)
LEMMA SendOneAwake ==
    ASSUME TypeInv, TypeInv', Awake, NEW k \in Kernels, SendOne(k),
           UNCHANGED <<downThreads, downstream, alarm>>
    PROVE  Awake'
<1>1. \A t : HasReturns(t)' <=> HasReturns(t)
  BY DEF HasReturns, OwnSlot
<1>2. CASE k \in Scheduled /\ timer' = timer \cup {k} /\ UNCHANGED <<upstream, job>>
           /\ OnlyWakes(pc, pc') /\ pc'[Timer] # "waiting"
  <2>1. Relaxed(pc')
    BY <1>2, LoopsAreThreads DEF OnlyWakes, Relaxed, Woken
  <2>2. AwakeTimer'
    BY <1>2 DEF AwakeTimer
  <2> QED
    BY <1>2, <2>1, <2>2, RelaxedAwake DEF Awake
<1>3. CASE k \in NewThread \ Scheduled /\ pc' = [pc EXCEPT ![k] = "act"]
           /\ job' = [job EXCEPT ![k] = k] /\ UNCHANGED <<upstream, timer>>
  <2>1. Relaxed(pc') /\ pc'[Timer] = pc[Timer]
    BY <1>3, LoopsAreThreads, ThreadSets DEF Relaxed, TypeInv, TypeOK, PoolThreads
  <2>2. AwakeTimer'
    BY <1>3, <2>1, TimerAwake DEF Awake
  <2> QED
    BY <1>3, <2>1, <2>2, RelaxedAwake DEF Awake
<1>4. CASE k \notin Scheduled \cup NewThread /\ upstream' = Append(upstream, k)
           /\ UNCHANGED <<timer, job>> /\ NotifyOne(UpThreads, pc, pc') /\ OnlyWakes(pc, pc')
  <2>1. /\ pc'[Timer] = "waiting" => pc[Timer] = "waiting"
        /\ \A t \in Loops : pc'[t] = pc[t] \/ pc'[t] = "check"
    BY <1>4, LoopsAreThreads, ThreadSets DEF OnlyWakes, TypeInv, Woken
  <2>2. AwakeTimer'
    BY <1>4, <2>1, TimerAwake DEF Awake
  <2>3. AwakeSlots'
    BY <1>1, <2>1 DEF Awake, AwakeSlots, Loops
  <2>4. CASE Waiting(UpThreads, pc) = {}
    <3>1. Waiting(UpThreads, pc') = {}
      BY <1>4, <2>4 DEF NotifyOne
    <3> QED
      BY <2>2, <2>3, <3>1 DEF Awake, AwakeUp
  <2>5. CASE Waiting(UpThreads, pc) # {}
    <3>1. PICK t \in Waiting(UpThreads, pc) : pc' = [pc EXCEPT ![t] = "check"]
      BY <1>4, <2>5, LoopsAreThreads DEF NotifyOne, Waiting
    <3>2. t \in UpThreads /\ t \in Threads /\ pc[t] = "waiting" /\ ~HasReturns(t)
      BY LoopsAreThreads DEF Waiting, Awake, AwakeSlots, Loops
    <3>3. Looking' = Looking \cup {t} /\ t \notin Looking
      BY <1>1, <3>1, <3>2, LoopsAreThreads DEF Looking, TypeInv, TypeOK
    <3>4. Cardinality(Looking') = Cardinality(Looking) + 1
      BY <3>3, LookingCount, FS_AddElement
    <3>5. Len(upstream') = Len(upstream) + 1
      BY <1>4 DEF TypeInv, TypeOK
    <3>6. Cardinality(Looking) >= Len(upstream)
      BY <2>5 DEF Awake, AwakeUp
    <3>7. Cardinality(Looking') >= Len(upstream')
      BY <3>4, <3>5, <3>6, LookingCount
    <3> QED
      BY <2>2, <2>3, <3>7 DEF Awake, AwakeUp
  <2> QED
    BY <2>4, <2>5
<1> QED
  BY <1>2, <1>3, <1>4, SendOneCases DEF TypeInv

(* Sending an array wakes all the threads that wait for upstream kernels.  *)
LEMMA SendArrayAwake ==
    ASSUME TypeInv, TypeInv', Awake, NEW S \in SUBSET Kernels, SendArray(S),
           UNCHANGED <<downThreads, downstream, alarm>>
    PROVE  Awake'
<1>1. /\ timer' = timer \cup (S \cap Scheduled)
      /\ upstream' = upstream \o SetToSeq(Plain(S)) /\ SetToSeq(Plain(S)) \in Seq(Kernels)
      /\ Len(SetToSeq(Plain(S))) = Cardinality(Plain(S))
      /\ OnlyWakes(Spawned(S), pc')
      /\ (Plain(S) # {} => \A t \in UpThreads : pc'[t] # "waiting")
      /\ (S \cap Scheduled # {} => pc'[Timer] # "waiting")
  BY SendArrayCases DEF TypeInv
<1>2. \A t \in Loops : pc'[t] = pc[t] \/ pc'[t] = "check"
  BY <1>1, LoopsAreThreads DEF OnlyWakes, Spawned, Woken
<1>3. pc'[Timer] = "waiting" => pc[Timer] = "waiting"
  BY <1>1, ThreadSets DEF OnlyWakes, Spawned, TypeInv, PoolThreads
<1>4. AwakeTimer'
  BY <1>1, <1>3 DEF Awake, AwakeTimer
<1>5. \A t : HasReturns(t)' <=> HasReturns(t)
  BY DEF HasReturns, OwnSlot
<1>6. AwakeSlots'
  BY <1>2, <1>5 DEF Awake, AwakeSlots, Loops
<1>7. CASE Plain(S) # {}
  BY <1>1, <1>4, <1>6, <1>7 DEF Awake, AwakeUp, Waiting
<1>8. CASE Plain(S) = {}
  <2>1. Len(SetToSeq(Plain(S))) = 0
    BY <1>1, <1>8, FS_EmptySet
  <2>2. Len(upstream') <= Len(upstream)
    BY <1>1, <2>1 DEF TypeInv, TypeOK
  <2>3. Looking \subseteq Looking'
    BY <1>2, <1>5, LoopsAreThreads DEF Looking
  <2>4. Waiting(UpThreads, pc') \subseteq Waiting(UpThreads, pc)
    BY <1>2, LoopsAreThreads DEF Waiting
  <2> QED
    BY <1>4, <1>6, <2>2, <2>3, <2>4, MoreLooking DEF Awake
<1> QED
  BY <1>7, <1>8

(* A thread that takes a downstream kernel was not counted on.             *)
LEMMA TakenAwake ==
    ASSUME TypeInv, TypeInv', Awake, NEW t \in Threads, TakeReturn(t), UNCHANGED downThreads
    PROVE  Awake'
<1>1. PICK s \in OwnSlot(t) : downstream[s] # <<>> /\ downstream' = [downstream EXCEPT ![s] = Tail(@)]
  BY DEF TakeReturn
<1>2. /\ pc' = [pc EXCEPT ![t] = "react"] /\ pc[t] = "check"
      /\ UNCHANGED <<upstream, timer, alarm>>
  BY DEF TakeReturn
<1>3. s = t /\ t \in Slots /\ t \in Loops
  BY OwnSlotType DEF Slots, SlotsIn, Loops
<1>4. HasReturns(t)
  BY <1>1, <1>3, ReturnsOfSlot
<1>5. ASSUME NEW u \in Loops, u # t PROVE (HasReturns(u)' <=> HasReturns(u)) /\ pc'[u] = pc[u]
  <2>1. u \in Slots => downstream'[u] = downstream[u]
    BY <1>1, <1>3, <1>5 DEF TypeInv, TypeOK
  <2>2. HasReturns(u) <=> u \in Slots /\ downstream[u] # <<>>
    BY ReturnsOfSlot
  <2>3. HasReturns(u)' <=> u \in Slots /\ downstream'[u] # <<>>
    BY DEF HasReturns, OwnSlot, Slots, SlotsIn, Loops, TypeInv, TypeOK
  <2> QED
    BY <1>2, <1>5, <2>1, <2>2, <2>3, LoopsAreThreads DEF TypeInv, TypeOK
<1>6. pc'[t] = "react"
  BY <1>2 DEF TypeInv, TypeOK
<1>7. AwakeSlots'
  BY <1>5, <1>6 DEF Awake, AwakeSlots, Loops
<1>8. AwakeUp'
  <2>1. Looking \subseteq Looking'
    BY <1>4, <1>5, LoopsAreThreads DEF Looking
  <2>2. Waiting(UpThreads, pc') \subseteq Waiting(UpThreads, pc)
    BY <1>5, <1>6, LoopsAreThreads DEF Waiting
  <2>3. Len(upstream') <= Len(upstream)
    BY <1>2 DEF TypeInv, TypeOK
  <2> QED
    BY <2>1, <2>2, <2>3, MoreLooking DEF Awake
<1>9. AwakeTimer'
  <2>1. pc'[Timer] = "waiting" => pc[Timer] = "waiting"
    BY <1>2, <1>6 DEF TypeInv, TypeOK
  <2> QED
    BY <1>2, <2>1, TimerAwake DEF Awake
<1> QED
  BY <1>7, <1>8, <1>9 DEF Awake

(* A thread that takes an upstream kernel leaves one kernel less to the    *)
(* others.                                                                 *)
LEMMA TakenWorkAwake ==
    ASSUME TypeInv, TypeInv', Awake, NEW t \in Threads, TakeWork(t), UNCHANGED downThreads
    PROVE  Awake'
<1>1. /\ pc' = [pc EXCEPT ![t] = "act"] /\ pc[t] = "check" /\ ~HasReturns(t)
      /\ t \in UpThreads /\ upstream # <<>> /\ upstream' = Tail(upstream)
      /\ UNCHANGED <<downstream, timer, alarm>>
  BY DEF TakeWork, HasWork
<1>2. pc'[t] = "act" /\ \A u \in Threads \ {t} : pc'[u] = pc[u]
  BY <1>1 DEF TypeInv, TypeOK
<1>3. \A u : HasReturns(u)' <=> HasReturns(u)
  BY <1>1 DEF HasReturns, OwnSlot
<1>4. AwakeSlots'
  BY <1>2, <1>3, LoopsAreThreads DEF Awake, AwakeSlots, Loops
<1>5. AwakeTimer'
  <2>1. pc'[Timer] = "waiting" => pc[Timer] = "waiting"
    BY <1>2, ThreadSets DEF TypeInv
  <2> QED
    BY <1>1, <2>1, TimerAwake DEF Awake
<1>6. AwakeUp'
  <2>1. SUFFICES ASSUME Waiting(UpThreads, pc') # {}
                 PROVE  Cardinality(Looking') >= Len(upstream')
    BY DEF AwakeUp
  <2>2. Waiting(UpThreads, pc) # {}
    BY <1>2, <2>1, LoopsAreThreads DEF Waiting
  <2>3. Cardinality(Looking) >= Len(upstream)
    BY <2>2 DEF Awake, AwakeUp
  <2>4. t \in Looking /\ Looking' = Looking \ {t}
    BY <1>1, <1>2, <1>3, LoopsAreThreads DEF Looking
  <2>5. Cardinality(Looking') = Cardinality(Looking) - 1
    BY <2>4, LookingCount, FS_RemoveElement
  <2>6. Len(upstream') = Len(upstream) - 1
    BY <1>1 DEF TypeInv, TypeOK
  <2> QED
    BY <2>3, <2>5, <2>6, LookingCount
<1> QED
  BY <1>4, <1>5, <1>6 DEF Awake

(* A thread of a loop waits or ends only when its queues are empty.        *)
LEMMA RestedAwake ==
    ASSUME TypeInv, TypeInv', Awake, NEW t \in Threads, Wait(t) \/ Exit(t),
           UNCHANGED downThreads
    PROVE  Awake'
<1>1. /\ t # Timer /\ pc[t] = "check" /\ ~HasReturns(t) /\ ~HasWork(t)
      /\ pc' = [pc EXCEPT ![t] = "waiting"] \/ pc' = [pc EXCEPT ![t] = "exited"]
      /\ UNCHANGED <<upstream, downstream, timer, alarm>>
  BY DEF Wait, Exit, Rest, queues
<1>2. \A u \in Threads \ {t} : pc'[u] = pc[u]
  BY <1>1 DEF TypeInv, TypeOK
<1>3. \A u : HasReturns(u)' <=> HasReturns(u)
  BY <1>1 DEF HasReturns, OwnSlot
<1>4. AwakeSlots'
  BY <1>1, <1>2, <1>3, LoopsAreThreads DEF Awake, AwakeSlots, Loops
<1>5. AwakeTimer'
  <2>1. pc'[Timer] = pc[Timer]
    BY <1>1, <1>2, ThreadSets DEF TypeInv
  <2> QED
    BY <1>1, <2>1, TimerAwake DEF Awake
<1>6. AwakeUp'
  <2>1. CASE t \in UpThreads
    <3>1. Len(upstream') = 0
      BY <1>1, <2>1 DEF HasWork
    <3>2. Looking' \in SUBSET UpThreads
      BY DEF Looking
    <3>3. Cardinality(Looking') \in Nat
      BY <3>2, FS_Subset, FS_CardinalityType, PipelineAssumption
    <3> QED
      BY <3>1, <3>3 DEF AwakeUp
  <2>2. CASE t \notin UpThreads
    <3>1. \A u \in UpThreads : pc'[u] = pc[u]
      BY <1>2, <2>2, LoopsAreThreads
    <3>2. Looking' = Looking /\ Waiting(UpThreads, pc') = Waiting(UpThreads, pc)
      BY <1>3, <3>1 DEF Looking, Waiting
    <3> QED
      BY <1>1, <3>2 DEF Awake, AwakeUp
  <2> QED
    BY <2>1, <2>2
<1> QED
  BY <1>4, <1>5, <1>6 DEF Awake

(* The timer thread sets its alarm to the earliest scheduled kernel.       *)
LEMMA SleepAwake ==
    ASSUME TypeInv, TypeInv', Awake, Sleep, UNCHANGED downThreads
    PROVE  Awake'
<1>1. /\ pc' = [pc EXCEPT ![Timer] = "waiting"]
      /\ alarm' = Min({Never} \cup {At[k] : k \in timer})
      /\ UNCHANGED <<upstream, downstream, timer>>
  BY DEF Sleep, queues
<1>2. Relaxed(pc')
  BY <1>1, LoopsAreThreads DEF Relaxed, TypeInv, TypeOK
<1>3. AwakeTimer'
  <2> DEFINE times == {Never} \cup {At[k] : k \in timer}
  <2>1. times \in SUBSET Nat
    BY PipelineAssumption DEF TypeInv, TypeOK
  <2>2. \A n \in times : Min(times) <= n
    BY <2>1, MinProperty
  <2>3. \A k \in timer : alarm' <= At[k]
    BY <1>1, <2>2
  <2> QED
    BY <1>1, <2>3 DEF AwakeTimer
<1> QED
  BY <1>1, <1>2, <1>3, RelaxedAwake DEF Awake

(* Every step keeps enough threads awake.                                  *)
LEMMA AwakeStep ==
    ASSUME TypeInv, TypeInv', Awake, [Next]_vars
    PROVE  Awake'
<1>1. UNCHANGED downThreads
  BY DEF Next, vars
<1>2. ASSUME Relaxed(pc'), UNCHANGED <<upstream, downstream, alarm>>, timer' \subseteq timer,
             pc'[Timer] = "waiting" => pc[Timer] = "waiting"
      PROVE  Awake'
  BY <1>1, <1>2, RelaxedAwake, TimerAwake DEF Awake
<1>3. CASE UNCHANGED vars
  <2>1. Relaxed(pc') /\ UNCHANGED <<pc, upstream, downstream, timer, alarm>>
    BY <1>3 DEF vars, moving, queues, threads, Relaxed
  <2> QED
    BY <1>2, <2>1
<1>4. SUFFICES ASSUME Step PROVE Awake'
  BY <1>3 DEF Next
<1>5. ASSUME NEW t \in PoolThreads, NEW what \in {"check", "woken", "act", "exited"},
             pc' = [pc EXCEPT ![t] = what], t \in Loops => what = "check",
             UNCHANGED <<upstream, downstream, alarm>>, timer' \subseteq timer
      PROVE  Awake'
  <2>1. Relaxed(pc') /\ (pc'[Timer] = "waiting" => pc[Timer] = "waiting")
    BY <1>5, LoopsAreThreads, ThreadSets DEF Relaxed, TypeInv, TypeOK
  <2> QED
    BY <1>2, <1>5, <2>1
<1>6. ASSUME NEW t \in Threads, pc' = Released(t),
             UNCHANGED <<upstream, downstream, timer, alarm>>
      PROVE  Awake'
  <2>1. Relaxed(pc')
    BY <1>6, ReleasedRelaxed
  <2>2. pc'[Timer] = "waiting" => pc[Timer] = "waiting"
    BY <1>6, ThreadSets DEF Released, TypeInv, TypeOK
  <2> QED
    BY <1>2, <1>6, <2>1, <2>2
<1>7. ASSUME NEW t \in Threads, NEW k \in Kernels, SendDownstream(k, Released(t)),
             UNCHANGED <<upstream, timer, alarm>>
      PROVE  Awake'
  <2>1. AwakeUp' /\ AwakeSlots'
    BY <1>1, <1>7, ReleasedRelaxed, ReleasedType, PassedAwake DEF Awake
  <2>2. OnlyWakes(Released(t), pc')
    BY <1>7, ReleasedType, PassesEffect
  <2>3. pc'[Timer] = "waiting" => pc[Timer] = "waiting"
    BY <2>2, ThreadSets DEF OnlyWakes, Released, TypeInv, TypeOK
  <2> QED
    BY <1>7, <2>1, <2>3, TimerAwake DEF Awake
<1>8. ASSUME NEW k \in Roots, SendRoot(k) PROVE Awake'
  BY <1>1, <1>8, SendOneAwake DEF SendRoot, Roots, Children
<1>9. ASSUME NEW t \in Threads, SendChild(t) PROVE Awake'
  <2>1. PICK k \in unsent[job[t]] : SendOne(k)
    BY <1>9 DEF SendChild
  <2>2. k \in Kernels
    BY DEF TypeInv, TypeOK
  <2> QED
    BY <1>1, <1>9, <2>1, <2>2, SendOneAwake DEF SendChild
<1>10. ASSUME NEW t \in Threads, SendChildren(t) PROVE Awake'
  <2>1. unsent[job[t]] \in SUBSET Kernels /\ SendArray(unsent[job[t]])
    BY <1>10 DEF SendChildren, TypeInv, TypeOK
  <2> QED
    BY <1>1, <1>10, <2>1, SendArrayAwake DEF SendChildren
<1>11. ASSUME NEW t \in Threads, TakeReturn(t) \/ TakeWork(t) \/ Wait(t) \/ Exit(t) PROVE Awake'
  BY <1>1, <1>11, TakenAwake, TakenWorkAwake, RestedAwake
<1>12. ASSUME NEW t \in Threads, FinishAct(t) \/ ThrowAct(t) PROVE Awake'
  BY <1>6, <1>12 DEF FinishAct, ThrowAct, queues
<1>13. ASSUME NEW t \in Threads, CommitAct(t) PROVE Awake'
  <2>1. job[t] \in Kernels
    BY <1>13 DEF CommitAct, TypeInv, TypeOK, ThreadsOK, Busy
  <2> QED
    BY <1>7, <1>13, <2>1 DEF CommitAct
<1>14. ASSUME NEW t \in Threads, React(t) PROVE Awake'
  <2> DEFINE p == ParentOf[job[t]]
  <2>1. \/ p # NoKernel /\ SendDownstream(p, Released(t))
        \/ pc' = Released(t) /\ UNCHANGED downstream
    BY <1>14 DEF React
  <2>2. UNCHANGED <<upstream, timer, alarm>>
    BY <1>14 DEF React
  <2>3. job[t] \in Kernels
    BY <1>14 DEF React, TypeInv, TypeOK, ThreadsOK, Busy
  <2>4. p # NoKernel => p \in Kernels
    BY <2>3, PipelineAssumption
  <2> QED
    BY <1>6, <1>7, <2>1, <2>2, <2>4
<1>15. ASSUME NEW t \in Loops, SpuriousWakeup(t) PROVE Awake'
  BY <1>5, <1>15, LoopsAreThreads DEF SpuriousWakeup, queues
<1>16. CASE TakeScheduled
  <2>1. /\ pc' = [pc EXCEPT ![Timer] = "act"] /\ timer' \subseteq timer
        /\ UNCHANGED <<upstream, downstream, alarm>>
    BY <1>16 DEF TakeScheduled
  <2> QED
    BY <1>5, <2>1, LoopsAreThreads DEF PoolThreads
<1>17. CASE Alarm \/ ExitTimer
  <2>1. /\ pc' = [pc EXCEPT ![Timer] = "woken"] \/ pc' = [pc EXCEPT ![Timer] = "exited"]
        /\ UNCHANGED <<upstream, downstream, timer, alarm>>
    BY <1>17 DEF Alarm, ExitTimer, queues
  <2> QED
    BY <1>5, <2>1, LoopsAreThreads DEF PoolThreads
<1>18. CASE Sleep
  BY <1>1, <1>18, SleepAwake
<1>19. ASSUME NEW k \in Kernels, ReturnFailed(k) PROVE Awake'
  <2>1. SendDownstream(k, pc) /\ UNCHANGED <<upstream, timer, alarm>>
    BY <1>19 DEF ReturnFailed
  <2>2. pc \in [Threads -> PCs] /\ Relaxed(pc)
    BY DEF TypeInv, TypeOK, Relaxed
  <2>3. AwakeUp' /\ AwakeSlots' /\ OnlyWakes(pc, pc')
    BY <1>1, <2>1, <2>2, PassedAwake, PassesEffect DEF Awake
  <2>4. pc'[Timer] = "waiting" => pc[Timer] = "waiting"
    BY <2>3, ThreadSets DEF OnlyWakes, TypeInv
  <2> QED
    BY <2>1, <2>3, <2>4, TimerAwake DEF Awake
<1>20. ASSUME (\E k \in Kernels : GetId(k)) \/ Tick \/ Join PROVE Awake'
  <2>1. UNCHANGED <<pc, upstream, downstream, timer, alarm>>
    BY <1>20 DEF GetId, Tick, Join, queues, threads
  <2>2. Relaxed(pc')
    BY <2>1 DEF Relaxed
  <2> QED
    BY <1>2, <2>1, <2>2
<1>21. CASE Stop
  <2>1. OnlyWakes(pc, pc') /\ UNCHANGED <<upstream, downstream, timer, alarm>>
    BY <1>21, ThreadSets, NotifyWakes DEF Stop, StopWakes, queues, TypeInv, TypeOK
  <2>2. Relaxed(pc') /\ (pc'[Timer] = "waiting" => pc[Timer] = "waiting")
    BY <2>1, LoopsAreThreads, ThreadSets DEF OnlyWakes, Relaxed, Woken, TypeInv
  <2> QED
    BY <1>2, <2>1, <2>2
<1>22. CASE Clear
  <2>1. pc' = pc /\ \A t \in Threads : pc[t] # "waiting"
    BY <1>22 DEF Clear, threads, TypeInv, ThreadsOK
  <2>2. \A t \in Loops \cup {Timer} : pc'[t] # "waiting"
    BY <2>1, LoopsAreThreads, ThreadSets DEF TypeInv
  <2> QED
    BY <1>1, <2>2 DEF Awake, AwakeUp, AwakeSlots, AwakeTimer, Waiting, Loops
<1> QED
  BY <1>4, <1>8, <1>9, <1>10, <1>11, <1>12, <1>13, <1>14, <1>15, <1>16, <1>17, <1>18, <1>19,
     <1>20, <1>21, <1>22 DEF Step, Work, TimerWork, Loops

(* There are always enough threads awake for the kernels in the queues.    *)
THEOREM AwakeInvariance == Spec => [](TypeInv /\ Awake)
<1>1. Init => Awake
  <2>1. SUFFICES ASSUME Init PROVE Awake
    OBVIOUS
  <2>2. \A t \in Threads : pc[t] # "waiting"
    BY <2>1 DEF Init
  <2>3. \A t \in Loops \cup {Timer} : pc[t] # "waiting"
    BY <2>1, <2>2, TypeInit, LoopsAreThreads, ThreadSets DEF TypeInv
  <2> QED
    BY <2>3 DEF Awake, AwakeUp, AwakeSlots, AwakeTimer, Waiting, Loops
<1>2. TypeInv /\ [Next]_vars => TypeInv'
  BY TypeStep, FamilyStep DEF TypeInv
<1>3. TypeInv /\ TypeInv' /\ Awake /\ [Next]_vars => Awake'
  BY AwakeStep
<1> QED
  BY <1>1, <1>2, <1>3, TypeInit, PTL DEF Spec

(* notify_one is enough, however many threads share the condition variable *)
(* and for whatever they are woken: no wake-up is lost.                    *)
THEOREM NoWakeupLost == Spec => []NoLostWakeup
<1>1. ASSUME TypeInv, Awake PROVE NoLostWakeup
  <2>1. ASSUME Waiting(UpThreads, pc) # {}
        PROVE  Cardinality({t \in UpThreads : pc[t] = "check"}) >= Len(upstream)
    <3> DEFINE Checking == {t \in UpThreads : pc[t] = "check"}
    <3>1. Checking \in SUBSET UpThreads /\ Looking \in SUBSET Checking
      BY DEF Looking
    <3>2. IsFiniteSet(Checking)
      BY <3>1, FS_Subset, PipelineAssumption
    <3>3. Cardinality(Looking) <= Cardinality(Checking) /\ Cardinality(Checking) \in Nat
      BY <3>1, <3>2, FS_Subset, FS_CardinalityType
    <3>4. Cardinality(Looking) >= Len(upstream)
      BY <1>1, <2>1 DEF Awake, AwakeUp
    <3>5. Cardinality(Looking) \in Nat /\ Len(upstream) \in Nat
      BY <1>1, LookingCount
    <3> HIDE DEF Checking
    <3>6. Cardinality(Checking) >= Len(upstream)
      BY <3>3, <3>4, <3>5
    <3> QED
      BY <3>6 DEF Checking
  <2> QED
    BY <1>1, <2>1 DEF NoLostWakeup, Awake, AwakeSlots, AwakeTimer
<1> QED
  BY <1>1, AwakeInvariance, PTL
=============================================================================
