--------------------------- MODULE ParallelPipeline ---------------------------
(***************************************************************************)
(* The CPU queue (core/parallel_pipeline): threads that execute kernels.   *)
(*                                                                         *)
(* One mutex protects one queue of upstream kernels, shared by the         *)
(* upstream threads, one queue of downstream kernels per slot, and the     *)
(* timer queue.  A downstream kernel goes to the slot that its principal   *)
(* hashes to, so that the reacts of one principal run on one thread.  If   *)
(* there are no downstream threads every upstream thread serves a slot too *)
(* and all of them wait on one condition variable.  A kernel with the      *)
(* new_thread flag gets a thread of its own.                               *)
(*                                                                         *)
(* A step that holds the mutex is one action.  The kernels behave like the *)
(* ones of parallel_pipeline_test.cc: act() sends the children one by one  *)
(* or as an array, a kernel without children commits or throws, and        *)
(* react() commits the parent when its last child has come back.           *)
(***************************************************************************)
EXTENDS Naturals, Sequences, FiniteSets, FiniteSetsExt, SequencesExt

CONSTANTS
    Kernels,              \* the kernels of the application
    NoKernel,             \* the parent of a main kernel
    ParentOf,             \* kernel::parent()
    Scheduled,            \* kernels with a time of execution
    At,                   \* kernel::at() of those
    Never,                \* a time after all of them, the bound of the clock
    NewThread,            \* kernels with the new_thread flag
    MayThrow,             \* kernels without children whose act() may throw
    Remote,               \* parents that some connection may give an id to
    UpThreads, Timer,
    Layouts,              \* the sets of downstream threads to look at
    SlotByAddress,        \* the slot a principal without an id hashes to
    SlotById              \* ... and one with an id

AllThreads == UpThreads \cup (UNION Layouts) \cup {Timer}

(* The thread of a new_thread kernel is named by the kernel.               *)
Threads == AllThreads \cup NewThread
Children(p) == {k \in Kernels : ParentOf[k] = p}

(* Without downstream threads the upstream ones have their slots.          *)
SlotsIn(layout) == IF layout = {} THEN UpThreads ELSE layout

(* A kernel is created after its parent, so that parents never form a      *)
(* cycle.  With fewer downstream than upstream threads, but some, the code *)
(* indexes _downstream_kernels out of its bounds.                          *)
ASSUME PipelineAssumption ==
    /\ NoKernel \notin Kernels /\ IsFiniteSet(Kernels)
    /\ ParentOf \in [Kernels -> Kernels \cup {NoKernel}]
    /\ \A S \in (SUBSET Kernels) \ {{}} : \E k \in S : Children(k) \cap S = {}
    /\ Scheduled \subseteq Kernels /\ NewThread \subseteq Kernels
    /\ Scheduled \cap NewThread = {}
    /\ Never \in Nat \ {0} /\ At \in [Scheduled -> 0..(Never - 1)]
    /\ MayThrow \subseteq {k \in Kernels : Children(k) = {}}
    /\ Remote \subseteq Kernels
    /\ UpThreads # {} /\ IsFiniteSet(UpThreads)
    /\ Timer \notin UpThreads \cup (UNION Layouts)
    /\ UpThreads \cap (UNION Layouts) = {}
    /\ Kernels \cap AllThreads = {}
    /\ \A layout \in Layouts :
          /\ layout = {} \/ Cardinality(layout) >= Cardinality(UpThreads)
          /\ SlotByAddress[layout] \in [Kernels \cup {NoKernel} -> SlotsIn(layout)]
          /\ SlotById[layout] \in [Kernels \cup {NoKernel} -> SlotsIn(layout)]

VARIABLES
    downThreads,          \* the downstream threads, a setting of the pipeline
    state,                \* state of the pipeline
    upstream,             \* _upstream_kernels
    downstream,           \* _downstream_kernels
    timer,                \* _timer_kernels
    failed,               \* kernels in the error pipeline
    pc,                   \* what each thread is doing
    job,                  \* the kernel each thread is executing
    now,                  \* the clock
    alarm,                \* until when the timer thread sleeps
    unsent,               \* children each kernel has not sent yet
    collected,            \* children each kernel has reacted to
    identified,           \* kernels that have an id
    discarded             \* kernels deleted by clear()

queues == <<upstream, downstream, timer, failed>>
threads == <<pc, job, alarm>>
program == <<unsent, collected, identified>>
moving == <<state, queues, threads, now, program, discarded>>
vars == <<downThreads, moving>>

Slots == SlotsIn(downThreads)
PoolThreads == UpThreads \cup downThreads \cup {Timer}

Roots == Children(NoKernel)

(* "check": about to look at the queues with the mutex held; "woken": the  *)
(* same inside the inner loop of the timer thread.                         *)
PCs == {"none", "check", "woken", "waiting", "act", "react", "exited"}

TypeOK ==
    /\ downThreads \in Layouts
    /\ state \in {"started", "stopping", "stopped", "cleared"}
    /\ upstream \in Seq(Kernels)
    /\ downstream \in [Slots -> Seq(Kernels)]
    /\ timer \subseteq Scheduled
    /\ failed \subseteq MayThrow
    /\ pc \in [Threads -> PCs]
    /\ job \in [Threads -> Kernels \cup {NoKernel}]
    /\ now \in 0..Never /\ alarm \in 0..Never
    /\ unsent \in [Kernels \cup {NoKernel} -> SUBSET Kernels]
    /\ collected \in [Kernels \cup {NoKernel} -> SUBSET Kernels]
    /\ identified \subseteq Remote
    /\ discarded \subseteq Kernels

Init ==
    /\ downThreads \in Layouts
    /\ state = "started"
    /\ upstream = <<>>
    /\ downstream = [s \in Slots |-> <<>>]
    /\ timer = {}
    /\ failed = {}
    /\ pc = [t \in Threads |-> IF t \in PoolThreads THEN "check" ELSE "none"]
    /\ job = [t \in Threads |-> NoKernel]
    /\ now = 0
    /\ alarm = Never
    /\ unsent = [k \in Kernels \cup {NoKernel} |-> Children(k)]
    /\ collected = [k \in Kernels \cup {NoKernel} |-> {}]
    /\ identified = {}
    /\ discarded = {}

-----------------------------------------------------------------------------
(***************************************************************************)
(* Sending.                                                                *)
(***************************************************************************)
Waiting(T, q) == {t \in T : q[t] = "waiting"}

(* notify_one and notify_all on the condition variable that T waits on;    *)
(* q and r are the thread states before and after.                         *)
NotifyOne(T, q, r) ==
    IF Waiting(T, q) = {} THEN r = q
    ELSE \E t \in Waiting(T, q) :
            r = [q EXCEPT ![t] = IF t = Timer THEN "woken" ELSE "check"]

NotifyAll(T, q) ==
    [t \in Threads |-> IF t \in Waiting(T, q)
                       THEN IF t = Timer THEN "woken" ELSE "check"
                       ELSE q[t]]

(* hash() of a downstream kernel: by the id of the principal if it has one. *)
SlotOf(p) == IF p \in identified THEN SlotById[downThreads][p]
             ELSE SlotByAddress[downThreads][p]

(* send_downstream.  `after' is the state of the sending thread and its    *)
(* fellows when the call returns, before the notification.                 *)
WakeForDownstream_One(s, q, r) ==
    IF downThreads = {} THEN NotifyOne(UpThreads, q, r) ELSE NotifyOne({s}, q, r)

WakeForDownstream(s, q, r) ==
    IF downThreads = {} THEN r = NotifyAll(UpThreads, q) ELSE NotifyOne({s}, q, r)

SendDownstream_ByKernel(k, after) ==
    LET s == SlotOf(k)
    IN  /\ downstream' = [downstream EXCEPT ![s] = Append(@, k)]
        /\ WakeForDownstream(s, after, pc')

SendDownstream(k, after) ==
    LET s == SlotOf(ParentOf[k])
    IN  /\ downstream' = [downstream EXCEPT ![s] = Append(@, k)]
        /\ WakeForDownstream(s, after, pc')

(* send of one kernel: send_timer, send_thread or send_upstream.           *)
WakeForUpstream(q, r) == NotifyOne(UpThreads, q, r)

WakeForTimer(q, r) == NotifyOne({Timer}, q, r)

SendOne(k) ==
    \/ /\ k \in Scheduled
       /\ timer' = timer \cup {k}
       /\ WakeForTimer(pc, pc')
       /\ UNCHANGED <<upstream, job>>
    \/ /\ k \in NewThread
       /\ pc' = [pc EXCEPT ![k] = "act"]
       /\ job' = [job EXCEPT ![k] = k]
       /\ UNCHANGED <<upstream, timer>>
    \/ /\ k \notin Scheduled \cup NewThread
       /\ upstream' = Append(upstream, k)
       /\ WakeForUpstream(pc, pc')
       /\ UNCHANGED <<timer, job>>

(* send of an array: the mutex is held for all of it.                      *)
SendArray(S) ==
    LET plain == S \ (Scheduled \cup NewThread)
        spawned == [t \in Threads |-> IF t \in S \cap NewThread THEN "act" ELSE pc[t]]
        notified == IF plain = {} THEN spawned ELSE NotifyAll(UpThreads, spawned)
    IN  /\ timer' = timer \cup (S \cap Scheduled)
        /\ upstream' = upstream \o SetToSeq(plain)
        /\ job' = [t \in Threads |-> IF t \in S \cap NewThread THEN t ELSE job[t]]
        /\ IF S \cap Scheduled = {} THEN pc' = notified
                                    ELSE WakeForTimer(notified, pc')

(* The main kernel is sent from outside, before or after stop(); one with  *)
(* the new_thread flag is sent before, because wait() would not join a     *)
(* thread that is created while it joins the others.                       *)
SendRoot(k) ==
    /\ state # "cleared"
    /\ k \in NewThread => state = "started"
    /\ k \in unsent[NoKernel]
    /\ unsent' = [unsent EXCEPT ![NoKernel] = @ \ {k}]
    /\ SendOne(k)
    /\ UNCHANGED <<state, downstream, failed, alarm, now, collected, identified, discarded>>

(* act() sends a child.                                                    *)
SendChild(t) ==
    /\ pc[t] = "act"
    /\ \E k \in unsent[job[t]] :
          /\ unsent' = [unsent EXCEPT ![job[t]] = @ \ {k}]
          /\ SendOne(k)
    /\ UNCHANGED <<state, downstream, failed, alarm, now, collected, identified, discarded>>

(* act() sends all the children that are left as an array.                 *)
SendChildren(t) ==
    /\ pc[t] = "act"
    /\ unsent[job[t]] # {}
    /\ unsent' = [unsent EXCEPT ![job[t]] = {}]
    /\ SendArray(unsent[job[t]])
    /\ UNCHANGED <<state, downstream, failed, alarm, now, collected, identified, discarded>>

(* The socket pipeline gives the parent of a kernel it sends an id; nothing *)
(* tells this pipeline (ensure_has_id).                                    *)
GetId(p) ==
    /\ p \in Remote \ identified
    /\ \E k \in Children(p) : k \notin unsent[p] \cup collected[p]
    /\ identified' = identified \cup {p}
    /\ UNCHANGED <<state, queues, threads, now, unsent, collected, discarded>>

-----------------------------------------------------------------------------
(***************************************************************************)
(* The loops of the threads: each looks at the queues with the mutex held, *)
(* and takes a kernel, leaves, or waits.                                   *)
(***************************************************************************)
OwnSlot(t) ==
    CASE t \in downThreads -> {t}
      [] t \in UpThreads /\ downThreads = {} -> {t}
      [] OTHER -> {}

HasReturns(t) == \E s \in OwnSlot(t) : downstream[s] # <<>>
HasWork(t) == t \in UpThreads /\ upstream # <<>>

(* The earliest scheduled kernel, if its time has come.                    *)
Due == {k \in timer : At[k] <= now /\ \A j \in timer : At[k] <= At[j]}

TakeReturn_NoPop(t) ==
    /\ pc[t] = "check"
    /\ \E s \in OwnSlot(t) :
          /\ downstream[s] # <<>>
          /\ job' = [job EXCEPT ![t] = Head(downstream[s])]
    /\ pc' = [pc EXCEPT ![t] = "react"]
    /\ UNCHANGED <<state, queues, now, alarm, program, discarded>>

(* upstream_loop and downstream_loop: a downstream kernel comes first.     *)
TakeReturn(t) ==
    /\ pc[t] = "check"
    /\ \E s \in OwnSlot(t) :
          /\ downstream[s] # <<>>
          /\ downstream' = [downstream EXCEPT ![s] = Tail(@)]
          /\ job' = [job EXCEPT ![t] = Head(downstream[s])]
    /\ pc' = [pc EXCEPT ![t] = "react"]
    /\ UNCHANGED <<state, upstream, timer, failed, now, alarm, program, discarded>>

TakeWork(t) ==
    /\ pc[t] = "check"
    /\ ~HasReturns(t)
    /\ HasWork(t)
    /\ upstream' = Tail(upstream)
    /\ job' = [job EXCEPT ![t] = Head(upstream)]
    /\ pc' = [pc EXCEPT ![t] = "act"]
    /\ UNCHANGED <<state, downstream, timer, failed, now, alarm, program, discarded>>

Rest_OwnSlotOnly(t) == ~HasReturns(t)

(* Both queues are empty: only then the thread looks at the state.         *)
Rest(t) == ~HasReturns(t) /\ ~HasWork(t)

Wait(t) ==
    /\ t # Timer
    /\ pc[t] = "check"
    /\ Rest(t)
    /\ state = "started"
    /\ pc' = [pc EXCEPT ![t] = "waiting"]
    /\ UNCHANGED <<state, queues, job, now, alarm, program, discarded>>

Exit(t) ==
    /\ t # Timer
    /\ pc[t] = "check"
    /\ Rest(t)
    /\ state = "stopping"
    /\ pc' = [pc EXCEPT ![t] = "exited"]
    /\ UNCHANGED <<state, queues, job, now, alarm, program, discarded>>

(* A condition variable may wake a thread for no reason.                   *)
SpuriousWakeup(t) ==
    /\ t # Timer
    /\ pc[t] = "waiting"
    /\ pc' = [pc EXCEPT ![t] = "check"]
    /\ UNCHANGED <<state, queues, job, now, alarm, program, discarded>>

(* timer_loop.  A stopped pipeline still executes a kernel whose time had  *)
(* come when the thread woke up, but no other.                             *)
TakeScheduled ==
    /\ \/ pc[Timer] = "check" /\ state = "started"
       \/ pc[Timer] = "woken"
    /\ \E k \in Due :
          /\ timer' = timer \ {k}
          /\ job' = [job EXCEPT ![Timer] = k]
    /\ pc' = [pc EXCEPT ![Timer] = "act"]
    /\ UNCHANGED <<state, upstream, downstream, failed, now, alarm, program, discarded>>

Sleep ==
    /\ pc[Timer] \in {"check", "woken"}
    /\ state = "started"
    /\ Due = {}
    /\ pc' = [pc EXCEPT ![Timer] = "waiting"]
    /\ alarm' = Min({Never} \cup {At[k] : k \in timer})
    /\ UNCHANGED <<state, queues, job, now, program, discarded>>

Alarm ==
    /\ pc[Timer] = "waiting"
    /\ alarm <= now
    /\ pc' = [pc EXCEPT ![Timer] = "woken"]
    /\ UNCHANGED <<state, queues, job, now, alarm, program, discarded>>

ExitTimer ==
    /\ \/ pc[Timer] = "check"
       \/ pc[Timer] = "woken" /\ Due = {}
    /\ state = "stopping"
    /\ pc' = [pc EXCEPT ![Timer] = "exited"]
    /\ UNCHANGED <<state, queues, job, now, alarm, program, discarded>>

Tick ==
    /\ now < Never - 1
    /\ now' = now + 1
    /\ UNCHANGED <<state, queues, threads, program, discarded>>

-----------------------------------------------------------------------------
(***************************************************************************)
(* What the kernels do.                                                    *)
(***************************************************************************)

(* A thread of the pool looks at the queues again, a new_thread one ends.  *)
Released(t) == [pc EXCEPT ![t] = IF t \in PoolThreads THEN "check" ELSE "exited"]
Free(t) == job' = [job EXCEPT ![t] = NoKernel]

(* act() of a kernel with children returns when it has sent them.          *)
FinishAct(t) ==
    /\ pc[t] = "act"
    /\ Children(job[t]) # {}
    /\ unsent[job[t]] = {}
    /\ pc' = Released(t)
    /\ Free(t)
    /\ UNCHANGED <<state, queues, now, alarm, program, discarded>>

(* act() of a kernel without children commits: it returns to its parent.   *)
CommitAct(t) ==
    /\ pc[t] = "act"
    /\ Children(job[t]) = {}
    /\ SendDownstream(job[t], Released(t))
    /\ Free(t)
    /\ UNCHANGED <<state, upstream, timer, failed, now, alarm, program, discarded>>

ThrowAct_AlsoReturned(t) ==
    /\ pc[t] = "act"
    /\ job[t] \in MayThrow
    /\ failed' = failed \cup {job[t]}
    /\ SendDownstream(job[t], Released(t))
    /\ Free(t)
    /\ UNCHANGED <<state, upstream, timer, now, alarm, program, discarded>>

(* ... or throws: process_kernel and kernel_loop roll the kernel back and  *)
(* send it to the error pipeline,                                          *)
ThrowAct(t) ==
    /\ pc[t] = "act"
    /\ job[t] \in MayThrow
    /\ failed' = failed \cup {job[t]}
    /\ pc' = Released(t)
    /\ Free(t)
    /\ UNCHANGED <<state, upstream, downstream, timer, now, alarm, program, discarded>>

(* which is the socket pipeline (factory.cc); it sends the kernel back.    *)
ReturnFailed(k) ==
    /\ state \in {"started", "stopping"}
    /\ k \in failed
    /\ failed' = failed \ {k}
    /\ SendDownstream(k, pc)
    /\ UNCHANGED <<state, upstream, timer, job, now, alarm, program, discarded>>

(* react() of the parent, which commits after its last child; a main       *)
(* kernel has no parent and ends the program (sbn::exit).                  *)
React(t) ==
    LET k == job[t]
        p == ParentOf[k]
        all == collected[p] \cup {k} = Children(p)
    IN  /\ pc[t] = "react"
        /\ collected' = [collected EXCEPT ![p] = @ \cup {k}]
        /\ Free(t)
        /\ IF p # NoKernel /\ all
           THEN SendDownstream(p, Released(t))
           ELSE pc' = Released(t) /\ UNCHANGED downstream
        /\ UNCHANGED <<state, upstream, timer, failed, now, alarm, unsent, identified, discarded>>

-----------------------------------------------------------------------------
(***************************************************************************)
(* The end of the pipeline.                                                *)
(***************************************************************************)
StopWakes_OnlyUpstream == pc' = NotifyAll(UpThreads, pc)

StopWakes == pc' = NotifyAll(PoolThreads, pc)

Stop ==
    /\ state = "started"
    /\ state' = "stopping"
    /\ StopWakes
    /\ UNCHANGED <<queues, job, now, alarm, program, discarded>>

(* wait(): the threads have been joined.                                   *)
Join ==
    /\ state = "stopping"
    /\ \A t \in Threads : pc[t] \in {"exited", "none"}
    /\ state' = "stopped"
    /\ UNCHANGED <<queues, threads, now, program, discarded>>

(* mark_as_deleted: a deleted kernel takes its parents with it.            *)
Marked_Childless(S) == S

Marked_NullParent(S) == S \cup {ParentOf[k] : k \in S}

Marked(S) ==
    {p \in Kernels : \A T \in SUBSET Kernels :
        S \subseteq T /\ (\A k \in T : ParentOf[k] \in T \cup {NoKernel}) => p \in T}

Queued == Range(upstream) \cup (UNION {Range(downstream[s]) : s \in Slots}) \cup timer

(* clear() of this and of the error pipeline.                              *)
Clear ==
    /\ state = "stopped"
    /\ state' = "cleared"
    /\ discarded' = discarded \cup Marked(Queued \cup failed)
    /\ upstream' = <<>>
    /\ downstream' = [s \in Slots |-> <<>>]
    /\ timer' = {}
    /\ failed' = {}
    /\ UNCHANGED <<threads, now, program>>

Work(t) ==
    \/ TakeReturn(t) \/ TakeWork(t) \/ Wait(t) \/ Exit(t)
    \/ SendChild(t) \/ SendChildren(t) \/ FinishAct(t) \/ CommitAct(t) \/ ThrowAct(t)
    \/ React(t)

TimerWork == TakeScheduled \/ Sleep \/ Alarm \/ ExitTimer

Step ==
    \/ \E k \in Roots : SendRoot(k)
    \/ \E t \in Threads : Work(t)
    \/ TimerWork
    \/ \E t \in UpThreads \cup downThreads : SpuriousWakeup(t)
    \/ \E k \in Kernels : GetId(k)
    \/ \E k \in Kernels : ReturnFailed(k)
    \/ Tick
    \/ Stop
    \/ Join
    \/ Clear

Next == Step /\ UNCHANGED downThreads

(* Threads run, act() and react() return, time passes.                     *)
Fairness ==
    /\ \A t \in Threads : WF_moving(Work(t))
    /\ WF_moving(TimerWork)
    /\ \A k \in Kernels : WF_moving(ReturnFailed(k))
    /\ WF_moving(Tick)
    /\ WF_moving(Join)
    /\ WF_moving(Clear)

Spec == Init /\ [][Next]_vars
FairSpec == Spec /\ Fairness

-----------------------------------------------------------------------------
(***************************************************************************)
(* Properties.                                                             *)
(***************************************************************************)
Sent == Kernels \ UNION {unsent[p] : p \in Kernels \cup {NoKernel}}

(* No wake-up is lost.  If a thread waits although there are upstream      *)
(* kernels in the queue, then a thread that was woken up is on its way to   *)
(* each of them: notify_one is enough for the shared queue, although the    *)
(* condition variable is also used for the downstream queues and a thread   *)
(* may be woken for one of those.  And no thread sleeps over a kernel that  *)
(* only it can execute: a downstream kernel in its slot, a scheduled kernel *)
(* earlier than its alarm.                                                  *)
NoLostWakeup ==
    /\ Waiting(UpThreads, pc) # {} =>
         Cardinality({t \in UpThreads : pc[t] = "check"}) >= Len(upstream)
    /\ \A t \in UpThreads \cup downThreads : pc[t] = "waiting" => ~HasReturns(t)
    /\ pc[Timer] = "waiting" => \A k \in timer : alarm <= At[k]

(* Two threads never execute the react() of one parent at the same time,   *)
(* unless the parent gets an id, and with it another slot, on the way.     *)
ReactsSerial ==
    \A t, u \in Threads :
        /\ t # u /\ pc[t] = "react" /\ pc[u] = "react"
        /\ ParentOf[job[t]] \notin Remote \cup {NoKernel}
        => ParentOf[job[t]] # ParentOf[job[u]]

(* A kernel is in one place at a time: a queue, the error pipeline, a      *)
(* thread, its parent's hands or the sack of clear().  Only act() of a     *)
(* parent may still be returning while the parent, whose children are all  *)
(* back, has been passed on by another thread.                             *)
ReturningAct(t) == pc[t] = "act" /\ Children(job[t]) # {}

Holders ==
    [timer |-> timer, failed |-> failed, discarded |-> discarded,
     unsent |-> UNION Range(unsent), collected |-> UNION Range(collected)]

Places(k) ==
    {<<"upstream", i>> : i \in {j \in DOMAIN upstream : upstream[j] = k}}
    \cup (UNION {{<<s, i>> : i \in {j \in DOMAIN downstream[s] : downstream[s][j] = k}}
                    : s \in Slots})
    \cup {<<"thread", t>> : t \in {u \in Threads : job[u] = k /\ ~ReturningAct(u)}}
    \cup {<<h>> : h \in {x \in DOMAIN Holders : k \in Holders[x]}}

OnePlace == \A k \in Kernels : Cardinality(Places(k)) <= 1

(* clear() leaves nothing behind: a kernel that was sent either came back  *)
(* or is deleted, once, although clear() sees only the queues and finds    *)
(* the parents through their children (socket_pipeline_test.cc, "some      *)
(* kernels were not deleted or were deleted multiple times").              *)
NoLeak ==
    state = "cleared" =>
        \A k \in Sent : k \in discarded <=> k \notin collected[ParentOf[k]]

(* The pipeline's share of the promise in KernelService: an executed child *)
(* is passed to react() after it was sent, and only clear() deletes        *)
(* children that never come back.                                          *)
StatusOf(k) ==
    CASE k \in collected[ParentOf[k]] \cap discarded -> "both"
      [] k \in collected[ParentOf[k]] \ discarded -> "returned"
      [] k \in discarded \ collected[ParentOf[k]] -> "discarded"
      [] k \in unsent[ParentOf[k]] -> "fresh"
      [] OTHER -> "pending"

Service == INSTANCE KernelService
               WITH status <- [k \in Kernels |-> StatusOf(k)],
                    closing <- (state # "started")

ImplementsService == Service!Spec

(* Every kernel that is sent is executed and comes back to its parent, also *)
(* one that throws, unless the pipeline is stopped meanwhile.              *)
EveryKernelReturns ==
    \A k \in Kernels :
        k \notin unsent[ParentOf[k]] ~> (k \in collected[ParentOf[k]] \/ state # "started")

(* stop() is always followed by the end of all threads: no thread misses   *)
(* it while it is executing a kernel or about to wait.                     *)
StopTerminates == state = "stopping" ~> state = "cleared"
=============================================================================
