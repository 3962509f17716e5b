---------------------------- MODULE ProcessPipeline ----------------------------
(***************************************************************************)
(* How the daemon runs applications (daemon/process_pipeline and           *)
(* core/process_handler).                                                  *)
(*                                                                         *)
(* Every application has a child process and two pipes to it.  A kernel of *)
(* the application is written to the pipe at once if there is room for its *)
(* weight, and waits in _outstanding_kernels otherwise.  The handler saves *)
(* the kernels that go upstream and adds their weights to its load, until  *)
(* the process returns them.  A kernel in the process may create requests: *)
(* the handler reads them and forwards them to the socket pipeline, which  *)
(* sends them to another node or back to this pipeline; the result of a    *)
(* request enters through forward(), by the same rules as a new kernel.    *)
(*                                                                         *)
(* Two threads share one mutex: the pipeline thread, which makes turns     *)
(* over the outstanding kernels and the events of the pipes, and the       *)
(* waiting thread, which learns that a process has exited.  A step that    *)
(* holds the mutex is one action.  The kernels are foreign to the daemon;  *)
(* its own (native) kernels and broadcasts are not in this module.         *)
(***************************************************************************)
EXTENDS Naturals, Sequences, FiniteSets, FiniteSetsExt, SequencesExt

CONSTANTS
    Setups,               \* what the daemon is configured for and given to do
    Apps,                 \* applications
    Tasks,                \* kernels that come from other pipelines
    Requests,             \* kernels that the tasks create
    AppOf,                \* the application of each task
    TaskOf,               \* the task that creates each request
    Weight,               \* kernel::weight()
    MaxThreads,           \* _max_threads
    NoProcess,
    MaxProcesses          \* bound: processes that are started

Kernels == Tasks \cup Requests
Processes == 1..MaxProcesses

(* A setup: the kernels that arrive, the main kernels (type_id 1) among    *)
(* them, the applications that do_add refuses to execute (superuser),      *)
(* _interleave, and how many processes crash or are removed.               *)
Setup == [tasks : SUBSET Tasks, main : SUBSET Tasks, refused : SUBSET Apps,
          interleaving : BOOLEAN, deaths : Nat]

ASSUME ProcessAssumption ==
    /\ Setups \subseteq Setup
    /\ \A s \in Setups :
          Cardinality(Apps) + Cardinality(s.main) + s.deaths <= MaxProcesses
    /\ Tasks \cap Requests = {}
    /\ AppOf \in [Tasks -> Apps]
    /\ TaskOf \in [Requests -> Tasks]
    /\ Weight \in [Kernels -> Nat]
    /\ MaxThreads \in Nat \ {0} /\ MaxProcesses \in Nat
    /\ NoProcess \notin Processes

AppOfKernel(k) == IF k \in Tasks THEN AppOf[k] ELSE AppOf[TaskOf[k]]
RequestsOf(t) == {r \in Requests : TaskOf[r] = t}

(* A kernel on its way: the same kernel goes up and comes back down.       *)
Up(k) == [kernel |-> k, phase |-> "upstream"]
Down(k) == [kernel |-> k, phase |-> "downstream"]
Message == [kernel : Kernels, phase : {"upstream", "downstream"}]

VARIABLES
    setup,
    state,                \* state of the pipeline
    job,                  \* _jobs: the process of each application
    outstanding,          \* _outstanding_kernels
    started,              \* how many processes were started
    saved,                \* _upstream of each handler
    load,                 \* _load of each handler
    open,                 \* the handler has its pipes in _connections
    process,              \* state of each process
    inbox,                \* kernels in the pipe to the process
    inside,               \* kernels the process is executing
    outbox,               \* kernels the process has written, to the pipe from it
    unborn,               \* requests not created yet
    answered,             \* requests whose result the process has read
    elsewhere,            \* kernels with the other pipelines
    done,                 \* tasks that went back to whoever sent them
    deaths

handlers == <<saved, load, open>>
pipes == <<inbox, inside, outbox>>
program == <<unborn, answered>>
vars == <<state, job, outstanding, started, handlers, process, pipes,
          program, elsewhere, done, deaths>>

TypeOK ==
    /\ setup \in Setups
    /\ state \in {"started", "stopping", "draining", "stopped", "cleared", "terminated"}
    /\ job \in [Apps -> Processes \cup {NoProcess}]
    /\ outstanding \in Seq(Message)
    /\ started \in 0..Cardinality(Processes)
    /\ saved \in [Processes -> SUBSET Kernels]
    /\ load \in [Processes -> Nat]
    /\ open \in [Processes -> BOOLEAN]
    /\ process \in [Processes -> {"none", "running", "killed", "exited", "reaped"}]
    /\ inbox \in [Processes -> SUBSET Message]
    /\ inside \in [Processes -> SUBSET Kernels]
    /\ outbox \in [Processes -> SUBSET Message]
    /\ unborn \subseteq Requests /\ answered \subseteq Requests
    /\ elsewhere \subseteq Message
    /\ done \subseteq Tasks
    /\ deaths \in 0..setup.deaths

Init ==
    /\ setup \in Setups
    /\ state = "started"
    /\ job = [a \in Apps |-> NoProcess]
    /\ outstanding = <<>>
    /\ started = 0
    /\ saved = [c \in Processes |-> {}]
    /\ load = [c \in Processes |-> 0]
    /\ open = [c \in Processes |-> FALSE]
    /\ process = [c \in Processes |-> "none"]
    /\ inbox = [c \in Processes |-> {}]
    /\ inside = [c \in Processes |-> {}]
    /\ outbox = [c \in Processes |-> {}]
    /\ unborn = Requests
    /\ answered = {}
    /\ elsewhere = {Up(t) : t \in setup.tasks}
    /\ done = {}
    /\ deaths = 0

-----------------------------------------------------------------------------
(***************************************************************************)
(* Admission.  A turn handles several kernels under the lock, so the state *)
(* it works on is a record of the variables it changes.                    *)
(***************************************************************************)
Now == [job |-> job, started |-> started, saved |-> saved, load |-> load,
        open |-> open, process |-> process, inbox |-> inbox,
        waiting |-> outstanding, threads |-> 0, refused |-> FALSE]

Jobs(s) == {s.job[a] : a \in Apps} \ {NoProcess}
TotalLoad(s) == FoldSet(LAMBDA c, sum : sum + s.load[c], 0, Jobs(s))

Admitted(s, threads, m) ==
    \/ ~setup.interleaving /\ Cardinality(Jobs(s)) = 1
    \/ threads + Weight[m.kernel] < MaxThreads

(* do_add: a new process and its handler.                                  *)
Started(s, a) ==
    LET c == s.started + 1
    IN  [s EXCEPT !.job[a] = c, !.started = c, !.open[c] = TRUE, !.process[c] = "running"]

(* connection::do_forward to the process c.                                *)
Written_LoadOfEveryKernel(s, c, m) ==
    [s EXCEPT !.inbox[c] = @ \cup {m},
              !.load[c] = @ + Weight[m.kernel],
              !.saved[c] = IF m.phase = "upstream" THEN @ \cup {m.kernel} ELSE @]

Written(s, c, m) ==
    [s EXCEPT !.inbox[c] = @ \cup {m},
              !.load[c] = IF m.phase = "upstream" THEN @ + Weight[m.kernel] ELSE @,
              !.saved[c] = IF m.phase = "upstream" THEN @ \cup {m.kernel} ELSE @]

(* do_forward; it throws if the application may not be executed, or no     *)
(* process can be forked (which ProcessAssumption rules out).              *)
Forwarded(s, m) ==
    LET a == AppOfKernel(m.kernel)
    IN  IF s.job[a] # NoProcess THEN Written(s, s.job[a], m)
        ELSE IF a \in setup.refused \/ s.started = MaxProcesses THEN [s EXCEPT !.refused = TRUE]
        ELSE LET n == Started(s, a) IN Written(n, n.job[a], m)

Assign(s) ==
    /\ job' = s.job
    /\ started' = s.started
    /\ saved' = s.saved
    /\ load' = s.load
    /\ open' = s.open
    /\ process' = s.process
    /\ inbox' = s.inbox
    /\ outstanding' = s.waiting

(* forward(), called by the threads of the other pipelines.  A kernel that *)
(* comes too late or belongs to a refused application is destroyed.        *)
Forward(m) ==
    /\ state \notin {"cleared", "terminated"}
    /\ m \in elsewhere
    /\ elsewhere' = elsewhere \ {m}
    /\ IF state # "started" THEN Assign(Now)
       ELSE IF Admitted(Now, TotalLoad(Now), m) THEN Assign(Forwarded(Now, m))
       ELSE Assign([Now EXCEPT !.waiting = Append(@, m)])
    /\ UNCHANGED <<state, inside, outbox, program, done, deaths>>

(* do_process_kernels for one outstanding kernel: the total load was read  *)
(* when the turn began and grows with every kernel of the turn.            *)
Turn_StaleLoad(s, m) ==
    IF s.refused THEN s
    ELSE IF Admitted(s, s.threads, m)
         THEN Forwarded(s, m)
         ELSE [s EXCEPT !.waiting = Append(@, m)]

Turn(s, m) ==
    IF s.refused THEN s
    ELSE IF Admitted(s, s.threads, m)
         THEN [Forwarded(s, m) EXCEPT !.threads = @ + Weight[m.kernel]]
         ELSE [s EXCEPT !.waiting = Append(@, m)]

Turned ==
    FoldLeft(Turn, [Now EXCEPT !.waiting = <<>>, !.threads = TotalLoad(Now)], outstanding)

(* process_kernels in the pipeline thread.  Nobody catches what do_add     *)
(* throws here: std::terminate ends the daemon.                            *)
ProcessKernels ==
    /\ state \in {"started", "stopping"}
    /\ outstanding # <<>>
    /\ IF Turned.refused
       THEN state' = "terminated" /\ Assign(Now)
       ELSE UNCHANGED state /\ Assign(Turned)
    /\ UNCHANGED <<inside, outbox, program, elsewhere, done, deaths>>

-----------------------------------------------------------------------------
(***************************************************************************)
(* The application.                                                        *)
(***************************************************************************)
Alive(c) == process[c] \in {"running", "killed"} /\ state # "terminated"

(* The process reads a kernel: a task or request to execute, or a result.  *)
Read(c, m) ==
    /\ Alive(c)
    /\ m \in inbox[c]
    /\ inbox' = [inbox EXCEPT ![c] = @ \ {m}]
    /\ IF m.phase = "upstream"
       THEN /\ inside' = [inside EXCEPT ![c] = @ \cup {m.kernel}]
            /\ UNCHANGED answered
       ELSE /\ answered' = answered \cup {m.kernel}
            /\ UNCHANGED inside
    /\ UNCHANGED <<state, job, outstanding, started, handlers, process, outbox,
                   unborn, elsewhere, done, deaths>>

Create(c, r) ==
    /\ Alive(c)
    /\ r \in unborn
    /\ TaskOf[r] \in inside[c]
    /\ unborn' = unborn \ {r}
    /\ outbox' = [outbox EXCEPT ![c] = @ \cup {Up(r)}]
    /\ UNCHANGED <<state, job, outstanding, started, handlers, process, inbox, inside,
                   answered, elsewhere, done, deaths>>

(* A kernel returns when its requests have returned.                       *)
Finish(c, k) ==
    /\ Alive(c)
    /\ k \in inside[c]
    /\ RequestsOf(k) \subseteq answered
    /\ inside' = [inside EXCEPT ![c] = @ \ {k}]
    /\ outbox' = [outbox EXCEPT ![c] = @ \cup {Down(k)}]
    /\ UNCHANGED <<state, job, outstanding, started, handlers, process, inbox,
                   program, elsewhere, done, deaths>>

(* Another node executes a request and sends the result to this node.      *)
ExecuteElsewhere(r) ==
    /\ r \in Requests
    /\ Up(r) \in elsewhere
    /\ elsewhere' = (elsewhere \ {Up(r)}) \cup {Down(r)}
    /\ UNCHANGED <<state, job, outstanding, started, handlers, process, pipes,
                   program, done, deaths>>

-----------------------------------------------------------------------------
(***************************************************************************)
(* The events of the pipes.                                                *)
(***************************************************************************)
LoadAfterReturn_Never(c, k) == load[c]

LoadAfterReturn(c, k) == IF load[c] > Weight[k] THEN load[c] - Weight[k] ELSE 0

(* A task goes back to where it came from.  The main kernel goes to the    *)
(* unix pipeline: its copy stays, and the process is told to terminate.    *)
ReceiveTask_AnyKernel(c, t) ==
    /\ Down(t) \in outbox[c]
    /\ outbox' = [outbox EXCEPT ![c] = @ \ {Down(t)}]
    /\ load' = [load EXCEPT ![c] = LoadAfterReturn(c, t)]
    /\ done' = done \cup {t}
    /\ saved' = [saved EXCEPT ![c] = @ \ {t}]
    /\ UNCHANGED <<inbox, elsewhere, process>>

ReceiveTask(c, t) ==
    /\ t \in Tasks /\ Down(t) \in outbox[c]
    /\ outbox' = [outbox EXCEPT ![c] = @ \ {Down(t)}]
    /\ load' = [load EXCEPT ![c] = LoadAfterReturn(c, t)]
    /\ done' = done \cup {t}
    /\ IF t \in setup.main
       THEN /\ process' = [process EXCEPT ![c] = IF @ = "running" THEN "killed" ELSE @]
            /\ UNCHANGED saved
       ELSE /\ saved' = [saved EXCEPT ![c] = @ \ {t}]
            /\ UNCHANGED process
    /\ UNCHANGED <<inbox, elsewhere>>

(* A request that this node executed itself has no destination: its result *)
(* is written back to the process it came from, without admission.         *)
ReceiveResult(c, r) ==
    /\ r \in Requests /\ Down(r) \in outbox[c]
    /\ outbox' = [outbox EXCEPT ![c] = @ \ {Down(r)}]
    /\ load' = [load EXCEPT ![c] = LoadAfterReturn(c, r)]
    /\ saved' = [saved EXCEPT ![c] = @ \ {r}]
    /\ inbox' = [inbox EXCEPT ![c] = @ \cup {Down(r)}]
    /\ UNCHANGED <<process, elsewhere, done>>

(* forward_foreign to the socket pipeline.                                 *)
ReceiveRequest(c, r) ==
    /\ r \in Requests /\ Up(r) \in outbox[c]
    /\ outbox' = [outbox EXCEPT ![c] = @ \ {Up(r)}]
    /\ elsewhere' = elsewhere \cup {Up(r)}
    /\ UNCHANGED <<saved, load, inbox, process, done>>

Receive(c, k) ==
    /\ state \in {"started", "stopping"}
    /\ open[c]
    /\ ReceiveTask(c, k) \/ ReceiveResult(c, k) \/ ReceiveRequest(c, k)
    /\ UNCHANGED <<state, job, outstanding, started, open, inside, program, deaths>>

(* The pipes hang up: remove().  The handler lives on while it is a job;   *)
(* what the process had in its own output buffer is lost.                  *)
HangUp(c) ==
    /\ state \in {"started", "stopping"}
    /\ open[c]
    /\ process[c] \in {"exited", "reaped"}
    /\ open' = [open EXCEPT ![c] = FALSE]
    /\ outbox' = [outbox EXCEPT ![c] = {}]
    /\ UNCHANGED <<state, job, outstanding, started, saved, load, process, inbox, inside,
                   program, elsewhere, done, deaths>>

-----------------------------------------------------------------------------
(***************************************************************************)
(* The end of a process.                                                   *)
(***************************************************************************)
Die(c) ==
    /\ process' = [process EXCEPT ![c] = "exited"]
    /\ inbox' = [inbox EXCEPT ![c] = {}]
    /\ inside' = [inside EXCEPT ![c] = {}]

Exit(c) ==
    /\ process[c] = "killed"
    /\ Die(c)
    /\ UNCHANGED <<state, job, outstanding, started, handlers, outbox,
                   program, elsewhere, done, deaths>>

Crash(c) ==
    /\ deaths < setup.deaths
    /\ state = "started"
    /\ process[c] = "running"
    /\ deaths' = deaths + 1
    /\ Die(c)
    /\ UNCHANGED <<state, job, outstanding, started, handlers, outbox,
                   program, elsewhere, done>>

(* The handler's job is given up, and its kernels are deleted: what a      *)
(* process leaves behind is never recovered, because the destructor of the *)
(* handler comes later and finds nothing.                                  *)
Dropped_KeepsJob(c) ==
    /\ UNCHANGED job
    /\ saved' = [saved EXCEPT ![c] = {}]

Dropped(c) ==
    /\ job' = [a \in Apps |-> IF job[a] = c THEN NoProcess ELSE job[a]]
    /\ saved' = [saved EXCEPT ![c] = {}]

(* wait_for_processes.                                                     *)
Reap(c) ==
    /\ state \in {"started", "stopping", "draining"}
    /\ process[c] = "exited"
    /\ process' = [process EXCEPT ![c] = "reaped"]
    /\ IF c \in Jobs(Now) THEN Dropped(c) ELSE UNCHANGED <<job, saved>>
    /\ UNCHANGED <<state, outstanding, started, load, open, pipes,
                   program, elsewhere, done, deaths>>

(* remove(): the job is terminated by its user (Job_status_kernel,         *)
(* Terminate_kernel).  A later kernel of the application starts a second   *)
(* process while the first may still be running.                           *)
RemoveJob(c) ==
    /\ deaths < setup.deaths
    /\ state = "started"
    /\ c \in Jobs(Now)
    /\ deaths' = deaths + 1
    /\ process' = [process EXCEPT ![c] = IF @ = "running" THEN "killed" ELSE @]
    /\ Dropped(c)
    /\ UNCHANGED <<state, outstanding, started, load, open, pipes,
                   program, elsewhere, done>>

-----------------------------------------------------------------------------
(***************************************************************************)
(* The end of the pipeline.                                                *)
(***************************************************************************)
Stop ==
    /\ state = "started"
    /\ state' = "stopping"
    /\ UNCHANGED <<job, outstanding, started, handlers, process, pipes,
                   program, elsewhere, done, deaths>>

(* The thread leaves the loop and terminates the processes.                *)
LoopExit ==
    /\ state = "stopping"
    /\ state' = "draining"
    /\ process' = [c \in Processes |->
                      IF process[c] = "running" THEN "killed" ELSE process[c]]
    /\ UNCHANGED <<job, outstanding, started, handlers, pipes,
                   program, elsewhere, done, deaths>>

(* The waiting thread is joined and every process has been waited for.     *)
Join ==
    /\ state = "draining"
    /\ \A c \in Processes : process[c] \in {"none", "reaped"}
    /\ state' = "stopped"
    /\ UNCHANGED <<job, outstanding, started, handlers, process, pipes,
                   program, elsewhere, done, deaths>>

Clear ==
    /\ state = "stopped"
    /\ state' = "cleared"
    /\ outstanding' = <<>>
    /\ saved' = [c \in Processes |-> {}]
    /\ UNCHANGED <<job, started, load, open, process, pipes,
                   program, elsewhere, done, deaths>>

Next ==
    \/ \E m \in elsewhere : Forward(m)
    \/ ProcessKernels
    \/ \E c \in Processes : \E m \in inbox[c] : Read(c, m)
    \/ \E c \in Processes, r \in Requests : Create(c, r)
    \/ \E c \in Processes : \E k \in inside[c] : Finish(c, k)
    \/ \E r \in Requests : ExecuteElsewhere(r)
    \/ \E c \in Processes, k \in Kernels : Receive(c, k)
    \/ \E c \in Processes : HangUp(c)
    \/ \E c \in Processes : Exit(c)
    \/ \E c \in Processes : Crash(c)
    \/ \E c \in Processes : Reap(c)
    \/ \E c \in Processes : RemoveJob(c)
    \/ Stop
    \/ LoopExit
    \/ Join
    \/ Clear

(* The pipeline thread makes a turn at the latest when its poller times    *)
(* out, the waiting thread waits for children, signals are delivered, and  *)
(* the application and the other nodes go on.  Nothing forces a task to    *)
(* arrive, or anything to end.                                             *)
Fairness ==
    /\ WF_vars(ProcessKernels)
    /\ WF_vars(\E c \in Processes : HangUp(c) \/ \E k \in Kernels : Receive(c, k))
    /\ WF_vars(\E r \in Requests : ExecuteElsewhere(r) \/ Forward(Up(r)) \/ Forward(Down(r)))
    /\ WF_vars(\E c \in Processes : Exit(c) \/ Reap(c))
    /\ \A c \in Processes :
          WF_vars(\/ \E m \in inbox[c] : Read(c, m)
                  \/ \E r \in Requests : Create(c, r)
                  \/ \E k \in inside[c] : Finish(c, k))

Spec == Init /\ [][Next /\ UNCHANGED setup]_<<setup, vars>>
FairSpec == Spec /\ Fairness

-----------------------------------------------------------------------------
(***************************************************************************)
(* Properties.                                                             *)
(***************************************************************************)

(* The kernels that go up or execute in the process, or come back from it. *)
Held(c) ==
    {k \in Kernels : \/ Up(k) \in inbox[c] /\ k \in saved[c]
                     \/ k \in inside[c]
                     \/ Down(k) \in outbox[c]}

(* The handler of a job knows what its process holds: the saved copies are *)
(* the kernels the process has taken and not returned (and a main kernel   *)
(* that was returned while the process is being terminated), and the load  *)
(* is their weight, over all the ways a kernel enters (forward, a turn,    *)
(* the same node executing a request) and leaves (to another node, to the  *)
(* unix pipeline, straight back).  Otherwise kernels are lost with the     *)
(* process, and admission counts threads that nobody uses.                 *)
HandlerExact ==
    state \notin {"terminated", "cleared"} =>
        \A c \in Jobs(Now) : Alive(c) =>
            /\ load[c] = FoldSet(LAMBDA k, sum : sum + Weight[k], 0, Held(c))
            /\ saved[c] = Held(c) \cup (saved[c] \cap setup.main \cap done)

(* Interleaving never takes more threads than there are, whichever of the  *)
(* two ways in a kernel takes and although a turn works with a load it has *)
(* read once.                                                              *)
NotOverloaded == setup.interleaving => TotalLoad(Now) < MaxThreads

(* An application has one job, a job is one application's, and the process *)
(* behind it is not a zombie that has been waited for.                     *)
JobsAreProcesses ==
    \A a \in Apps : job[a] # NoProcess =>
        /\ process[job[a]] \in {"running", "killed", "exited"}
        /\ \A b \in Apps : job[b] = job[a] => a = b

Outstanding == Range(outstanding)

(* A task never waits for ever behind applications that make progress: it  *)
(* leaves the queue, unless a result is waiting there too (see             *)
(* OutstandingLeaves) or the pipeline ends.                                *)
TaskAdmitted ==
    \A t \in Tasks :
        Up(t) \in Outstanding ~> \/ Up(t) \notin Outstanding
                                 \/ \E r \in Requests : Down(r) \in Outstanding
                                 \/ state # "started"

(* process_pipeline.hh: outstanding kernels can wait for the resources for *)
(* _kernel_timeout; when the time runs out, the kernel is sent back.       *)
OutstandingLeaves ==
    \A k \in Kernels : \A m \in {Up(k), Down(k)} :
        m \in Outstanding ~> (m \notin Outstanding \/ state # "started")

(* process_handler.hh: when a handler goes, it recovers the kernels it has *)
(* saved: those of a process that has exited are sent elsewhere.           *)
KernelsRecovered ==
    [][\A c \in Processes :
          process[c] = "exited" /\ process'[c] = "reaped" /\ state = "started" =>
              \A k \in saved[c] \ done : Up(k) \in elsewhere']_vars
=============================================================================
