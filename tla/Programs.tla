------------------------------ MODULE Programs ------------------------------
(***************************************************************************)
(* Programs written for the library, on nodes that may fail: which kernels *)
(* of the program exist, what each holds, and how act(), react(),          *)
(* upstream() and commit() of the library order them.                      *)
(*                                                                         *)
(* A kernel is named by its path (KernelProgram).  While act() runs the    *)
(* children that it has sent may return, and react() to them runs in       *)
(* another thread: a kernel is "acting" until act() has returned.  The     *)
(* reacts of one kernel run one at a time.                                 *)
(***************************************************************************)
EXTENDS PySpectrum, WaveSurface, SchemeSpectrum, HelloWorld, TestApplication,
        Client

CONSTANTS
    Setups,      \* a program each, with its input
    MaxLosses    \* how often a node fails

VARIABLES
    setup,       \* the program that runs
    kernel,      \* the kernels that exist
    written,     \* elements of the arrays that kernels of one process share
    losses,
    waiting,     \* the main thread is in wait_and_return()
    exited,      \* exit code of the program, or "running", or "missed"
    undefined    \* the program has done what C++ leaves undefined

vars == <<setup, kernel, written, losses, waiting, exited, undefined>>

Main(s) == <<Task(s.program, 0)>>
IsParent(k, c) == Len(c) = Len(k) + 1 /\ IsPrefix(k, c)
Descendants(k) == {c \in DOMAIN kernel : IsStrictPrefix(k, c)}
TaskOf(k) == Last(k)

\* kernels sent to the remote pipeline: another node may execute them
RemoteTypes == {"Directory", "Five_files", "Py_directory", "Py_five_files",
                "Wave_surface_generator", "Part_generator",
                "Map_child", "Spectra_child", "Child",
                "Subordinate", "Tag_subordinate"}

Acted(s, task) ==
    CASE task.type \in SpectrumTypes      -> SpectrumActed(s, task)
      [] task.type \in PySpectrumTypes    -> PyActed(s, task)
      [] task.type \in WaveTypes          -> WaveActed(s, task)
      [] task.type \in SchemeTypes        -> SchemeActed(s, task)
      [] task.type \in SchemeSpectraTypes -> SchemeSpectrumActed(s, task)
      [] task.type \in HelloTypes         -> HelloActed(s, task)
      [] task.type \in TestTypes          -> TestActed(s, task)
      [] task.type \in ClientTypes        -> ClientActed(s, task)

Reacted(s, task, d, child) ==
    CASE task.type \in SpectrumTypes      -> SpectrumReacted(s, task, d, child)
      [] task.type \in PySpectrumTypes    -> PyReacted(s, task, d, child)
      [] task.type \in WaveTypes          -> WaveReacted(s, task, d, child)
      [] task.type \in SchemeTypes        -> SchemeReacted(s, task, d, child)
      [] task.type \in SchemeSpectraTypes -> SchemeSpectrumReacted(s, task, d, child)
      [] task.type \in HelloTypes         -> HelloReacted(s, task, d, child)
      [] task.type \in TestTypes          -> TestReacted(s, task, d, child)
      [] task.type \in ClientTypes        -> ClientReacted(s, task, d, child)

\* the fields of a kernel that its parent sees
ReturnedToParent(task, d) == IF task.type \in SpectrumTypes THEN SpectrumReturned(task, d) ELSE d

\* act() of these uses the kernel after the last upstream()
UsedAfterLastUpstream == {"Map", "Five_files", "Wave_surface_generator", "Scheme_main",
                          "Spectra_main", "Hello_main", "Superior",
                          "Tag_superior"}

\* act() of these changes what react() changes, while children may return
SharedWithReact == {"Wave_surface_generator"}

\* the process of these has one thread for act() and react()
OneThread == PySpectrumTypes

-----------------------------------------------------------------------------
Sent == [stage |-> "sent", unsent |-> <<>>, data |-> <<>>, code |-> "undefined"]

Init ==
    /\ setup \in Setups
    /\ kernel = [k \in {Main(setup)} |-> Sent]
    /\ written = {}
    /\ losses = 0
    /\ waiting = FALSE
    /\ exited = "running"
    /\ undefined = FALSE

Running == exited = "running" /\ ~undefined

Returned(e) == [stage |-> "back", unsent |-> <<>>, data |-> e.data, code |-> e.code]

\* a thread takes a kernel and act() begins; a kernel that commits or throws
\* in act() goes back to its parent
Act(k) ==
    LET e == Acted(setup, TaskOf(k))
        acting == [stage |-> "acting", unsent |-> e.children, data |-> e.data,
                   code |-> "undefined"]
    IN  /\ Running
        /\ kernel[k].stage = "sent"
        /\ kernel' = [kernel EXCEPT ![k] = IF e.code = "undefined" THEN acting ELSE Returned(e)]
        /\ written' = written \cup e.writes
        /\ UNCHANGED <<setup, losses, waiting, exited, undefined>>

\* upstream() in act()
SendNext(k) ==
    /\ Running
    /\ kernel[k].stage = "acting"
    /\ kernel[k].unsent # <<>>
    /\ kernel' = (Append(k, Head(kernel[k].unsent)) :> Sent)
                 @@ [kernel EXCEPT ![k].unsent = Tail(@)]
    /\ UNCHANGED <<setup, written, losses, waiting, exited, undefined>>

\* act() returns
EndAct(k) ==
    /\ Running
    /\ kernel[k].stage = "acting"
    /\ kernel[k].unsent = <<>>
    /\ kernel' = [kernel EXCEPT ![k].stage = "acted"]
    /\ UNCHANGED <<setup, written, losses, waiting, exited, undefined>>

\* What leaves the program with no defined behaviour: an exception in react()
\* deletes the parent, commit() in react() deletes a kernel whose act() goes
\* on to use it, or both threads change the same members.
Undefined(k, e) ==
    \/ e.code = "error"
    \/ /\ kernel[k].stage = "acting"
       /\ \/ e.code = "success" /\ TaskOf(k).type \in UsedAfterLastUpstream
          \/ TaskOf(k).type \in SharedWithReact

\* react() of the parent k to the child c
React(k, c) ==
    LET e == Reacted(setup, TaskOf(k), kernel[k].data,
                    ReturnedToParent(TaskOf(c), kernel[c].data))
        children == {Append(k, e.children[i]) : i \in DOMAIN e.children}
        parent == IF e.code = "undefined" THEN [kernel[k] EXCEPT !.data = e.data]
                  ELSE Returned(e)
    IN  /\ Running
        /\ IsParent(k, c)
        /\ kernel[k].stage \in {"acting", "acted"}
        /\ kernel[k].stage = "acting" => TaskOf(k).type \notin OneThread
        /\ kernel[c].stage = "back"
        /\ undefined' = Undefined(k, e)
        /\ kernel' = [x \in (DOMAIN kernel \ {c}) \cup children |->
                        CASE x = k -> parent
                          [] x \in children -> Sent
                          [] OTHER -> kernel[x]]
        /\ written' = written \cup e.writes
        /\ UNCHANGED <<setup, losses, waiting, exited>>

\* wait_and_return() waits for a notification, not for a condition
Wait ==
    /\ Running
    /\ ~waiting
    /\ waiting' = TRUE
    /\ UNCHANGED <<setup, kernel, written, losses, exited, undefined>>

\* exit() notifies the main thread; without it nobody looks at the code again
ExitWith(code) == IF waiting THEN code ELSE "missed"

\* the main kernel has nobody to return to: the pipeline ends the program
Exit ==
    /\ Running
    /\ kernel[Main(setup)].stage = "back"
    /\ exited' = ExitWith(kernel[Main(setup)].code)
    /\ UNCHANGED <<setup, kernel, written, losses, waiting, undefined>>

\* The node that executes a kernel fails.  What the kernel has done there is
\* lost; the sender has kept the kernel and sends it again.
Lose(k) ==
    /\ Running
    /\ losses < MaxLosses
    /\ TaskOf(k).type \in RemoteTypes
    /\ kernel[k].stage \in {"acting", "acted"}
    /\ losses' = losses + 1
    /\ kernel' = [x \in DOMAIN kernel \ Descendants(k) |-> IF x = k THEN Sent ELSE kernel[x]]
    /\ UNCHANGED <<setup, written, waiting, exited, undefined>>

Kernels == DOMAIN kernel

Next ==
    \/ \E k \in Kernels : Act(k) \/ SendNext(k) \/ EndAct(k) \/ Lose(k)
    \/ \E k, c \in Kernels : React(k, c)
    \/ Wait \/ Exit

Execute == \E k \in Kernels : Act(k) \/ SendNext(k) \/ EndAct(k)
                                 \/ \E c \in Kernels : React(k, c)

\* a thread has a kernel to act or react
Executable ==
    /\ Running
    /\ \/ \E k \in Kernels : kernel[k].stage \in {"sent", "acting"}
       \/ \E k, c \in Kernels : /\ IsParent(k, c)
                                /\ kernel[k].stage = "acted"
                                /\ kernel[c].stage = "back"

\* Threads do not stop while there is a kernel to execute.  The first formula
\* is weak fairness of Execute, which is enabled when Executable holds.
Fairness ==
    /\ []<>(~Executable) \/ []<><<Execute>>_vars
    /\ WF_vars(Exit)

Spec == Init /\ [][Next]_vars /\ Fairness

-----------------------------------------------------------------------------
\* the kernel of a program that has the result
Exact(s, task, d) ==
    CASE task.type \in {"Directory", "Py_directory"} -> SpectrumExact(s, d)
      [] task.type = "Wave_surface_generator"        -> WaveExact(s, d)
      [] task.type = "Scheme_main"                   -> SchemeExact(s, d)
      [] task.type = "Spectra_main"                  -> SchemeSpectrumExact(s, d)
      [] task.type = "Hello_main"                    -> HelloExact(s, d)
      [] task.type \in {"Superior", "Tag_superior"}  -> TestExact(s, d)
      [] task.type \in ClientTypes                   -> ClientExact(s, task, d)
      [] OTHER                                       -> TRUE

\* A program has the result of the sequential computation, whatever the order
\* in which kernels return and whichever node fails: each child is counted
\* once, in the result of the attempt that returned.
ResultExact ==
    \A k \in DOMAIN kernel :
        kernel[k].stage = "back" /\ kernel[k].code = "success" =>
            Exact(setup, TaskOf(k), kernel[k].data)

\* The kernels of the wave model share arrays without locks: a kernel acts,
\* and solves the system, only when the kernels that fill what it reads are
\* all done.
InputsComplete ==
    setup.program = "Autoreg_model" =>
        \A k \in DOMAIN kernel :
            /\ kernel[k].stage # "sent" => ReadByAct(setup, TaskOf(k).type) \subseteq written
            /\ kernel[k].stage = "back" => ReadByReact(setup, TaskOf(k).type) \subseteq written

\* inputs for which each kernel that counts its children has one to wait for
HasWork(s) ==
    CASE s.program = "Spectrum_main" -> CompleteUnits(s) # {}
      [] s.program = "Py_main"       ->
            \A u \in CompleteUnits(s) : FilesOf(s, u) \subseteq DOMAIN s.records
      [] s.program = "Autoreg_model" -> Coefs(s) > 1
      [] s.program = "Scheme_main"   ->
            \A i \in DOMAIN s.maps : Shortest(s.maps[i].lists) >= s.maps[i].block_size
      [] s.program = "Spectra_main"  -> UnitsWithAllFiles(s) # {}
      [] s.program = "Hello_main"    -> NumChildren(s) >= 0
      [] s.program \in {"Superior", "Tag_superior"} -> s.nkernels > 0
      [] s.program = "Sbnc"          -> ClientHasWork(s)

\* A program whose main thread waits in time ends, although nodes fail (a
\* bounded number of times).
ProgramEnds == HasWork(setup) /\ waiting ~> exited \notin {"running", "missed"} \/ undefined

=============================================================================
