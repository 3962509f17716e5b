----------------------------- MODULE PySpectrum -----------------------------
(***************************************************************************)
(* The wave spectra program in Python (examples/python/spec.py) and the    *)
(* interpreter it runs in (python/kernel.cc, python/init.cc).  The kernels *)
(* are those of Spectrum; what differs is noted here.  The local pipeline  *)
(* of the interpreter has one thread, so that no react() overlaps with an  *)
(* act() of the same process, and an exception ends a method of a kernel   *)
(* without a trace: nobody looks at what the interpreter returns.          *)
(***************************************************************************)
EXTENDS Spectrum

PySpectrumTypes == {"Py_main", "Py_directory", "Py_five_files", "Py_file", "Py_variance"}

\* `Cpp_kernel' calls a method of the Python object: a kernel whose method has
\* raised an exception is neither returned nor rolled back
Called(effect) == IF effect.code = "error" THEN Upstream(effect.data, <<>>) ELSE effect

-----------------------------------------------------------------------------
PyMainAct == Upstream(Map0, <<Task("Py_directory", 0)>>)

\* len(set(f.var for f in files)) is compared, not the variables themselves
PyComplete(s, u) ==
    /\ Cardinality(FilesOf(s, u)) = Cardinality(Variables)
    /\ Cardinality({f.variable : f \in FilesOf(s, u)}) = Cardinality(Variables)

PyDirectoryAct(s) ==
    LET files == {u \in {f.unit : f \in s.files} : PyComplete(s, u)}
        data == [num_kernels |-> Cardinality(files), count |-> 0, spectra |-> 0, sum |-> 0]
    IN  IF files = {} THEN Commit(data)
        ELSE Upstream(data, Children("Py_five_files", SetToSeq(files)))

PyDirectoryReact(d, unit) ==
    LET new == [d EXCEPT !.count = @ + 1,
                         !.spectra = @ + Cardinality(DOMAIN unit.out_matrix),
                         !.sum = @ + Total(unit.out_matrix)]
    IN  CommitWhen(new.count = new.num_kernels, new)

-----------------------------------------------------------------------------
PyFiveFilesAct(s, u) ==
    Upstream([state |-> "Reading", count |-> 0, frequencies |-> <<>>,
              spectra |-> Map0, out_matrix |-> Map0],
             Children("Py_file", SetToSeq(FilesOf(s, u))))

\* gzip.open() raises an exception when there is no such file
PyFileAct(s, f) ==
    IF f \in DOMAIN s.records
    THEN Commit([var |-> f.variable, data |-> s.records[f], frequencies |-> s.frequencies])
    ELSE Throw([var |-> f.variable, data |-> Map0, frequencies |-> 0])

\* _remove_incomplete_records(): the lists as long as the first one
PyCompleteDates(spectra) ==
    LET first == Least(Variables)
    IN  {t \in DOMAIN spectra : \A v \in Variables : spectra[t][v] = spectra[t][first]}

PyProcessSpectra(d) ==
    LET dates == PyCompleteDates(d.spectra)
        new == [d EXCEPT !.state = "Processing", !.spectra = [t \in dates |-> d.spectra[t]]]
        keys == SetToSeq({[date |-> t, data |-> new.spectra[t], frequencies |-> d.frequencies] :
                          t \in dates})
    IN  IF dates = {} THEN Commit(new) ELSE Upstream([new EXCEPT !.count = Len(keys)],
                                                 Children("Py_variance", keys))

PyAddSpectrumVariable(d, file) ==
    LET dates == DOMAIN d.spectra \cup DOMAIN file.data
        old == [t \in dates |-> IF t \in DOMAIN d.spectra THEN d.spectra[t]
                                ELSE [v \in Variables |-> 0]]
        new == [d EXCEPT !.count = @ + 1,
                         !.spectra = [t \in dates |-> IF t \in DOMAIN file.data
                                        THEN [old[t] EXCEPT ![file.var] = file.data[t]]
                                        ELSE old[t]],
                         !.frequencies = IF @ = <<>> THEN <<file.frequencies>> ELSE @]
    IN  IF new.count = Cardinality(Variables) THEN PyProcessSpectra(new)
        ELSE Upstream(new, <<>>)

PyVarianceAct(key) ==
    LET n == Least({key.frequencies[1]} \cup {key.data[v] : v \in Variables})
    IN  Commit([date |-> key.date, variance |-> n])

PyAddVariance(d, child) ==
    LET new == [d EXCEPT !.count = @ - 1, !.out_matrix = (child.date :> child.variance) @@ @]
    IN  CommitWhen(new.count = 0, new)

PyFiveFilesReact(d, child) ==
    IF d.state = "Reading" THEN PyAddSpectrumVariable(d, child) ELSE PyAddVariance(d, child)

-----------------------------------------------------------------------------
PyActed(s, task) ==
    Called(CASE task.type = "Py_main"       -> PyMainAct
             [] task.type = "Py_directory"  -> PyDirectoryAct(s)
             [] task.type = "Py_five_files" -> PyFiveFilesAct(s, task.key)
             [] task.type = "Py_file"       -> PyFileAct(s, task.key)
             [] task.type = "Py_variance"   -> PyVarianceAct(task.key))

PyReacted(s, task, d, child) ==
    Called(CASE task.type = "Py_main"       -> Commit(child)
             [] task.type = "Py_directory"  -> PyDirectoryReact(d, child)
             [] task.type = "Py_five_files" -> PyFiveFilesReact(d, child))

=============================================================================
