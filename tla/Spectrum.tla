------------------------------ MODULE Spectrum ------------------------------
(***************************************************************************)
(* The wave spectra program (examples/cpp/spec/spec_app.hh).  The directory*)
(* kernel finds the files and makes one kernel for each station and year   *)
(* (a unit here) that has a file of each variable.  That kernel reads its  *)
(* files with a kernel each, drops the dates for which some variable has   *)
(* fewer values than another, and computes the variance of each date left  *)
(* with a kernel each.                                                     *)
(*                                                                         *)
(* `s' describes the input: s.files is a set of [unit, variable, place],   *)
(* s.records gives for each readable file and each of its dates the number *)
(* of values, s.frequencies the number of frequencies in a file's header.  *)
(***************************************************************************)
EXTENDS KernelProgram, FiniteSets

CONSTANT Variables

SpectrumTypes == {"Spectrum_main", "Directory", "Five_files", "File", "Variance"}

Map0 == [x \in {} |-> 0]

-----------------------------------------------------------------------------
(* Directory                                                               *)

FilesOf(s, u) == {f \in s.files : f.unit = u}

CompleteUnit(s, u) ==
    /\ Cardinality(FilesOf(s, u)) = Cardinality(Variables)
    /\ {f.variable : f \in FilesOf(s, u)} = Variables

CompleteUnits(s) == {u \in {f.unit : f \in s.files} : CompleteUnit(s, u)}

DirectoryAct_CountsAll(s) ==
    Upstream([kernels |-> Cardinality({f.unit : f \in s.files}),
              count |-> 0, spectra |-> 0, sum |-> 0],
             Children("Five_files", SetToSeq(CompleteUnits(s))))

DirectoryAct(s) ==
    Upstream([kernels |-> Cardinality(CompleteUnits(s)),
              count |-> 0, spectra |-> 0, sum |-> 0],
             Children("Five_files", SetToSeq(CompleteUnits(s))))

\* num_processed_spectra and sum_processed_spectra of the unit
DirectoryReact(d, unit) ==
    LET new == [d EXCEPT !.count = @ + 1,
                         !.spectra = @ + Cardinality(DOMAIN unit.out),
                         !.sum = @ + Total(unit.out)]
    IN  CommitWhen(new.count = new.kernels, new)

\* write() of the kernel leaves out what only act() and react() use
DirectoryReturned(d) == [count |-> d.count, spectra |-> d.spectra]

-----------------------------------------------------------------------------
(* One unit                                                                *)

FiveFilesAct(s, u) ==
    Upstream([state |-> "Reading", count |-> 0, frequencies |-> 0,
              spectra |-> Map0, out |-> Map0],
             Children("File", SetToSeq(FilesOf(s, u))))

FileAct(s, f) ==
    IF f \in DOMAIN s.records
    THEN Commit([variable |-> f.variable, data |-> s.records[f],
                 frequencies |-> s.frequencies])
    ELSE Throw([variable |-> f.variable, data |-> Map0, frequencies |-> 0])

\* _spectra[date][variable]; a date that is new has no values of the others
AddVariable(spectra, file) ==
    [t \in DOMAIN spectra \cup DOMAIN file.data |->
        [v \in Variables |->
            IF v = file.variable /\ t \in DOMAIN file.data THEN file.data[t]
            ELSE IF t \in DOMAIN spectra THEN spectra[t][v] ELSE 0]]

CompleteDates(spectra) ==
    {t \in DOMAIN spectra : \A v, w \in Variables : spectra[t][v] = spectra[t][w]}

ProcessSpectra(d) ==
    LET dates == CompleteDates(d.spectra)
        new == [d EXCEPT !.state = "Processing", !.count = Cardinality(dates),
                         !.spectra = [t \in dates |-> d.spectra[t]]]
        task(t) == [date |-> t, sizes |-> new.spectra[t], frequencies |-> d.frequencies]
        keys == SetToSeq({task(t) : t \in dates})
    IN  IF dates = {} THEN Commit(new) ELSE Upstream(new, Children("Variance", keys))

AddSpectrumVariable(d, file) ==
    LET new == [d EXCEPT !.spectra = AddVariable(@, file), !.count = @ + 1,
                         !.frequencies = IF @ = 0 THEN file.frequencies ELSE @]
    IN  IF new.count = Cardinality(Variables) THEN ProcessSpectra(new)
        ELSE Upstream(new, <<>>)

\* the number of terms stands for the variance
VarianceAct(key) ==
    Commit([date |-> key.date,
            variance |-> Least({key.frequencies} \cup {key.sizes[v] : v \in Variables})])

AddVariance(d, k) ==
    LET dates == DOMAIN d.out \cup {k.date}
        new == [d EXCEPT !.count = @ - 1,
                         !.out = [t \in dates |-> IF t = k.date THEN k.variance ELSE d.out[t]]]
    IN  CommitWhen(new.count = 0, IF new.count = 0 THEN [new EXCEPT !.spectra = Map0] ELSE new)

FiveFilesReact(d, child) ==
    IF d.state = "Reading" THEN AddSpectrumVariable(d, child) ELSE AddVariance(d, child)

FiveFilesReturned(d) == [frequencies |-> d.frequencies, count |-> d.count, out |-> d.out]

-----------------------------------------------------------------------------
SpectrumActed(s, task) ==
    CASE task.type = "Spectrum_main" -> Upstream(Map0, <<Task("Directory", 0)>>)
      [] task.type = "Directory"     -> DirectoryAct(s)
      [] task.type = "Five_files"    -> FiveFilesAct(s, task.key)
      [] task.type = "File"          -> FileAct(s, task.key)
      [] task.type = "Variance"      -> VarianceAct(task.key)

SpectrumReacted(s, task, d, child) ==
    CASE task.type = "Spectrum_main" -> Commit(child)
      [] task.type = "Directory"     -> DirectoryReact(d, child)
      [] task.type = "Five_files"    -> FiveFilesReact(d, child)

SpectrumReturned(task, d) ==
    CASE task.type = "Directory"  -> DirectoryReturned(d)
      [] task.type = "Five_files" -> FiveFilesReturned(d)
      [] OTHER                    -> d

\* What the files say, without kernels: the number of values that each file
\* of a complete unit has for a date.
SizeIn(s, f, t) == IF f \in DOMAIN s.records /\ t \in DOMAIN s.records[f]
                   THEN s.records[f][t] ELSE 0

GoodDates(s, u) ==
    {t \in UNION {DOMAIN s.records[f] : f \in FilesOf(s, u) \cap DOMAIN s.records} :
        \A f, g \in FilesOf(s, u) : SizeIn(s, f, t) = SizeIn(s, g, t)}

SpectrumExact(s, d) ==
    LET sizes(u) == [t \in GoodDates(s, u) |->
                        Least({s.frequencies} \cup {SizeIn(s, f, t) : f \in FilesOf(s, u)})]
        units == CompleteUnits(s)
    IN  /\ d.spectra = Total([u \in units |-> Cardinality(GoodDates(s, u))])
        /\ d.sum = Total([u \in units |-> Total(sizes(u))])

=============================================================================
