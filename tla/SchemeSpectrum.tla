--------------------------- MODULE SchemeSpectrum ---------------------------
(***************************************************************************)
(* The wave spectra program in Scheme (examples/guile/spec-par-v2.scm): one*)
(* kernel-map over the units that have enough files, and kernel-react with *)
(* append.  The input is that of Spectrum; every file is readable.         *)
(***************************************************************************)
EXTENDS Spectrum, MapFold

\* <spectrum-file>-write: an object with its fields
FileObject(f) == <<"User_defined", f>>

\* only the number of files of a unit is looked at
UnitsWithAllFiles(s) ==
    {u \in {f.unit : f \in s.files} : Cardinality(FilesOf(s, u)) = Cardinality(Variables)}

UnitObject(s, u) == List(SetToSeq({FileObject(f) : f \in FilesOf(s, u)}))

SpectraMap(s) == SetToSeq({UnitObject(s, u) : u \in UnitsWithAllFiles(s)})

\* the records of a unit: what its files say of each timestamp
ReadFiveFiles(s, five_files) ==
    LET add(records, object) ==
            AddVariable(records, [variable |-> object[2].variable, data |-> s.records[object[2]]])
    IN  FoldLeft(add, Map0, five_files[2])

\* a record is complete when each of its lists has something in it
CompleteRecords(records) == {t \in DOMAIN records : \A v \in Variables : records[t][v] # 0}

\* the mapped procedure: a number for each complete record
SpectraOf(s, five_files) ==
    List([i \in 1..Cardinality(CompleteRecords(ReadFiveFiles(s, five_files))) |-> Integer(0)])

SchemeSpectraTypes == {"Spectra_main", "Spectra_map", "Spectra_child"}

SpectraMainAct(s) ==
    Upstream([num_children |-> 1, result |-> List(<<>>)], <<Task("Spectra_map", 0)>>)

\* append, and the postamble counts the numbers in what there is
SpectraMainReact(d, child) ==
    Commit([d EXCEPT !.num_children = @ - 1, !.result = List(child.result[2] \o @[2])])

\* the block size is 1 when the script gives none
SpectraMapAct(s) ==
    LET units == SpectraMap(s)
    IN  Upstream([num_kernels |-> Len(units), result |-> List(<<>>)],
                 Children("Spectra_child", [i \in DOMAIN units |-> Travelled(List(<<units[i]>>))]))

SpectraChildAct(s, key) == Commit([result |-> Travelled(List(<<SpectraOf(s, key[2][1])>>))])

SchemeSpectrumActed(s, task) ==
    CASE task.type = "Spectra_main"  -> SpectraMainAct(s)
      [] task.type = "Spectra_map"   -> SpectraMapAct(s)
      [] task.type = "Spectra_child" -> SpectraChildAct(s, task.key)

SchemeSpectrumReacted(s, task, d, child) ==
    IF task.type = "Spectra_main" THEN SpectraMainReact(d, child) ELSE MapKernelReact(d, child)

\* nspectra.log
SchemeSpectrumExact(s, d) ==
    LET dates(u) == {t \in UNION {DOMAIN s.records[f] : f \in FilesOf(s, u)} :
                        \A f \in FilesOf(s, u) : SizeIn(s, f, t) # 0}
    IN  Len(NumbersIn(d.result)) =
            Total([u \in UnitsWithAllFiles(s) |-> Cardinality(dates(u))])

=============================================================================
