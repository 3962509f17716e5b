----------------------------- MODULE MCPrograms -----------------------------
(* Inputs of the programs.                                                 *)
EXTENDS Programs

\* files of two variables: unit 1 has both and three dates, one of them with
\* sizes that differ; unit 2 lacks a variable
File(u, v) == [unit |-> u, variable |-> v]
Files == {File(1, 1), File(1, 2), File(2, 1)}
Sizes == (File(1, 1) :> <<2, 1, 2>>) @@ (File(1, 2) :> <<2, 2, 2>>)

Spectra(files, records) ==
    [program |-> "Spectrum_main", files |-> files, records |-> records, frequencies |-> 1]

SpectraSetups ==
    {Spectra(Files, Sizes),
     Spectra(Files \cup {File(2, 2)}, Sizes @@ (File(2, 1) :> <<1>>)),
     Spectra({File(2, 1)}, Sizes)}

\* an input file, and whether the process it describes is stationary
Wave(file, stationary) ==
    ReadParameters(file) @@ [program |-> "Autoreg_model", stationary |-> stationary]

WaveFile(acf_size, zsize, part_size) ==
    <<<<"acf_size", acf_size>>, <<"zsize", zsize>>, <<"zeta_padding", <<1, 1, 1>>>>,
      <<"part_size", part_size>>>>

PySpectra(files, records) ==
    [program |-> "Py_main", files |-> files, records |-> records, frequencies |-> 1]

PySpectraSetups ==
    {PySpectra(Files, Sizes),
     PySpectra(Files \cup {File(2, 2)}, Sizes @@ (File(2, 1) :> <<1>>) @@ (File(2, 2) :> <<2>>)),
     PySpectra(Files \cup {File(2, 2)}, Sizes),
     PySpectra({File(2, 1)}, Sizes)}

WaveSetups ==
    {Wave(WaveFile(<<2, 1, 1>>, <<4, 1, 2>>, <<2, 1, 2>>), TRUE),
     Wave(WaveFile(<<3, 1, 1>>, <<2, 2, 1>>, <<3, 1, 2>>), TRUE),
     Wave(WaveFile(<<2, 2, 1>>, <<3, 3, 1>>, <<2, 2, 2>>), TRUE),
     Wave(WaveFile(<<2, 1, 1>>, <<2, 1, 1>>, <<2, 2, 2>>), FALSE),
     Wave(WaveFile(<<2, 1, 1>>, <<2, 1, 1>>, <<1, 2, 2>>), TRUE),
     Wave(WaveFile(<<1, 1, 1>>, <<2, 1, 1>>, <<1, 2, 2>>), TRUE),
     Wave(WaveFile(<<2, 1, 1>>, <<2, 1, 1>>, <<2, 2, 2>>) \o <<<<"acf_size", <<1, 0, 1>>>>>>, TRUE),
     Wave(WaveFile(<<2, 1, 1>>, <<2, 1, 1>>, <<2, 2, 2>>) \o <<<<"no_such_name", 0>>>>, TRUE)}

Map(lists, block_size) == [lists |-> lists, block_size |-> block_size]
Scheme(maps) == [program |-> "Scheme_main", maps |-> maps]

SchemeSetups ==
    {Scheme(<<>>),
     Scheme(<<Map(<<<<1, 2, 3>>, <<4, 5, 6, 7>>>>, 2)>>),
     Scheme(<<Map(<<<<1, 2, 3, 4, 5>>>>, 2), Map(<<<<1>>, <<2>>>>, 1)>>),
     Scheme(<<Map(<<<<1>>>>, 2)>>)}

HelloSetups == {[program |-> "Hello_main", arguments |-> a] : a \in {<<0>>, <<3>>}}

TestSetups ==
    {[program |-> p, nkernels |-> 2, tagged |-> t] : p \in {"Superior", "Tag_superior"},
                                                    t \in BOOLEAN}

\* the same files: a date is dropped only when a file has no value of it
SchemeSpectraSetups ==
    {[program |-> "Spectra_main", files |-> files, records |-> records] :
        <<files, records>> \in
            {<<Files, Sizes @@ (File(2, 1) :> <<1>>)>>,
             <<Files \cup {File(2, 2)}, Sizes @@ (File(2, 1) :> <<0, 3>>) @@ (File(2, 2) :> <<2>>)>>,
             <<{File(2, 1)}, File(2, 1) :> <<1>>>>}}

\* the daemon runs two jobs and has a kernel on a connection and one on none
Sbnc(arguments, connected, logs) ==
    [program |-> "Sbnc", arguments |-> arguments, connected |-> connected, node |-> "n0",
     jobs |-> {"1", "2"}, kernels |-> [upstream |-> {"k"}, queued |-> {"l"}],
     exit_code |-> "exit_1", logs |-> logs]

NoLogs == [n \in {"n1", "n2"} |-> <<>>]

SbncSetups ==
    {Sbnc(a, c, NoLogs) : a \in {<<"submit", "-r", "filter", "app">>, <<"app">>, <<"submit">>,
                                 <<"submit", "-r">>, <<"submit", "-T", "app">>, <<"select">>,
                                 <<"select", "-t", "job">>, <<"select", "-t", "kernel", "-o", "rec">>,
                                 <<"select", "-t">>, <<"cancel", "-t", "job", "1">>,
                                 <<"cancel", "1", "-t", "job">>, <<"cancel", "1">>, <<"cancel", "app">>},
                          c \in BOOLEAN}
    \cup {Sbnc(<<"-T", "app">>, TRUE, logs) :
              logs \in {Map0, ("n1" :> <<"r">>) @@ ("n2" :> <<"r", "q">>)}}

AllSetups == SpectraSetups \cup PySpectraSetups \cup WaveSetups \cup SchemeSetups
             \cup SchemeSpectraSetups \cup HelloSetups \cup TestSetups \cup SbncSetups
=============================================================================
