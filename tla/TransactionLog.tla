---------------------------- MODULE TransactionLog ----------------------------
(***************************************************************************)
(* The file of core/transaction_log: what is appended to it, what is read  *)
(* from it and what a recovery makes of it.  A file is a sequence of       *)
(* frames; a write that a crash has interrupted leaves a torn frame, and   *)
(* what follows it is taken for the rest of that frame.                    *)
(***************************************************************************)
EXTENDS Naturals, Sequences

\* A record names a kernel that carries its parent.
Start(k) == [status |-> "start", kernel |-> k]
End(k) == [status |-> "end", kernel |-> k]
Torn == [status |-> "torn"]

Frames(K) == [status : {"start", "end"}, kernel : K] \cup {Torn}

\* transaction_log::write()
Written(file, record) == Append(file, record)

\* (A slip: a file with a torn frame is not used.)
Whole_Intact(file) == IF \E i \in DOMAIN file : file[i] = Torn THEN <<>> ELSE file

\* The frames that are whole: read_records() stops at the first that is not.
Whole(file) ==
    LET torn == {i \in DOMAIN file : file[i] = Torn}
    IN  IF torn = {} THEN file
        ELSE SubSeq(file, 1, (CHOOSE i \in torn : \A j \in torn : i <= j) - 1)

\* read_records() takes the beginning of the kernel of an end record for the
\* id of a kernel.  No kernel has that id: the record erases nothing.
Records(file) == SelectSeq(Whole(file), LAMBDA r : r.status = "start")

\* recover(filename) writes a new file of the records it has read.
Recovered(file) == Records(file)
=============================================================================
