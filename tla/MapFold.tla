------------------------------ MODULE MapFold ------------------------------
(***************************************************************************)
(* Scheme programs (guile/kernel.cc).  The script calls kernel-map, which  *)
(* leaves a child with the current kernel, and then kernel-react, which    *)
(* sends the children and gives the procedure that folds their results.    *)
(* The child of kernel-map cuts its lists into blocks, sends a kernel for  *)
(* each block to the cluster and collects what they return.                *)
(*                                                                         *)
(* s.maps holds the arguments of the kernel-map calls: a sequence of lists *)
(* and a block size.  The mapped procedure adds its arguments.             *)
(***************************************************************************)
EXTENDS KernelProgram, FiniteSets

SchemeTypes == {"Scheme_main", "Map_kernel", "Map_child"}

-----------------------------------------------------------------------------
(* Objects in a kernel buffer: a type and a value, or a type, a length and *)
(* as many objects.                                                        *)

Integer(n) == <<"Integer", n>>
List(items) == <<"List", items>>

RECURSIVE object_write(_), object_read(_), read_items(_, _)

object_write(object) ==
    IF object[1] = "List"
    THEN <<List(Len(object[2]))>>
         \o FlattenSeq([i \in DOMAIN object[2] |-> object_write(object[2][i])])
    ELSE <<object>>

\* the object at the head of the buffer, and the rest of the buffer
object_read(buffer) ==
    LET items == read_items(buffer[1][2], Tail(buffer))
    IN  IF buffer[1][1] = "List"
        THEN [object |-> List(items.read), rest |-> items.rest]
        ELSE [object |-> buffer[1], rest |-> Tail(buffer)]

read_items(n, buffer) ==
    IF n = 0 THEN [read |-> <<>>, rest |-> buffer]
    ELSE LET first == object_read(buffer)
             others == read_items(n - 1, first.rest)
         IN  [read |-> <<first.object>> \o others.read, rest |-> others.rest]

\* an object on the other side of a connection
Travelled(object) == object_read(object_write(object)).object

-----------------------------------------------------------------------------
(* The main kernel and Kernel_base                                         *)

\* kernel-map called for each element of s.maps, then kernel-react
SchemeMainAct(s) ==
    LET data == [num_children |-> Len(s.maps), result |-> List(<<>>)]
    IN  IF s.maps = <<>> THEN Commit(data)
        ELSE Upstream(data, Children("Map_kernel", s.maps))

scm_cons(object, list) == List(<<object>> \o list[2])

\* the script folds with cons
KernelBaseReact(d, child) ==
    LET new == [d EXCEPT !.num_children = @ - 1, !.result = scm_cons(child.result, @)]
    IN  CommitWhen(new.num_children = 0, new)

-----------------------------------------------------------------------------
(* Map_kernel                                                              *)

Shortest(lists) == Least({Len(lists[x]) : x \in DOMAIN lists})

\* the last block takes what is left over
BlocksOf(lists, block_size) ==
    LET length == Shortest(lists)
        num_kernels == length \div block_size
        size(i) == IF i = num_kernels THEN block_size + (length % block_size) ELSE block_size
        first(i) == (i - 1) * block_size + 1
    IN  [i \in 1..num_kernels |->
            [x \in DOMAIN lists |-> SubSeq(lists[x], first(i), first(i) + size(i) - 1)]]

ListObject(list) == List([j \in DOMAIN list |-> Integer(list[j])])

MapKernelAct(key) ==
    LET blocks == BlocksOf(key.lists, key.block_size)
        child(i) == [block |-> i,
                     lists |-> Travelled(List([x \in DOMAIN blocks[i] |-> ListObject(blocks[i][x])]))]
    IN  Upstream([num_kernels |-> Len(blocks), result |-> List(<<>>)],
                 Children("Map_child", [i \in DOMAIN blocks |-> child(i)]))

MapKernelReact(d, child) ==
    LET new == [d EXCEPT !.num_kernels = @ - 1, !.result = scm_cons(child.result, @)]
    IN  CommitWhen(new.num_kernels = 0, new)

\* `map' stops at the end of the shortest list
MapChildAct(key) ==
    LET lists == key.lists[2]
        length == Least({Len(lists[x][2]) : x \in DOMAIN lists})
        sum(j) == Total([x \in DOMAIN lists |-> lists[x][2][j][2]])
    IN  Commit([result |-> Travelled(List([j \in 1..length |-> Integer(sum(j))]))])

-----------------------------------------------------------------------------
SchemeActed(s, task) ==
    CASE task.type = "Scheme_main" -> SchemeMainAct(s)
      [] task.type = "Map_kernel"  -> MapKernelAct(task.key)
      [] task.type = "Map_child"   -> MapChildAct(task.key)

SchemeReacted(s, task, d, child) ==
    IF task.type = "Scheme_main" THEN KernelBaseReact(d, child) ELSE MapKernelReact(d, child)

\* the numbers in an object, in order
RECURSIVE NumbersIn(_)
NumbersIn(object) ==
    IF object[1] = "List"
    THEN FlattenSeq([i \in DOMAIN object[2] |-> NumbersIn(object[2][i])])
    ELSE <<object[2]>>

Sorted(numbers) == SortSeq(numbers, LAMBDA a, b : a < b)

\* The results come in the order in which the kernels return; as a bag they
\* are what a sequential `map' computes.
MapOf(m) == [j \in 1..Shortest(m.lists) |->
                Total([x \in DOMAIN m.lists |-> m.lists[x][j]])]

SchemeExact(s, d) ==
    Sorted(NumbersIn(d.result)) = Sorted(FlattenSeq([i \in DOMAIN s.maps |-> MapOf(s.maps[i])]))

=============================================================================
