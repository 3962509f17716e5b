---------------------------- MODULE WaveSurface ----------------------------
(***************************************************************************)
(* The autoregressive model of a wavy surface (examples/cpp/autoreg).  The *)
(* main kernel runs four children one after another: the auto-covariance   *)
(* function, the coefficients (two parallel maps and a system of linear    *)
(* equations), the variance of white noise, and the generator.  The        *)
(* generator cuts the surface into parts; a part is a kernel for another   *)
(* node, sent when the parts that it continues are complete.               *)
(*                                                                         *)
(* `s' holds the input file: acf_size, zsize, zeta_padding, part_size, and *)
(* whether the process turns out to be stationary.  Values of the surface  *)
(* are integers modulo Modulus; a coefficient is a function of its lag, a  *)
(* sample of white noise of its number in the part (the generator of each  *)
(* part is seeded alike).                                                  *)
(***************************************************************************)
EXTENDS KernelProgram, FiniteSets

WaveTypes == {"Autoreg_model", "ACF_generator", "Autoreg_coefs", "Variance_WN",
              "Wave_surface_generator", "Part_generator", "Map", "Worker"}

Modulus == 11

-----------------------------------------------------------------------------
(* Vectors of three and boxes of cells                                     *)

Axes == 1..3
Plus(u, v) == [x \in Axes |-> u[x] + v[x]]
Minus(u, v) == [x \in Axes |-> u[x] - v[x]]
Times(u, v) == [x \in Axes |-> u[x] * v[x]]
MinOf(u, v) == [x \in Axes |-> Least({u[x], v[x]})]
product(v) == v[1] * v[2] * v[3]
Zero == <<0, 0, 0>>
One == <<1, 1, 1>>

Box(begin, end) == {<<i, j, k>> : i \in begin[1]..end[1] - 1, j \in begin[2]..end[2] - 1,
                                  k \in begin[3]..end[3] - 1}

Index(size, c) == (c[1] * size[2] + c[2]) * size[3] + c[3]

CellAt(size, n) ==
    <<((n \div size[3]) \div size[2]) % size[1], (n \div size[3]) % size[2], n % size[3]>>

\* the cells of a box in the order of the nested loops
InOrder(begin, end) ==
    LET size == Minus(end, begin)
    IN  [n \in 1..product(size) |-> Plus(begin, CellAt(size, n - 1))]

-----------------------------------------------------------------------------
(* Parallel map over an index range in blocks (mapreduce.hh)               *)

MapTask(f, n, block_size) == Task("Map", [f |-> f, n |-> n, bs |-> block_size])

MapAct(key) ==
    LET starts == {a \in 0..key.n - 1 : a % key.bs = 0}
        worker(a) == [f |-> key.f, a |-> a, b |-> Least({a + key.bs, key.n})]
        m == key.n \div key.bs + (IF key.n % key.bs = 0 THEN 0 ELSE 1)
    IN  Upstream([n |-> 0, m |-> m, reduced |-> {}],
                 Children("Worker", SetToSeq({worker(a) : a \in starts})))

\* f writes the elements of its block to the array
WorkerAct(key) ==
    [Commit(key) EXCEPT !.writes = {<<key.f, i>> : i \in key.a..key.b - 1}]

\* g for each element of the block
MapReact(d, worker) ==
    LET new == [d EXCEPT !.n = @ + 1, !.reduced = @ \cup worker.a..worker.b - 1]
    IN  CommitWhen(new.n = new.m, new)

-----------------------------------------------------------------------------
(* The children of the main kernel.  The arrays are acf_model, the left    *)
(* and the right side of the system, and ar_coefs.                         *)

Coefs(s) == product(s.acf_size)

ACFAct(s) == Upstream(Zero, <<MapTask("acf_model", s.acf_size[1], 2)>>)

CoefsAct(s) ==
    Upstream([state |-> 0], <<MapTask("a", Coefs(s) - 1, 64), MapTask("b", Coefs(s) - 1, 64)>>)

CoefsReact_First(s, d) ==
    [Commit(d) EXCEPT !.writes = {<<"ar_coefs", i>> : i \in 0..Coefs(s) - 1}]

\* solve(): writes ar_coefs, throws if the process is not stationary
CoefsReact(s, d) ==
    IF d.state = 0 THEN Upstream([state |-> 1], <<>>)
    ELSE IF ~s.stationary THEN Throw(d)
    ELSE [Commit(d) EXCEPT !.writes = {<<"ar_coefs", i>> : i \in 0..Coefs(s) - 1}]

VarianceWNAct(s) == Upstream([terms |-> {}], <<MapTask("none", Coefs(s), 64)>>)

VarianceWNReact(map) == Commit([terms |-> map.reduced])

-----------------------------------------------------------------------------
(* The main kernel                                                         *)

ZSize2(s) == Plus(s.zsize, s.zeta_padding)

DefaultParameters ==
    [known |-> TRUE, zsize |-> <<1000, 32, 32>>, acf_size |-> <<10, 10, 10>>,
     part_size |-> <<20, 20, 20>>, zeta_padding |-> <<10, 10, 10>>]

\* the input file: names with values, of which the last one counts
ReadParameters(file) ==
    LET read(p, line) == IF line[1] \in DOMAIN p \ {"known"} THEN [p EXCEPT ![line[1]] = line[2]]
                         ELSE [p EXCEPT !.known = FALSE]
    IN  FoldLeft(read, DefaultParameters, file)

ValidParameters(s) ==
    /\ s.known
    /\ \A v \in {s.zsize, s.acf_size, s.part_size} : product(v) # 0
    /\ \A x \in Axes : s.acf_size[x] <= s.part_size[x]

\* the program ends with an error when it cannot use the input file
ModelAct(s) ==
    IF ValidParameters(s) THEN Upstream([stage |-> "ACF_generator"], <<Task("ACF_generator", 0)>>)
    ELSE Throw([stage |-> "input file"])

ModelReact(d, child) ==
    LET next(type) == Upstream([stage |-> type], <<Task(type, 0)>>)
    IN  CASE d.stage = "ACF_generator"          -> next("Autoreg_coefs")
          [] d.stage = "Autoreg_coefs"          -> next("Variance_WN")
          [] d.stage = "Variance_WN"            -> next("Wave_surface_generator")
          [] d.stage = "Wave_surface_generator" -> Commit(child)

-----------------------------------------------------------------------------
(* Parts of the surface                                                    *)

PartSize(s) == MinOf(s.part_size, ZSize2(s))

NumParts(s) == [x \in Axes |-> ZSize2(s)[x] \div PartSize(s)[x]]

\* a part by its place; its cells, and those before them that it reads
Part(s, ijk) ==
    LET begin == Times(ijk, PartSize(s))
        offset == MinOf(begin, s.acf_size)
        end == [x \in Axes |-> IF ijk[x] = NumParts(s)[x] - 1 THEN ZSize2(s)[x]
                               ELSE begin[x] + PartSize(s)[x]]
    IN  [begin_index |-> Minus(begin, offset), offset |-> offset, end_index |-> end]

first_cell(part) == Plus(part.begin_index, part.offset)

slice_in(part) == Box(part.begin_index, part.end_index)

slice_out(part) == Box(first_cell(part), part.end_index)

generate_parts(s) == [ijk \in Box(Zero, NumParts(s)) |-> "Initial"]

-----------------------------------------------------------------------------
(* The surface                                                             *)

Phi(l) == IF l = Zero THEN -1 ELSE l[1] + 2 * l[2] + 3 * l[3]

\* the n-th sample goes to the n-th cell of the part
WhiteNoise(part) ==
    LET begin == first_cell(part)
    IN  [c \in slice_out(part) |-> Index(Minus(part.end_index, begin), Minus(c, begin)) + 1]

\* one cell from the cells at most phi_size before it, none before `first'
Regression(s, zeta, c, first) ==
    LET lag == MinOf(Plus(Minus(c, first), One), s.acf_size)
    IN  Total([l \in Box(Zero, lag) |-> Phi(l) * zeta[Minus(c, l)]]) % Modulus

Generate(s, zeta, order, first) ==
    FoldLeft(LAMBDA z, c : [z EXCEPT ![c] = Regression(s, z, c, first)], zeta, order)

\* the reference of verify(): the whole surface at once
generate_surface(s) ==
    LET noise == FoldSet(LAMBDA ijk, z : WhiteNoise(Part(s, ijk)) @@ z, <<>>,
                         Box(Zero, NumParts(s)))
    IN  Generate(s, noise, InOrder(Zero, ZSize2(s)), Zero)

\* A part has the cells it continues with it; it returns its own cells.
PartAct(s, key) ==
    LET part == Part(s, key.ijk)
        order == InOrder(first_cell(part), part.end_index)
        zeta == Generate(s, WhiteNoise(part) @@ key.zeta, order, part.begin_index)
    IN  Commit([ijk |-> key.ijk, zeta |-> [c \in slice_out(part) |-> zeta[c]]])

-----------------------------------------------------------------------------
(* Wave_surface_generator                                                  *)

\* cells of zeta that trim_surface() leaves to verify()
TrimmedCells(s) ==
    LET size == ZSize2(s)
        offset == s.zeta_padding
        places == {product(offset) + Index(size, c) : c \in Box(Zero, offset)}
    IN  {c \in Box(Zero, size) : Index(size, c) \in places}

verify(s, zeta) ==
    LET reference == generate_surface(s)
    IN  \A c \in TrimmedCells(s) : zeta[c] = reference[c]

Dependencies_InTime(ijk) == {ijk} \cup {p \in {Minus(ijk, <<1, 0, 0>>)} : p[1] >= 0}

Dependencies(ijk) == {Minus(ijk, e) : e \in Box(Zero, MinOf(Plus(ijk, One), <<2, 2, 2>>))}

Ready(d, ijk) ==
    /\ d.parts[ijk] = "Initial"
    /\ \A p \in Dependencies(ijk) \ {ijk} : d.parts[p] = "Completed"

\* the input of a part travels with it
PartKey(s, d, ijk) ==
    LET part == Part(s, ijk)
    IN  [ijk |-> ijk, zeta |-> [c \in slice_in(part) \ slice_out(part) |-> d.zeta[c]]]

push_kernels(s, d) ==
    LET ready == {ijk \in DOMAIN d.parts : Ready(d, ijk)}
        new == [d EXCEPT !.parts = [p \in DOMAIN @ |-> IF p \in ready THEN "Submitted" ELSE @[p]]]
        keys == SetToSeq({PartKey(s, d, ijk) : ijk \in ready})
    IN  IF \E p \in DOMAIN d.parts : d.parts[p] # "Completed"
        THEN Upstream(new, Children("Part_generator", keys))
        ELSE IF verify(s, d.zeta) THEN Commit(d) ELSE Throw(d)

GeneratorAct(s) ==
    push_kernels(s, [parts |-> generate_parts(s), zeta |-> [c \in Box(Zero, ZSize2(s)) |-> 0]])

GeneratorReact(s, d, child) ==
    push_kernels(s, [d EXCEPT !.parts[child.ijk] = "Completed", !.zeta = child.zeta @@ @])

-----------------------------------------------------------------------------
WaveActed(s, task) ==
    CASE task.type = "Autoreg_model"          -> ModelAct(s)
      [] task.type = "ACF_generator"          -> ACFAct(s)
      [] task.type = "Autoreg_coefs"          -> CoefsAct(s)
      [] task.type = "Variance_WN"            -> VarianceWNAct(s)
      [] task.type = "Wave_surface_generator" -> GeneratorAct(s)
      [] task.type = "Part_generator"         -> PartAct(s, task.key)
      [] task.type = "Map"                    -> MapAct(task.key)
      [] task.type = "Worker"                 -> WorkerAct(task.key)

WaveReacted(s, task, d, child) ==
    CASE task.type = "Autoreg_model"          -> ModelReact(d, child)
      [] task.type = "ACF_generator"          -> Commit(d)
      [] task.type = "Autoreg_coefs"          -> CoefsReact(s, d)
      [] task.type = "Variance_WN"            -> VarianceWNReact(child)
      [] task.type = "Wave_surface_generator" -> GeneratorReact(s, d, child)
      [] task.type = "Map"                    -> MapReact(d, child)

\* what a kernel reads before it acts, and before it can return
Elements(array, n) == {<<array, i>> : i \in 0..n - 1}

ReadByAct(s, type) ==
    CASE type = "Autoreg_coefs"          -> Elements("acf_model", s.acf_size[1])
      [] type = "Variance_WN"            -> Elements("ar_coefs", Coefs(s))
      [] type = "Wave_surface_generator" -> Elements("ar_coefs", Coefs(s))
      [] OTHER                           -> {}

ReadByReact(s, type) ==
    IF type = "Autoreg_coefs" THEN Elements("a", Coefs(s) - 1) \cup Elements("b", Coefs(s) - 1)
    ELSE {}

WaveExact(s, d) == d.zeta = generate_surface(s)

=============================================================================
