------------------------------ MODULE Resources ------------------------------
(***************************************************************************)
(* The language of node filters (core/resources): expressions over the     *)
(* resources of a node, their value, and the bytes they travel in.         *)
(*                                                                         *)
(* An expression is a record of its operation and arguments; a value is a  *)
(* record of its type and contents.  The bytes are a sequence of words, in *)
(* which a word is a byte or the contents of a leaf.                       *)
(***************************************************************************)
EXTENDS Naturals, Sequences, FiniteSets

CONSTANT MaxInteger      \* the largest uint64_t

ASSUME ResourcesAssumption == MaxInteger \in Nat \ {0}

(***************************************************************************)
(* Values.                                                                 *)
(***************************************************************************)
U64(n) == [type |-> "U64", value |-> n]
Boolean(b) == [type |-> "Boolean", value |-> b]
String(words) == [type |-> "String", value |-> words]   \* separated by blanks

\* What a value is worth when another type is asked for.
AsBoolean(v) == v.type = "Boolean" /\ v.value
AsInteger(v) == IF v.type = "U64" THEN v.value ELSE 0

SameValue(v, w) == v.type = w.type /\ v.value = w.value

\* The bindings of a node: its resources and its other symbols.  A name that
\* is not bound is worth a default value.
Bound(names, name) == IF name \in DOMAIN names THEN names[name] ELSE Boolean(FALSE)

-----------------------------------------------------------------------------
(***************************************************************************)
(* Expressions.                                                            *)
(***************************************************************************)
LeafOps == {"Symbol", "Constant", "Name"}
UnaryOps == {"Not", "Negate"}
LogicalOps == {"And", "Or", "Xor"}
ComparisonOps == {"Less_than", "Less_or_equal", "Equal", "Greater_than", "Greater_or_equal"}
ArithmeticOps == {"Add", "Subtract", "Multiply", "Quotient", "Remainder"}
BinaryOps == LogicalOps \cup ComparisonOps \cup ArithmeticOps

Leaf(op, contents) == [op |-> op, contents |-> contents]
Unary(op, e) == [op |-> op, arg |-> e]
Binary(op, a, b) == [op |-> op, a |-> a, b |-> b]

Logical(op, p, q) ==
    CASE op = "And" -> p /\ q
      [] op = "Or"  -> p \/ q
      [] op = "Xor" -> p # q

Comparison(op, m, n) ==
    CASE op = "Less_than"        -> m < n
      [] op = "Less_or_equal"    -> m <= n
      [] op = "Greater_than"     -> m > n
      [] op = "Greater_or_equal" -> m >= n

\* Unsigned arithmetic.  A division by zero has no value: it ends the program.
Arithmetic(op, m, n) ==
    LET modulus == MaxInteger + 1
    IN  CASE op = "Add"       -> (m + n) % modulus
          [] op = "Subtract"  -> (m + modulus - n) % modulus
          [] op = "Multiply"  -> (m * n) % modulus
          [] op = "Quotient"  -> m \div n
          [] op = "Remainder" -> m % n

RECURSIVE Evaluate(_, _)
Evaluate(e, node) ==
    IF e.op = "Symbol" THEN node.resources[e.contents]
    ELSE IF e.op = "Constant" THEN e.contents
    ELSE IF e.op = "Name" THEN Bound(node.names, e.contents)
    ELSE IF e.op = "Not" THEN Boolean(~AsBoolean(Evaluate(e.arg, node)))
    ELSE IF e.op = "Negate"
         THEN U64(Arithmetic("Subtract", 0, AsInteger(Evaluate(e.arg, node))))
    ELSE LET v == Evaluate(e.a, node)
             w == Evaluate(e.b, node)
         IN  IF e.op \in LogicalOps THEN Boolean(Logical(e.op, AsBoolean(v), AsBoolean(w)))
             ELSE IF e.op = "Equal" THEN Boolean(SameValue(v, w))
             ELSE IF e.op \in ComparisonOps
                  THEN Boolean(Comparison(e.op, AsInteger(v), AsInteger(w)))
             ELSE U64(Arithmetic(e.op, AsInteger(v), AsInteger(w)))

Satisfies(node, e) == AsBoolean(Evaluate(e, node))

-----------------------------------------------------------------------------
(***************************************************************************)
(* Bytes.  The operation comes first and the arguments after it.           *)
(***************************************************************************)

WriteValue(v) == <<[contents |-> v]>>
ReadValue(words) == words[1].contents

\* (A slip: the arguments change places.)
RECURSIVE Write_Swapped(_)
Write_Swapped(e) ==
    IF e.op \in LeafOps THEN <<[op |-> e.op], [contents |-> e.contents]>>
    ELSE IF e.op \in UnaryOps THEN <<[op |-> e.op]>> \o Write_Swapped(e.arg)
    ELSE <<[op |-> e.op]>> \o Write_Swapped(e.b) \o Write_Swapped(e.a)

RECURSIVE Write(_)
Write(e) ==
    IF e.op \in LeafOps THEN <<[op |-> e.op]>> \o WriteValue(e.contents)
    ELSE IF e.op \in UnaryOps THEN <<[op |-> e.op]>> \o Write(e.arg)
    ELSE <<[op |-> e.op]>> \o Write(e.a) \o Write(e.b)

\* make_expression() knows every operation that can be written but one.
Readable == (LeafOps \cup UnaryOps \cup BinaryOps) \ {"Negate"}

\* What is read from the words, the number of words read, and whether an
\* operation was unknown, which ends the reading with an exception.
Unreadable == [ok |-> FALSE]
Result(e, n) == [ok |-> TRUE, expr |-> e, size |-> n]

RECURSIVE Read(_)
Read(words) ==
    LET op == words[1].op
        rest(n) == SubSeq(words, n + 1, Len(words))
    IN  IF op \notin Readable THEN Unreadable
        ELSE IF op \in LeafOps THEN Result(Leaf(op, ReadValue(rest(1))), 2)
        ELSE LET first == Read(rest(1))
             IN  IF ~first.ok THEN Unreadable
                 ELSE IF op \in UnaryOps THEN Result(Unary(op, first.expr), first.size + 1)
                 ELSE LET second == Read(rest(first.size + 1))
                      IN  IF ~second.ok THEN Unreadable
                          ELSE Result(Binary(op, first.expr, second.expr),
                                      first.size + second.size + 1)

-----------------------------------------------------------------------------
(***************************************************************************)
(* Text, as it is written in the properties of a daemon and in the         *)
(* arguments of sbnc.  Its words are separated by blanks, and a string may *)
(* be of several words.                                                    *)
(***************************************************************************)
Open == [token |-> "("]
Close == [token |-> ")"]
Operation(op) == [token |-> "operation", op |-> op]
Word(leaf, piece) == [token |-> "word", leaf |-> leaf, piece |-> piece]

IsString(leaf) == leaf.op = "Constant" /\ leaf.contents.type = "String"
Pieces(leaf) == IF IsString(leaf) THEN Len(leaf.contents.value) ELSE 1

\* A truth value is written as a number.
Printed(leaf) ==
    IF leaf.op = "Constant" /\ leaf.contents.type = "Boolean"
    THEN Leaf("Constant", U64(IF leaf.contents.value THEN 1 ELSE 0))
    ELSE leaf

RECURSIVE Text(_)
Text(e) ==
    IF e.op \in LeafOps THEN [i \in 1..Pieces(e) |-> Word(Printed(e), i)]
    ELSE <<Open, Operation(e.op)>>
             \o (IF e.op \in UnaryOps THEN Text(e.arg) ELSE Text(e.a) \o Text(e.b))
             \o <<Close>>

\* What is read instead of an expression: a null pointer, or an exception.
Missing == [op |-> "Missing"]
Bad == [op |-> "Bad"]

\* The numbers are read as signed ones.
TooLarge(leaf) == leaf.op = "Constant" /\ leaf.contents.type = "U64"
                      /\ leaf.contents.value > MaxInteger \div 2

\* What begins and ends with a quotation mark is a string; a part of a string
\* is not the name of anything.
ReadLeaf(text) ==
    LET last == text[Len(text)]
    IN  IF /\ \A i \in 1..Len(text) : text[i].token = "word" /\ IsString(text[i].leaf)
           /\ text[1].piece = 1 /\ last.piece = Pieces(last.leaf)
        THEN Leaf("Constant", String([i \in 1..Len(text) |->
                                          text[i].leaf.contents.value[text[i].piece]]))
        ELSE IF \/ Len(text) > 1
                \/ IsString(text[1].leaf) \/ TooLarge(text[1].leaf)
             THEN Bad
             ELSE text[1].leaf

\* The first argument ends at the first blank outside of brackets.
Brackets(text, bracket, n) == Cardinality({i \in 1..n : text[i] = bracket})
Balanced(text) ==
    {n \in 1..Len(text) : Brackets(text, Open, n) = Brackets(text, Close, n)}
FirstArgument(text) == CHOOSE n \in Balanced(text) : \A m \in Balanced(text) : n <= m

\* (A slip: the arguments are read as deep as the expression itself.)
RECURSIVE ReadText_Depth(_, _)
ReadText_Depth(text, depth) ==
    IF depth = 0 \/ text = <<>> THEN Missing
    ELSE IF text[1] = Open /\ text[Len(text)] = Close
         THEN LET op == text[2].op
                  args == SubSeq(text, 3, Len(text) - 1)
                  n == FirstArgument(args)
              IN  IF op \in UnaryOps THEN Unary(op, ReadText_Depth(args, depth))
                  ELSE Binary(op, ReadText_Depth(SubSeq(args, 1, n), depth),
                              ReadText_Depth(SubSeq(args, n + 1, Len(args)), depth))
         ELSE ReadLeaf(text)

\* Below the greatest depth everything is missing.
RECURSIVE ReadText(_, _)
ReadText(text, depth) ==
    IF depth = 0 \/ text = <<>> THEN Missing
    ELSE IF text[1] = Open /\ text[Len(text)] = Close
         THEN LET op == text[2].op
                  args == SubSeq(text, 3, Len(text) - 1)
                  n == FirstArgument(args)
                  a == ReadText(SubSeq(args, 1, n), depth - 1)
                  b == ReadText(SubSeq(args, n + 1, Len(args)), depth - 1)
              IN  IF op \in UnaryOps
                  THEN LET arg == ReadText(args, depth - 1)
                       IN  IF arg = Bad THEN Bad ELSE Unary(op, arg)
                  ELSE IF Balanced(args) = {} \/ n = Len(args) THEN Missing
                  ELSE IF a = Bad \/ b = Bad THEN Bad
                  ELSE Binary(op, a, b)
         ELSE ReadLeaf(text)

-----------------------------------------------------------------------------
(***************************************************************************)
(* What the text of an expression is worth.                                *)
(***************************************************************************)
RECURSIVE Depth(_)
Depth(e) ==
    IF e.op \in LeafOps THEN 1
    ELSE IF e.op \in UnaryOps THEN 1 + Depth(e.arg)
    ELSE 1 + (IF Depth(e.a) > Depth(e.b) THEN Depth(e.a) ELSE Depth(e.b))

RECURSIVE Untyped(_)
Untyped(e) ==
    IF e.op \in LeafOps THEN Printed(e)
    ELSE IF e.op \in UnaryOps THEN Unary(e.op, Untyped(e.arg))
    ELSE Binary(e.op, Untyped(e.a), Untyped(e.b))

RECURSIVE NothingMissing(_)
NothingMissing(e) ==
    /\ e # Missing
    /\ e.op \in UnaryOps => NothingMissing(e.arg)
    /\ e.op \in BinaryOps => NothingMissing(e.a) /\ NothingMissing(e.b)

\* No number is too large, and no string with a blank is a first argument.
RECURSIVE Expressible(_)
Expressible(e) ==
    IF e.op \in LeafOps THEN ~TooLarge(e)
    ELSE IF e.op \in UnaryOps THEN Expressible(e.arg)
    ELSE /\ Expressible(e.a) /\ Expressible(e.b)
         /\ IsString(e.a) => Pieces(e.a) = 1
=============================================================================
