------------------------------- MODULE Weights -------------------------------
(***************************************************************************)
(* Loads and weights of core/weights.hh: unsigned integers that stay at    *)
(* their bounds instead of wrapping around, and pairs of them.  The first  *)
(* of a pair counts kernels that take whole nodes, the second counts the   *)
(* weights of the other kernels.                                           *)
(***************************************************************************)
EXTENDS Naturals, Sequences

CONSTANT MaxWeight       \* the largest sys::u32, and the weight of a whole node

ASSUME WeightsAssumption == MaxWeight \in Nat \ {0}

Weight == 0..MaxWeight
Load == Weight \X Weight
NoLoad == <<0, 0>>

\* The comparisons are arranged so that nothing overflows in between.
Add(a, b) == IF a < MaxWeight - b THEN a + b ELSE MaxWeight

\* (A slip: the difference of unsigned integers wraps around.)
Subtract_Wraps(a, b) == IF a >= b THEN a - b ELSE MaxWeight + 1 - (b - a)

Subtract(a, b) == IF a > b THEN a - b ELSE 0

AddLoads(x, y) == <<Add(x[1], y[1]), Add(x[2], y[2])>>
SubtractLoads(x, y) == <<Subtract(x[1], y[1]), Subtract(x[2], y[2])>>

\* Division by zero gives the largest weight, the remainder is then zero.
Divide(a, b) == IF b = 0 THEN MaxWeight ELSE a \div b
Modulo(a, b) == IF b = 0 THEN 0 ELSE a % b

\* kernel::weights()
Weights(weight) == IF weight = MaxWeight THEN <<1, 0>> ELSE <<0, weight>>

\* Arrays are compared by the first element they differ in.
Less(x, y) ==
    \E i \in DOMAIN x : x[i] < y[i] /\ \A j \in 1..(i - 1) : x[j] = y[j]
LessOrEqual(x, y) == ~Less(y, x)

\* A load relative to a number of threads, with the remainders: a neighbour
\* divides both elements by the number of threads behind it, this node only
\* the second.
AtLeastOne(n) == IF n = 0 THEN 1 ELSE n
RelativeLoad(load, threads) ==
    LET n == AtLeastOne(threads)
    IN  <<Divide(load[1], n), Modulo(load[1], n), Divide(load[2], n), Modulo(load[2], n)>>
LocalRelativeLoad(load, threads) ==
    LET n == AtLeastOne(threads)
    IN  <<load[1], 0, Divide(load[2], n), Modulo(load[2], n)>>
=============================================================================
