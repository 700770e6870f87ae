----------------------------- MODULE MCCapacity -----------------------------
(***************************************************************************)
(* Instances of the capacity model for TLC.                                *)
(***************************************************************************)
EXTENDS Capacity, TLC

CONSTANTS c1, c2, s1, t1, d1, d2, w1

\* Thresholds of the target: reserve 1, warning below 2, recovery at 3.
LowOrEnough  == {2, 3}
One(n)       == [t \in Target |-> n]
ReserveIsOne == One(1)
GoalIsTwo    == One(2)
MarginIsOne  == One(1)

AllHome == [s \in Store |-> d1]

Passes == Permutations(Cycle)

=============================================================================
