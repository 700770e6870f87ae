----------------------------- MODULE MCAdvisory -----------------------------
(***************************************************************************)
(* Instances of the daily advisory for TLC.                                *)
(***************************************************************************)
EXTENDS DailyAdvisory, TLC

CONSTANTS p1, p2

Dims == {"attempts", "entries"}

Request(n) == [k \in Dims |-> IF k = "attempts" THEN 1 ELSE n]

\* Three attempts or two offered entries.
SmallCap == [k \in Dims |-> IF k = "attempts" THEN 3 ELSE 2]

\* Two requests of one entry: a retry exhausts the entries.
Pair == {<<Request(1), Request(1)>>}

Launches == Permutations(Run)

=============================================================================
