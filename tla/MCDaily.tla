------------------------------ MODULE MCDaily ------------------------------
(***************************************************************************)
(* Instances of the daily cycle for TLC.                                   *)
(***************************************************************************)
EXTENDS DailyCycle

CONSTANTS c, d, w, u

Procs == {c, d, w}
\* The command is of a newer release.
Releases == [p \in Procs |-> IF p = d THEN 3 ELSE 2]
\* Nothing enabled, and everything.
Policies == {{}, Steps \cup {"delete", "category"}}

=============================================================================
