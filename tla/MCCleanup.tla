----------------------------- MODULE MCCleanup -----------------------------
(***************************************************************************)
(* Instances of the cleanup engine for TLC.                                *)
(***************************************************************************)
EXTENDS CleanupEngine, TLC

CONSTANTS s1, a1, a2, pl1, pl2, o1, o2, o3

\* Two plans, one after the other, target the same path.
OnePath  == [a \in Action |-> s1]
TwoPlans == [a \in Action |-> IF a = a1 THEN pl1 ELSE pl2]

\* One plan, one action.
OnePlan  == [a \in Action |-> pl1]

\* The inode of o1 is reused by o2; o3 has one of its own.
ReusedInode == [o \in Obj |-> IF o = o3 THEN 2 ELSE 1]

\* Processes are interchangeable.
Procs == Permutations(Proc)

=============================================================================
