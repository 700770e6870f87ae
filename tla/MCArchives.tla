----------------------------- MODULE MCArchives -----------------------------
(***************************************************************************)
(* Instances of the category archives for TLC.                             *)
(***************************************************************************)
EXTENDS CategoryArchives

CONSTANTS x1, x2, c1, r1

\* Two versions of one product.
Versions == [z \in Path |-> IF z = x1 THEN 1 ELSE 2]
\* The policy as configured, and one with a KEEP record for x1.
OpenOrKept == {[active |-> TRUE, keep |-> {}], [active |-> TRUE, keep |-> {x1}]}

=============================================================================
