------------------------------- MODULE MCWatch -------------------------------
(***************************************************************************)
(* Instances of the watcher for TLC.                                       *)
(***************************************************************************)
EXTENDS Watch

CONSTANTS a, b, q

=============================================================================
