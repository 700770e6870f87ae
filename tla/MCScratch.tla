----------------------------- MODULE MCScratch -----------------------------
(* Small instances of ScratchCleanup. *)
EXTENDS ScratchCleanup, TLC

CONSTANTS a, b

Cadence == "full" :> 2 @@ "regenerable" :> 1

=============================================================================
