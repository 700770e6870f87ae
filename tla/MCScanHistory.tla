---------------------------- MODULE MCScanHistory ----------------------------
(***************************************************************************)
(* Instances of the scan history for TLC.                                  *)
(***************************************************************************)
EXTENDS ScanHistory, TLC

CONSTANTS watch, hand

=============================================================================
