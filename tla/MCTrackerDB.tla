----------------------------- MODULE MCTrackerDB -----------------------------
(***************************************************************************)
(* Instances of TrackerDB for TLC.                                         *)
(***************************************************************************)
EXTENDS TrackerDB, TLC

=============================================================================
