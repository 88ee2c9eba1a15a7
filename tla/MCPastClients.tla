---------------------------- MODULE MCPastClients ----------------------------
(***************************************************************************)
(* Instances of PastClients for TLC.                                       *)
(***************************************************************************)
EXTENDS PastClients, TLC

=============================================================================
