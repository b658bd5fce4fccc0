-------------------------- MODULE MCPendingCommands --------------------------
(* The commands of one client alone, for TLC.                              *)
EXTENDS PendingCommands
=============================================================================
