---------------------------- MODULE MCMcpManager ----------------------------
(* Small instances of McpManager for TLC. *)
EXTENDS McpManager
=============================================================================
