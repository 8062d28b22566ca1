----------------------------- MODULE MCMcpClient -----------------------------
(***************************************************************************)
(* Instances of McpClient for TLC: the connecting thread and two more.     *)
(***************************************************************************)
EXTENDS McpClient

Threads == 1..3
=============================================================================
