---------------------------- MODULE McpServerMC ----------------------------
(***************************************************************************)
(* A small MCP server for TLC.                                             *)
(***************************************************************************)
EXTENDS McpServer, SampleCommands

MCMcpCommands == {KeyfobTx, TwoSweeps}
=============================================================================
