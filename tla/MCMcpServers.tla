----------------------------- MODULE MCMcpServers -----------------------------
(* The command of the first registration and its tools are fixed, by symmetry; *)
(* a registration leaves the switch alone.                                     *)
EXTENDS McpServers

CONSTANTS npx, uvx, readOnly, readWrite

Begin == changes = 0 => row.server.config = npx /\ offers = [config \in Config |-> readOnly]
Bound == row'.server # row.server => row'.enabled = row.enabled
===============================================================================
