---------------------------- MODULE MCMcpCalls ----------------------------
(* Instances of McpCalls for TLC.                                          *)
EXTENDS McpCalls

CONSTANTS r1, r2, n1, k1, k2, d1, d2
=============================================================================
