----------------------------- MODULE MCMcpClient -----------------------------
(* Two calls, so that one can give up while the other takes its place, on    *)
(* both transports.                                                         *)
EXTENDS McpClient

CONSTANTS c1, c2
=============================================================================
