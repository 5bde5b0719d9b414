---------------------------- MODULE MCMcpClient ----------------------------
(* Two servers that mcp.json may name; a boot and two runs of either kind.  *)
EXTENDS McpClient, TLC

CONSTANTS m, n, r1, r2, r3

MCSymmetry == Permutations({r2, r3})
====
