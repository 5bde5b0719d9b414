---------------------------- MODULE MCSubagents ----------------------------
(* Three children for two places; a client runs a turn of its own on the    *)
(* thread of one.                                                           *)
EXTENDS Subagents

CONSTANTS c1, c2, c3
====
