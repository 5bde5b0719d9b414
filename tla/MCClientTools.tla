---------------------------- MODULE MCClientTools ----------------------------
(* One tool name, which either of two agents may register; the first has    *)
(* two connections.                                                         *)
EXTENDS ClientTools

CONSTANTS a, b, s1, s2, s3

MCSockAgent == [s \in {s1, s2, s3} |-> IF s = s3 THEN b ELSE a]
====
