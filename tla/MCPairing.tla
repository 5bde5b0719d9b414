---------------------------- MODULE MCPairing ----------------------------
(* Pairing with an app on one connection and another client on two, with    *)
(* room for an owner and one paired agent. The two connections of the same  *)
(* client are interchangeable.                                              *)
EXTENDS Pairing, TLC

CONSTANTS app, other, s1, s2, s3

MCSockClient == [s \in {s1, s2, s3} |-> IF s = s1 THEN app ELSE other]
MCSymmetry == Permutations({s2, s3})
====
