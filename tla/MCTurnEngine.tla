-------------------------- MODULE MCTurnEngine --------------------------
(* TurnEngine on a small daemon: the owner and one capped agent, each with  *)
(* its own thread file or none.                                             *)
EXTENDS TurnEngine, TLC

CONSTANTS owner, ag, t1, t2, r1, r2, r3, so, sa, m1

MCCap == [a \in {owner, ag} |-> 1]
MCSocketAgent == (so :> owner) @@ (sa :> ag)
(* t1 belongs to the agent since boot; t2 has no file yet.                  *)
MCStored == (t1 :> ag) @@ (t2 :> NoFile)
MCStoredOne == (t1 :> ag)
Symmetry == Permutations(Requests)
====
