---------------------------- MODULE MCApprovals ----------------------------
(* Approvals with a turn of the owner and one of an agent, and a spare      *)
(* connection for the agent to come back on.                                *)
EXTENDS Approvals, TLC

CONSTANTS owner, ag, to, ta, so, sa, sb

MCSocketAgent == [s \in Socks |-> IF s = so THEN owner ELSE ag]
MCTurnAgent == [t \in Threads |-> IF t = to THEN owner ELSE ag]

Symmetry == Permutations(Cards)
====
