---------------------------- MODULE MCThreadStore ----------------------------
(* Two threads and two agents.                                              *)
EXTENDS ThreadStore, Naturals, TLC

Symmetry == Permutations(Threads) \cup Permutations(Agents)

(* Bound: a thread of which nothing is claimed any more is not followed.    *)
Followed == tangled \cup raced = {}

(* Bound: one thread at a time has memories, live or archived; a fork that  *)
(* copies them to a second one is checked and not followed.                 *)
OneMemory ==
    Cardinality({x \in Threads : notes[x] # NoAgent \/ oldNotes[x] # NoAgent}) < 2
====
