--------------------------- MODULE MCRoundLoop ---------------------------
(* Calls of two tools, of which one needs approval; a round asks for        *)
(* nothing, for one call, or for both.                                      *)
EXTENDS RoundLoop, TLC

CONSTANTS run, write, shell, fs

MCToolOf == run :> shell @@ write :> fs
MCReplies == {<<>>, <<run>>, <<write, run>>}

(* An agent's turn with a budget; a read-only turn of a message "run ...".  *)
MCParams == {[max |-> 2, is |-> {"limited"}], [max |-> 5, is |-> {"readonly", "run"}]}
====
