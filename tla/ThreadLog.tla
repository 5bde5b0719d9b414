---------------------------- MODULE ThreadLog ----------------------------
(* What the per-thread lock of agent/serve.py is for (comment "Fix #8"):    *)
(* on each thread turns are active one at a time, only the active turn      *)
(* saves, it saves at most once, and what was saved is never lost.          *)
CONSTANTS Threads, Turns, None

VARIABLES
    active,  \* the turn active on each thread, or None
    saved    \* the turns each thread's history holds

Init == /\ active = [t \in Threads |-> None]
        /\ saved = [t \in Threads |-> {}]

Begin(t, r) ==
    /\ active[t] = None /\ r \notin saved[t]
    /\ active' = [active EXCEPT ![t] = r]
    /\ UNCHANGED saved

(* The active turn joins the history; the thread may be free in the same    *)
(* step, when nobody is listening to the turn's end.                        *)
Save(t) ==
    /\ active[t] \in Turns \ saved[t]
    /\ saved' = [saved EXCEPT ![t] = @ \cup {active[t]}]
    /\ active' \in {active, [active EXCEPT ![t] = None]}

(* A turn ends, saved or not.                                               *)
End(t) ==
    /\ active[t] # None
    /\ active' = [active EXCEPT ![t] = None]
    /\ UNCHANGED saved

Next == \E t \in Threads : (\E r \in Turns : Begin(t, r)) \/ Save(t) \/ End(t)

vars == <<active, saved>>
Spec == Init /\ [][Next]_vars
====
