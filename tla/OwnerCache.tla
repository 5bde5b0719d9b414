---------------------------- MODULE OwnerCache ----------------------------
(* _thread_agents of agent/serve.py beside the threads it caches the owners *)
(* of. A broadcast about a thread (an event of a turn, a new name, a        *)
(* compaction) looks its owner up once, and remembers an owner it found.    *)
EXTENDS ThreadStore

VARIABLE cache   \* _thread_agents

CacheInit == Init /\ cache = [t \in Threads |-> NoAgent]

Broadcast(t) ==
    /\ cache[t] = NoAgent /\ live[t] # NoFile
    /\ cache' = [cache EXCEPT ![t] = live[t].agent]
    /\ UNCHANGED vars

CacheNext ==
    \/ Step /\ UNCHANGED cache
    \/ \E t \in Threads : Broadcast(t)
    \/ Restart /\ cache' = [t \in Threads |-> NoAgent]

CacheSpec == CacheInit /\ [][CacheNext]_<<vars, cache>>

(* "Owners are stamped at creation and migration runs at boot before        *)
(* clients connect, so entries never go stale within a process lifetime"    *)
(* (agent/serve.py, above _thread_agents): events of a thread go to the     *)
(* agent its file names.                                                    *)
OwnerCacheFresh ==
    \A t \in Threads :
       cache[t] # NoAgent /\ live[t] # NoFile => cache[t] = live[t].agent
====
