---------------------------- MODULE CrashLoop ----------------------------
(* The crash-loop guard of BotSupervisor.ensureRestart, told by counting    *)
(* the ticks that find a bot dead.                                          *)
EXTENDS BotSupervisor

VARIABLE deadTicks  \* history: straight ticks that found each bot dead, since
                    \* it was seen alive or started by the user

Looked(t, b) ==
    /\ job[t].op = "ensure" /\ job[t].pc = "loop"
    /\ b \in job[t].todo /\ b \notin job'[t].todo
StartedByUser(b) ==
    \E t \in Commanders : job[t].pc = "write" /\ job[t].bot = b
                            /\ job'[t].pc = "loop"

Counted(b) ==
    IF deaths' # deaths \/ StartedByUser(b) THEN 0
    ELSE IF \E t \in Ensurers : Looked(t, b)
           THEN IF IsRunning(b) THEN 0 ELSE Streak(deadTicks[b])
           ELSE deadTicks[b]

GuardInit == Init /\ deadTicks = [b \in Bots |-> 0]
GuardNext == Next /\ deadTicks' = [b \in Bots |-> Counted(b)]
GuardSpec == GuardInit /\ [][GuardNext]_<<vars, deadTicks>>

(* "A bot found dead on three straight ticks is left down" until a manual   *)
(* start (comment of ensureRestart): no thread of the watchdog spawns a bot *)
(* that more than three straight ticks have found dead.                     *)
CrashLoopGuarded ==
    [][\A t \in Ensurers, p \in Pids :
         Spawn(t, p) => deadTicks[job[t].bot] <= 3]_<<vars, deadTicks>>
====
