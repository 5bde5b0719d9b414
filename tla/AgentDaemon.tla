---------------------------- MODULE AgentDaemon ----------------------------
(* The app's hold on the agent daemon (agent/AgentDaemon.kt): ensure, stop  *)
(* and restart on threads of the service, the control surface and terminal  *)
(* starts, one of the last also refreshing the extracted userland           *)
(* (userland/Userland.kt, ensure). A daemon outlives the app, and holds the *)
(* port with the code it was started from.                                  *)
(*                                                                          *)
(* Versions are numbers; MaxVersion bounds the updates of the app.          *)
EXTENDS Integers, FiniteSets

CONSTANTS
    Threads, NoThread,
    Pids, NoPid,
    MaxVersion

ASSUME NoPidAssumption == NoThread \notin Threads /\ NoPid \notin Pids
ASSUME BoundAssumption == MaxVersion \in Nat

VARIABLES
    proc,      \* each pid: its state, up when it has the port, and the version
               \* of the userland it was started from
    pidFile,   \* daemon.pid
    apk,       \* VERSION of the installed app
    marker,    \* .version of the userland; -1 while it is missing
    lock,      \* the thread inside Userland.ensure, @Synchronized
    starting,  \* AgentDaemon.starting
    job,       \* what each thread is doing
    settled,   \* history: an ensure has returned on a daemon that answers
    missed,    \* history: the userland was refreshed under a live daemon by
               \* a call that does not look at it, the look was cut short, or
               \* the daemon survived its kill
    raced      \* history: a stop overlapped a spawn, a pid was lost, or a
               \* daemon survived the kill before its file was given up

procs == <<proc, pidFile>>
userland == <<apk, marker, lock>>
histories == <<settled, missed, raced>>
daemonVars == <<procs, userland, starting, job, histories>>

Versions == 0..MaxVersion
NoVersion == -1
Calls == {"refresh", "extract", "terminal"}  \* in Userland.ensure
Flagged == {"extract", "recheck", "kill stale", "spawn", "record", "wait"}
Procs == [state : {"none", "booting", "up"}, code : Versions]
None == [state |-> "none", code |-> 0]
Jobs == [op : {"none", "service", "restart", "stop", "pty"},
         pc : Calls \cup Flagged \cup
                {"idle", "probe", "compare", "kill old", "flag", "kill", "delete"},
         before : Versions \cup {NoVersion}, pid : Pids \cup {NoPid}]
Idle == [op |-> "none", pc |-> "idle", before |-> NoVersion, pid |-> NoPid]

(* starting is set exactly while a thread is between its two sides, and one *)
(* thread at most is; the userland has a version unless it is being made.   *)
DaemonTypeOK ==
    /\ proc \in [Pids -> Procs]
    /\ pidFile \in Pids \cup {NoPid}
    /\ apk \in Versions /\ marker \in Versions \cup {NoVersion}
    /\ lock \in Threads \cup {NoThread}
    /\ starting \in BOOLEAN
    /\ job \in [Threads -> Jobs]
    /\ settled \in BOOLEAN /\ missed \in BOOLEAN /\ raced \in BOOLEAN
    /\ starting <=> \E t \in Threads : job[t].pc \in Flagged
    /\ \A t, u \in Threads :
         job[t].pc \in Flagged /\ job[u].pc \in Flagged => t = u
    /\ lock # NoThread => job[lock].pc \in Calls /\ marker = NoVersion

DaemonInit ==
    /\ proc = [p \in Pids |-> None]
    /\ pidFile = NoPid
    /\ apk = 0 /\ marker = NoVersion /\ lock = NoThread
    /\ starting = FALSE
    /\ job = [t \in Threads |-> Idle]
    /\ settled = FALSE /\ missed = FALSE /\ raced = FALSE

IsUp == \E p \in Pids : proc[p].state = "up"
LivePids == {p \in Pids : proc[p] # None}

At(t, pc) == job[t].pc = pc
Goto(t, pc) == job' = [job EXCEPT ![t].pc = pc]
Return(t) == job' = [job EXCEPT ![t] = Idle]
(* ensure returns inside its try: the finally clears the flag.              *)
Leave(t) == Return(t) /\ starting' = FALSE

(* killPidIfAgent of the pid in the file: the userland's busybox is run to  *)
(* kill it, and nobody looks whether it could. It cannot while it is being  *)
(* extracted, or where it does not find its library.                        *)
Killed(works) ==
    IF works /\ pidFile \in LivePids THEN [proc EXCEPT ![pidFile] = None] ELSE proc
Survives(works) == ~works /\ pidFile \in LivePids
----
(* ensure *)

Begin(t, op) ==
    /\ job[t] = Idle
    /\ job' = [job EXCEPT ![t].op = op,
                 ![t].pc = CASE op = "service" -> "probe"
                             [] op = "pty" -> "terminal"
                             [] OTHER -> "kill"]
    /\ UNCHANGED <<procs, userland, starting, histories>>

Probe(t) ==
    /\ At(t, "probe")
    /\ job' = IF IsUp THEN [job EXCEPT ![t].pc = "refresh", ![t].before = marker]
                      ELSE [job EXCEPT ![t].pc = "flag"]
    /\ UNCHANGED <<procs, userland, starting, histories>>

(* Mutant: a daemon that answers is enough.                                 *)
CompareNothing(t) ==
    /\ At(t, "compare")
    /\ Return(t) /\ settled' = TRUE
    /\ UNCHANGED <<procs, userland, starting, missed, raced>>

(* The marker was read before the call that may have refreshed it.          *)
Compare(t) ==
    /\ At(t, "compare")
    /\ IF marker = job[t].before
         THEN Return(t) /\ settled' = TRUE
         ELSE Goto(t, "kill old") /\ UNCHANGED settled
    /\ UNCHANGED <<procs, userland, starting, missed, raced>>

(* Another start is under way: return without waiting for it.               *)
FlagTaken(t) ==
    /\ At(t, "flag") /\ starting
    /\ Return(t)
    /\ UNCHANGED <<procs, userland, starting, histories>>

(* Mutant: the flag is set without a look at it.                            *)
FlagAlways(t) ==
    /\ At(t, "flag")
    /\ starting' = TRUE
    /\ Goto(t, "extract")
    /\ UNCHANGED <<procs, userland, histories>>

FlagFree(t) ==
    /\ At(t, "flag") /\ ~starting
    /\ starting' = TRUE
    /\ Goto(t, "extract")
    /\ UNCHANGED <<procs, userland, histories>>

Recheck(t) ==
    /\ At(t, "recheck")
    /\ IF IsUp \/ marker = NoVersion
         THEN Leave(t) /\ settled' = (settled \/ IsUp)
         ELSE Goto(t, "kill stale") /\ UNCHANGED <<starting, settled>>
    /\ UNCHANGED <<procs, userland, missed, raced>>

Unsafe(t, pcs) == \E u \in Threads \ {t} : job[u].pc \in pcs

(* Mutant: nothing is killed before the spawn.                              *)
KillStaleNot(t, works) ==
    /\ job[t].pc \in {"kill old", "kill stale"}
    /\ Goto(t, IF At(t, "kill old") THEN "flag" ELSE "spawn")
    /\ raced' = (raced \/ (At(t, "kill stale") /\ Unsafe(t, {"delete"})))
    /\ UNCHANGED <<procs, userland, starting, settled, missed>>

KillStale(t, works) ==
    /\ job[t].pc \in {"kill old", "kill stale"}
    /\ proc' = Killed(works)
    /\ Goto(t, IF At(t, "kill old") THEN "flag" ELSE "spawn")
    /\ raced' = (raced \/ (At(t, "kill stale") /\
                              (Unsafe(t, {"delete"}) \/ Survives(works))))
    /\ missed' = (missed \/ (At(t, "kill old") /\ Survives(works)))
    /\ UNCHANGED <<pidFile, userland, starting, settled>>

Spawn(t, p) ==
    /\ At(t, "spawn") /\ proc[p] = None
    /\ proc' = [proc EXCEPT ![p] = [state |-> "booting", code |-> marker]]
    /\ job' = [job EXCEPT ![t].pc = "record", ![t].pid = p]
    /\ UNCHANGED <<pidFile, userland, starting, histories>>

SpawnFails(t) ==
    /\ At(t, "spawn")
    /\ Leave(t)
    /\ UNCHANGED <<procs, userland, histories>>

Record(t) ==
    /\ At(t, "record")
    /\ pidFile' = job[t].pid
    /\ Goto(t, "wait")
    /\ UNCHANGED <<proc, userland, starting, histories>>

(* No pid could be read off the process: its file keeps the old one.        *)
Unrecorded(t) ==
    /\ At(t, "record")
    /\ Goto(t, "wait")
    /\ raced' = TRUE
    /\ UNCHANGED <<procs, userland, starting, settled, missed>>

(* waitUp: it answers within ten seconds, or not.                           *)
WaitUp(t) ==
    /\ At(t, "wait") /\ IsUp
    /\ Leave(t) /\ settled' = TRUE
    /\ UNCHANGED <<procs, userland, missed, raced>>

WaitEnds(t) ==
    /\ At(t, "wait") /\ ~IsUp
    /\ Leave(t)
    /\ UNCHANGED <<procs, userland, histories>>
----
(* Userland.ensure: the whole body under one lock, the marker stamped last. *)

AfterCall(t) ==
    IF At(t, "refresh") THEN Goto(t, "compare")
    ELSE IF At(t, "extract") THEN Goto(t, "recheck")
    ELSE Return(t)

Cached(t) ==
    /\ job[t].pc \in Calls /\ lock = NoThread /\ marker = apk
    /\ AfterCall(t)
    /\ UNCHANGED <<procs, userland, starting, histories>>

Extract(t) ==
    /\ job[t].pc \in Calls /\ lock = NoThread /\ marker # apk
    /\ lock' = t /\ marker' = NoVersion
    /\ UNCHANGED <<procs, apk, starting, job, histories>>

Extracted(t) ==
    /\ lock = t
    /\ lock' = NoThread /\ marker' = apk
    /\ AfterCall(t)
    /\ missed' = (missed \/ (~At(t, "refresh") /\ LivePids # {}))
    /\ UNCHANGED <<procs, apk, starting, settled, raced>>

(* Mutant: the flag is not cleared when the extraction throws.              *)
ExtractFailsFlagged(t) ==
    /\ lock = t /\ ~(At(t, "refresh") /\ job[t].op = "service")
    /\ lock' = NoThread
    /\ Return(t) /\ UNCHANGED starting
    /\ UNCHANGED <<procs, apk, marker, histories>>

(* It throws: into the try of ensure, the control surface's or the Pty's.   *)
ExtractFails(t) ==
    /\ lock = t /\ ~(At(t, "refresh") /\ job[t].op = "service")
    /\ lock' = NoThread
    /\ IF At(t, "extract") THEN Leave(t) ELSE Return(t) /\ UNCHANGED starting
    /\ UNCHANGED <<procs, apk, marker, histories>>
----
(* stop, the first half of restart: verified kill, then the file, whether   *)
(* or not the daemon is dead.                                               *)

Kill(t, works) ==
    /\ At(t, "kill")
    /\ proc' = Killed(works)
    /\ Goto(t, "delete")
    /\ raced' = (raced \/ Unsafe(t, {"spawn", "record"}) \/ Survives(works))
    /\ UNCHANGED <<pidFile, userland, starting, settled, missed>>

Delete(t) ==
    /\ At(t, "delete")
    /\ pidFile' = NoPid
    /\ IF job[t].op = "restart" THEN Goto(t, "probe") ELSE Return(t)
    /\ UNCHANGED <<proc, userland, starting, histories>>
----
(* Daemons and the phone *)

Listen(p) ==
    /\ proc[p].state = "booting" /\ ~IsUp
    /\ proc' = [proc EXCEPT ![p].state = "up"]
    /\ UNCHANGED <<pidFile, userland, starting, job, histories>>

(* Killed by the system, crashed, or the port was taken.                    *)
Die(p) ==
    /\ p \in LivePids
    /\ proc' = [proc EXCEPT ![p] = None]
    /\ UNCHANGED <<pidFile, userland, starting, job, histories>>

(* A thread that found the userland refreshed and has not killed yet.       *)
Pending(t) ==
    At(t, "kill old") \/ (At(t, "compare") /\ job[t].before # marker)

Forget ==
    /\ job' = [t \in Threads |-> Idle]
    /\ starting' = FALSE /\ lock' = NoThread

(* The app's memory is lost and its threads with it, daemons stay.          *)
AppGone ==
    /\ Forget
    /\ missed' = (missed \/ \E t \in Threads : Pending(t))
    /\ raced' = (raced \/ \E t \in Threads : At(t, "record"))
    /\ UNCHANGED <<procs, marker>>

AppDies ==
    /\ AppGone
    /\ UNCHANGED <<apk, settled>>

Update ==
    /\ apk < MaxVersion /\ apk' = apk + 1
    /\ AppGone
    /\ settled' = FALSE

(* ensure's first call of Userland.ensure is outside its try: on a service  *)
(* thread the exception has no handler, and the app dies of it.             *)
ExtractKills(t) ==
    /\ lock = t /\ At(t, "refresh") /\ job[t].op = "service"
    /\ AppGone
    /\ UNCHANGED <<apk, settled>>

Reboot ==
    /\ Forget
    /\ proc' = [p \in Pids |-> None]
    /\ missed' = FALSE /\ raced' = FALSE
    /\ UNCHANGED <<pidFile, apk, marker, settled>>

Ensure(t) ==
    \/ Probe(t) \/ Compare(t) \/ FlagTaken(t) \/ FlagFree(t) \/ Recheck(t)
    \/ SpawnFails(t) \/ Record(t) \/ Unrecorded(t) \/ WaitUp(t) \/ WaitEnds(t)
    \/ \E works \in BOOLEAN : KillStale(t, works)
    \/ \E p \in Pids : Spawn(t, p)
Call(t) ==
    Cached(t) \/ Extract(t) \/ Extracted(t) \/ ExtractFails(t) \/ ExtractKills(t)
Stop(t) == Delete(t) \/ \E works \in BOOLEAN : Kill(t, works)
Step(t) == Ensure(t) \/ Call(t) \/ Stop(t)

DaemonNext ==
    \/ \E t \in Threads : Step(t)
    \/ \E t \in Threads, op \in {"service", "restart", "stop", "pty"} : Begin(t, op)
    \/ \E p \in Pids : Listen(p) \/ Die(p)
    \/ AppDies \/ Update \/ Reboot

DaemonSpec == DaemonInit /\ [][DaemonNext]_daemonVars

(* Threads run, and a thread that waits for the userland's lock gets it.    *)
FairDaemonSpec ==
    /\ DaemonSpec
    /\ \A t \in Threads : WF_daemonVars(Step(t)) /\ SF_daemonVars(Call(t))
----
(* The daemon that lives is the one the pid file names, or is about to:     *)
(* stop and killStale reach it and no second one is spawned beside it, for  *)
(* every start that overlaps another (starting), a slow boot, a death of    *)
(* the app, a kill that fails where the file is kept. A stop that overlaps  *)
(* the spawn breaks it, as neither locks; and so does a kill that fails     *)
(* before its file is deleted or written over, as nobody looks.             *)
DaemonKnown ==
    raced \/ \A p \in LivePids :
               \/ pidFile = p
               \/ \E t \in Threads : At(t, "record") /\ job[t].pid = p

Fresh == \A p \in Pids : proc[p].state = "up" => proc[p].code = apk

(* Once an ensure has returned on an answering daemon, what answers runs    *)
(* the installed version, if ensure itself refreshed the userland and its   *)
(* kill of the old one worked.                                              *)
FreshUnlessMissed ==
    settled /\ ~missed /\ ~raced /\ (\A t \in Threads : ~Pending(t)) => Fresh

(* "When the version marker changed under us, the old process is killed and *)
(* a fresh one spawned even though the port answers" (comment of ensure):   *)
(* the same, whoever refreshed the userland.                                *)
FreshOnceEnsured ==
    settled /\ ~raced /\ (\A t \in Threads : ~Pending(t)) => Fresh

(* "Stop the daemon started by [ensure]" (comment of stop): the daemon that *)
(* the file names is dead after the kill.                                   *)
StopKills ==
    [][\A t \in Threads :
         At(t, "kill") /\ job'[t].pc = "delete" =>
           pidFile \notin LivePids']_daemonVars

(* The flag that keeps starts apart is never left set, whatever throws: a   *)
(* start that died with it would disable every later one.                   *)
StartingReleased == starting ~> ~starting
====
