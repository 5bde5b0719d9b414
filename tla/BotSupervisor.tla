---------------------------- MODULE BotSupervisor ----------------------------
(* The trading bots' runtime in the Android app (agent/BotSupervisor.kt,    *)
(* driven by BotWatchdog.kt, TerminalService.kt and AgentControl.kt): pid   *)
(* files that survive everything, an autostart list in two files, and three *)
(* entry points that run on threads of their own with no lock.              *)
(*                                                                          *)
(* A process is known by what its command line shows: the runner of a bot,  *)
(* or a proot guest that is no bot (a terminal). Processes without proot    *)
(* are left out: every check of the code treats them as no process.         *)
EXTENDS Integers, FiniteSets

CONSTANTS
    Bots, Staged,          \* known bots, and those whose runner is installed
    Pids, NoPid, NoBot,
    Guest, NoProcess,      \* another proot guest, and a free pid
    Ensurers, Commanders,  \* threads of ensureRestart and of AgentControl
    MaxGuests, MaxDeaths   \* bounds: other guests at once, deaths of the app

Threads == Ensurers \cup Commanders

ASSUME ThreadsAssumption == Ensurers \cap Commanders = {}
ASSUME BoundsAssumption == MaxGuests \in Nat /\ MaxDeaths \in Nat
ASSUME BotsAssumption ==
    /\ Staged \subseteq Bots /\ IsFiniteSet(Pids)
    /\ NoBot \notin Bots /\ NoPid \notin Pids
    /\ Guest \notin Bots /\ NoProcess \notin Bots /\ Guest # NoProcess

VARIABLES
    proc,        \* what runs under each pid
    pidFile,     \* <bot>.pid
    canonical,   \* bots/bots.autostart
    legacy,      \* bots.autostart beside the bots directory
    deadStreak,  \* in the app's memory; 4 stands for every larger count
    armed,       \* the repeating alarm of BotWatchdog
    job,         \* what each thread is doing
    deaths,      \* deaths of the app and reboots so far
    intended,    \* history: the bots the user's commands have listed
    stopped,     \* history: unlisted bots whose last command was a stop
    raced        \* history: bots on which two operations overlapped, whose new
                 \* pid was lost between the spawn and its file, that survived
                 \* the kill of a stop, or that a failed save left listed

files == <<pidFile, canonical, legacy>>
history == <<intended, stopped, raced>>
vars == <<proc, files, deadStreak, armed, job, deaths, history>>

Ops == {"none", "ensure", "start", "start listed", "stop", "list"}
Jobs == [op : Ops,
         pc : {"idle", "loop", "check", "spawn", "write", "kill", "delete",
               "merge", "save"},
         todo : SUBSET Bots,   \* targets left, or the names to save
         names : SUBSET Bots,  \* targets the command named
         bot : Bots \cup {NoBot}, pid : Pids \cup {NoPid}]
Idle == [op |-> "none", pc |-> "idle", todo |-> {}, names |-> {},
         bot |-> NoBot, pid |-> NoPid]

(* Every thread's fields fit the place it has come to.                      *)
TypeOK ==
    /\ proc \in [Pids -> Bots \cup {Guest, NoProcess}]
    /\ pidFile \in [Bots -> Pids \cup {NoPid}]
    /\ canonical \subseteq Bots /\ legacy \subseteq Bots
    /\ deadStreak \in [Bots -> 0..4]
    /\ armed \in BOOLEAN
    /\ job \in [Threads -> Jobs]
    /\ deaths \in 0..MaxDeaths
    /\ intended \subseteq Bots /\ stopped \subseteq Bots /\ raced \subseteq Bots
    /\ \A t \in Threads :
         /\ job[t].pc \in {"check", "spawn", "write", "kill", "delete"}
              => job[t].bot \in Bots
         /\ job[t].pc \in {"write", "kill"} => job[t].pid \in Pids
         /\ t \in Ensurers => job[t].op \in {"none", "ensure"}
         /\ t \in Commanders => job[t].op # "ensure"

Init ==
    /\ proc = [p \in Pids |-> NoProcess]
    /\ pidFile = [b \in Bots |-> NoPid]
    /\ canonical \in SUBSET Bots /\ legacy \in SUBSET Bots
    /\ deadStreak = [b \in Bots |-> 0]
    /\ armed = FALSE
    /\ job = [t \in Threads |-> Idle]
    /\ deaths = 0
    /\ intended = canonical \cup legacy
    /\ stopped = {} /\ raced = {}

Copies(b) == {p \in Pids : proc[p] = b}
Autostart == canonical \cup legacy
ProotPids == {p \in Pids : proc[p] # NoProcess}

(* Mutant: like stop, isRunning is content with any proot under the pid.    *)
IsRunningProot(b) == pidFile[b] \in ProotPids

IsRunning(b) == pidFile[b] \in Copies(b)

(* A thread that has decided on bot b by what it read, and has yet to act.  *)
Holds(t, b) ==
    job[t].bot = b /\ job[t].pc \in {"spawn", "write", "kill", "delete"}
RacedBy(t, b) ==
    IF \E u \in Threads \ {t} : Holds(u, b) THEN raced \cup {b} ELSE raced
(* A thread that may still start b.                                         *)
MayStart(t, b) ==
    /\ job[t].op \in {"ensure", "start", "start listed"}
    /\ job[t].bot = b \/ b \in job[t].todo

Put(t, r) == [job EXCEPT ![t] = r]
Goto(t, pc, b) == Put(t, [job[t] EXCEPT !.pc = pc, !.bot = b])
Back(t) == Put(t, [job[t] EXCEPT !.pc = "loop", !.bot = NoBot, !.pid = NoPid])
Left(t, b) == job[t].todo \ {b}
----
(* ensureRestart: what the alarm's tick and every service start run. *)

EnsureRestart(t) ==
    /\ job[t] = Idle
    /\ job' = Put(t, [Idle EXCEPT !.op = "ensure", !.pc = "loop",
                                  !.todo = Autostart])
    /\ UNCHANGED <<proc, files, deadStreak, deaths, history>>

Tick(t) == armed /\ EnsureRestart(t) /\ UNCHANGED armed

ServiceStart(t) == EnsureRestart(t) /\ armed' = TRUE

ServiceStop ==
    /\ armed /\ armed' = FALSE
    /\ UNCHANGED <<proc, files, deadStreak, job, deaths, history>>

Streak(n) == IF n < 4 THEN n + 1 ELSE n

LookAlive(t, b) ==
    /\ job[t].op = "ensure" /\ job[t].pc = "loop" /\ b \in job[t].todo
    /\ IsRunning(b)
    /\ deadStreak' = [deadStreak EXCEPT ![b] = 0]
    /\ job' = Put(t, [job[t] EXCEPT !.todo = Left(t, b)])
    /\ UNCHANGED <<proc, files, armed, deaths, history>>

(* The fourth tick in a row that finds b dead leaves it down, if the streak *)
(* got that far: start clears it.                                           *)
LookDead(t, b) ==
    /\ job[t].op = "ensure" /\ job[t].pc = "loop" /\ b \in job[t].todo
    /\ ~IsRunning(b)
    /\ deadStreak' = [deadStreak EXCEPT ![b] = Streak(deadStreak[b])]
    /\ job' = IF deadStreak'[b] > 3
                THEN Put(t, [job[t] EXCEPT !.todo = Left(t, b)])
                ELSE Put(t, [job[t] EXCEPT !.todo = Left(t, b), !.pc = "check",
                                           !.bot = b])
    /\ UNCHANGED <<proc, files, armed, deaths, history>>
----
(* start: of one bot or of all, by a command or from ensureRestart. *)

Command(t, op, bs) ==
    /\ t \in Commanders /\ job[t] = Idle
    /\ job' = Put(t, [Idle EXCEPT !.op = op, !.todo = bs, !.names = bs,
                         !.pc = IF op = "list" THEN "save" ELSE "loop"])
    /\ UNCHANGED <<proc, files, deadStreak, armed, deaths, intended, raced>>

StartBots(t, bs, listed) ==
    /\ Command(t, IF listed THEN "start listed" ELSE "start", bs)
    /\ stopped' = stopped \ bs

Target(t, b) ==
    /\ job[t].op \in {"start", "start listed"} /\ job[t].pc = "loop"
    /\ b \in job[t].todo
    /\ job' = Put(t, [job[t] EXCEPT !.todo = Left(t, b), !.pc = "check", !.bot = b])
    /\ UNCHANGED <<proc, files, deadStreak, armed, deaths, history>>

(* Mutant: start does not ask whether the bot runs.                         *)
CheckNothing(t) ==
    LET b == job[t].bot IN
    /\ job[t].pc = "check"
    /\ job' = IF b \notin Staged THEN Back(t) ELSE Goto(t, "spawn", b)
    /\ raced' = IF b \notin Staged THEN raced ELSE RacedBy(t, b)
    /\ UNCHANGED <<proc, files, deadStreak, armed, deaths, intended, stopped>>

Check(t) ==
    LET b == job[t].bot
        skip == IsRunning(b) \/ b \notin Staged
    IN  /\ job[t].pc = "check"
        /\ job' = IF skip THEN Back(t) ELSE Goto(t, "spawn", b)
        /\ raced' = IF skip THEN raced ELSE RacedBy(t, b)
        /\ UNCHANGED <<proc, files, deadStreak, armed, deaths, intended, stopped>>

Spawn(t, p) ==
    /\ job[t].pc = "spawn" /\ proc[p] = NoProcess
    /\ proc' = [proc EXCEPT ![p] = job[t].bot]
    /\ job' = Put(t, [job[t] EXCEPT !.pc = "write", !.pid = p])
    /\ UNCHANGED <<files, deadStreak, armed, deaths, history>>

(* ProcessBuilder.start throws.                                             *)
SpawnFails(t) ==
    /\ job[t].pc = "spawn"
    /\ job' = Back(t)
    /\ UNCHANGED <<proc, files, deadStreak, armed, deaths, history>>

Write(t) ==
    LET b == job[t].bot IN
    /\ job[t].pc = "write"
    /\ pidFile' = [pidFile EXCEPT ![b] = job[t].pid]
    /\ deadStreak' = [deadStreak EXCEPT ![b] = 0]
    /\ job' = Back(t)
    /\ UNCHANGED <<proc, canonical, legacy, armed, deaths, history>>

(* No pid could be read off the process, or its file not written: the bot   *)
(* runs and nothing names it.                                               *)
Unrecorded(t) ==
    /\ job[t].pc = "write"
    /\ job' = Back(t)
    /\ raced' = raced \cup {job[t].bot}
    /\ UNCHANGED <<proc, files, deadStreak, armed, deaths, intended, stopped>>

Done(t) ==
    /\ job[t].pc = "loop" /\ job[t].todo = {}
    /\ job' = IF job[t].op = "start listed"
                THEN Put(t, [job[t] EXCEPT !.pc = "merge"])
                ELSE Put(t, Idle)
    /\ UNCHANGED <<proc, files, deadStreak, armed, deaths, history>>
----
(* stop, and the autostart list *)

StopBots(t, bs) == Command(t, "stop", bs) /\ UNCHANGED stopped

(* The pid file is read, and the pid killed only if it runs some proot.     *)
ReadPid(t, b) ==
    LET pid == pidFile[b] IN
    /\ job[t].op = "stop" /\ job[t].pc = "loop" /\ b \in job[t].todo
    /\ job' = Put(t, [job[t] EXCEPT !.todo = Left(t, b), !.bot = b, !.pid = pid,
                        !.pc = IF pid \in ProotPids THEN "kill" ELSE "delete"])
    /\ raced' = RacedBy(t, b)
    /\ UNCHANGED <<proc, files, deadStreak, armed, deaths, intended, stopped>>

(* kill -9 of whatever runs under the pid by now, by the userland's         *)
(* busybox. Nobody looks whether that could be run (not while it is being   *)
(* extracted, or where it does not find its library).                       *)
Kill(t) ==
    /\ job[t].pc = "kill"
    /\ proc' = [proc EXCEPT ![job[t].pid] = NoProcess]
    /\ job' = Goto(t, "delete", job[t].bot)
    /\ UNCHANGED <<files, deadStreak, armed, deaths, history>>

KillFails(t) ==
    LET b == job[t].bot IN
    /\ job[t].pc = "kill"
    /\ job' = Goto(t, "delete", b)
    /\ raced' = raced \cup (IF job[t].pid \in Copies(b) THEN {b} ELSE {})
    /\ UNCHANGED <<proc, files, deadStreak, armed, deaths, intended, stopped>>

Delete(t) ==
    LET b == job[t].bot IN
    /\ job[t].pc = "delete"
    /\ pidFile' = [pidFile EXCEPT ![b] = NoPid]
    /\ job' = Back(t)
    /\ stopped' = IF b \in intended \/ \E u \in Threads : MayStart(u, b)
                    THEN stopped ELSE stopped \cup {b}
    /\ UNCHANGED <<proc, canonical, legacy, deadStreak, armed, deaths, intended,
                   raced>>

ListBots(t, bs) == Command(t, "list", bs) /\ UNCHANGED stopped

(* START_BOTS with autostart adds its names to what is listed now.          *)
Merge(t) ==
    /\ job[t].pc = "merge"
    /\ job' = Put(t, [job[t] EXCEPT !.pc = "save",
                                    !.todo = Autostart \cup job[t].names])
    /\ UNCHANGED <<proc, files, deadStreak, armed, deaths, history>>

(* What the user asked for; a list read before another save is stale.       *)
Asked(t) ==
    IF job[t].op = "list" THEN job[t].names ELSE intended \cup job[t].names
Stale(t) ==
    UNION {job[u].todo : u \in {v \in Threads \ {t} :
                                  job[v].op = "start listed" /\ job[v].pc = "save"}}

Saves(t) ==
    /\ job[t].pc = "save"
    /\ job' = Put(t, Idle)
    /\ intended' = Asked(t)
    /\ stopped' = stopped \ Asked(t)
    /\ UNCHANGED <<proc, pidFile, deadStreak, armed, deaths>>

(* Mutant: the legacy file is kept.                                         *)
SaveBeside(t) ==
    /\ Saves(t)
    /\ canonical' = job[t].todo /\ UNCHANGED legacy
    /\ raced' = raced \cup Stale(t)

(* setAutostart: the one file is written, the legacy one deleted.           *)
Save(t) ==
    /\ Saves(t)
    /\ canonical' = job[t].todo /\ legacy' = {}
    /\ raced' = raced \cup Stale(t)

(* The write throws, before or after it emptied the file; it is only logged. *)
SaveFails(t, emptied) ==
    /\ Saves(t)
    /\ canonical' = IF emptied THEN {} ELSE canonical
    /\ raced' = raced \cup Stale(t) \cup (Autostart \ Asked(t))
    /\ UNCHANGED legacy
----
(* The phone: processes die, other guests come and go on the freed pids,    *)
(* the app is killed, the phone restarts.                                   *)

Die(p) ==
    /\ proc[p] # NoProcess
    /\ proc' = [proc EXCEPT ![p] = NoProcess]
    /\ UNCHANGED <<files, deadStreak, armed, job, deaths, history>>

OtherGuest(p) ==
    /\ proc[p] = NoProcess /\ Cardinality(Copies(Guest)) < MaxGuests
    /\ proc' = [proc EXCEPT ![p] = Guest]
    /\ UNCHANGED <<files, deadStreak, armed, job, deaths, history>>

(* The bots outlive the app, which forgets its streaks and its threads.     *)
AppDies ==
    /\ deaths < MaxDeaths
    /\ deaths' = deaths + 1
    /\ job' = [t \in Threads |-> Idle]
    /\ deadStreak' = [b \in Bots |-> 0]
    /\ raced' = raced \cup {b \in Bots : \E t \in Threads :
                              job[t].pc = "write" /\ job[t].bot = b}
    /\ UNCHANGED <<proc, files, armed, intended, stopped>>

(* Only the files are left.                                                 *)
Reboot ==
    /\ deaths < MaxDeaths
    /\ deaths' = deaths + 1
    /\ job' = [t \in Threads |-> Idle]
    /\ deadStreak' = [b \in Bots |-> 0]
    /\ proc' = [p \in Pids |-> NoProcess]
    /\ armed' = FALSE
    /\ UNCHANGED <<files, history>>

Look(t) == \E b \in Bots : LookAlive(t, b) \/ LookDead(t, b)
Launch(t) ==
    \/ \E b \in Bots : Target(t, b)
    \/ Check(t) \/ SpawnFails(t) \/ Write(t) \/ Unrecorded(t) \/ Done(t)
    \/ \E p \in Pids : Spawn(t, p)
Halt(t) == Kill(t) \/ KillFails(t) \/ Delete(t) \/ \E b \in Bots : ReadPid(t, b)
Listing(t) == Merge(t) \/ Save(t) \/ \E emptied \in BOOLEAN : SaveFails(t, emptied)
Step(t) == Look(t) \/ Launch(t) \/ Halt(t) \/ Listing(t)

Targets == {Bots} \cup {{b} : b \in Bots}  \* every bot, or a named one
Request(t) ==
    \/ \E bs \in Targets, listed \in BOOLEAN : StartBots(t, bs, listed)
    \/ \E bs \in Targets : StopBots(t, bs)
    \/ \E bs \in SUBSET Bots : ListBots(t, bs)

Phone ==
    \/ ServiceStop \/ AppDies \/ Reboot
    \/ \E p \in Pids : Die(p) \/ OtherGuest(p)

Next ==
    \/ \E t \in Threads : Step(t)
    \/ \E t \in Ensurers : Tick(t) \/ ServiceStart(t)
    \/ \E t \in Commanders : Request(t)
    \/ Phone

Spec == Init /\ [][Next]_vars

(* Threads run, and the alarm rings as long as it is armed. Users and the   *)
(* phone owe nothing.                                                       *)
FairSpec ==
    /\ Spec
    /\ \A t \in Threads : WF_vars(Step(t))
    /\ \A t \in Ensurers : WF_vars(Tick(t))
----
(* Every live copy of a bot is the one process its pid file names, or is    *)
(* about to be written there: none runs twice, and stop and status see it.  *)
(* Overlapping operations, a lost pid and a kill that fails break this: the *)
(* operations take no lock, and stop deletes the file whether or not the    *)
(* bot died (BotSupervisor.start, stop, isRunning).                         *)
Supervised ==
    \A b \in Bots \ raced : \A p \in Copies(b) :
       \/ pidFile[b] = p
       \/ \E t \in Threads : job[t].pc = "write" /\ job[t].bot = b /\ job[t].pid = p

(* A bot the user stopped and has not listed stays down through ticks,      *)
(* service starts, app deaths and reboots, wherever it was listed before    *)
(* (autostartNames reads two files, setAutostart must outdo both); unless   *)
(* operations overlapped, the kill failed, or the list could not be saved.  *)
StopHolds == \A b \in stopped \ raced : Copies(b) = {}

(* "Stop [name] (or every tracked bot) by verified pid" (comment of stop):  *)
(* what the pid file named is dead after the kill.                          *)
StopKills ==
    [][\A t \in Threads :
         job[t].pc = "kill" /\ job'[t].pc = "delete" =>
           proc'[job[t].pid] = NoProcess]_vars

(* A listed bot found dead is started again while the alarm is armed, even  *)
(* if its old pid now belongs to another guest (isRunning checks the runner *)
(* in the command line), unless its spawns fail three ticks in a row.       *)
ListedRestarted ==
    \A b \in Staged :
       (b \in Autostart /\ Copies(b) = {})
         ~> (Copies(b) # {} \/ b \notin Autostart \/ ~armed \/ deadStreak[b] > 3)
====
