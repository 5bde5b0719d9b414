----------------------------- MODULE McpClient -----------------------------
(* The MCP client (agent/mcp.py: start_all, stop_all, McpServer.start and   *)
(* stop; the hook is _mcp_register of agent/serve.py): server processes, a  *)
(* table of servers, the index of their tools and the proxies the model     *)
(* calls. tools_refresh runs start_all and mcp {restart} runs stop_all and  *)
(* then start_all, each in the handler of a client that may disconnect; no  *)
(* lock keeps two of them apart.                                            *)
(*                                                                          *)
(* Each server has one tool, known by the server's name. Configured servers *)
(* are well formed and speak over pipes.                                    *)
EXTENDS Integers, FiniteSets

CONSTANTS
    Names,       \* servers that mcp.json may name
    Runs,        \* bound: the boot, tools_refresh and mcp {restart} requests
    Boot,        \* the run before requests are accepted
    Objects,     \* bound: the McpServer objects ever created
    Edits        \* bound: the changes to mcp.json

ASSUME BootAssumption == Boot \in Runs /\ Names # {}
ASSUME McpBoundAssumption == Objects \in Nat /\ Edits \in Nat

VARIABLES
    config,      \* the names in mcp.json
    servers,     \* _servers: the object of each name, 0 if it has none
    made,        \* the objects created so far
    proc,        \* McpServer.proc of each object: none, alive or exited
    failed,      \* objects with an error
    closing,     \* objects whose _closing is set
    live,        \* objects whose process runs
    index,       \* _tool_index
    tools,       \* TOOLS: the names that have a proxy
    job,         \* each run: where it is, and its local variables
    lost,        \* history: names some run did not finish registering
    strays,      \* history: objects that left the table without being stopped
    edits        \* history: how often mcp.json was changed

objects == <<made, proc, failed, closing, live>>
tables == <<config, servers, index, tools>>
histories == <<lost, strays, edits>>
mcpVars == <<tables, objects, job, histories>>

Ids == 1..Objects
Awaits == {"stop", "told", "spawn", "shake", "started", "list"}
Jobs == [pc: {"idle", "next", "over"} \cup Awaits,
         phase: {"stop_all", "remove", "start"},
         todo: SUBSET (Names \cup Ids), wanted: SUBSET Names,
         name: Names, srv: 0..Objects,
         added: SUBSET Names, removed: SUBSET Names]

(* A run that has not begun, or that has returned.                          *)
Blank(pc, phase) ==
    [pc |-> pc, phase |-> phase, todo |-> {}, wanted |-> {},
     name |-> CHOOSE n \in Names : TRUE, srv |-> 0,
     added |-> {}, removed |-> {}]

(* An object is in one place of the table and brought up by one run.        *)
McpTypeOK ==
    /\ config \subseteq Names
    /\ servers \in [Names -> 0..made] /\ made \in 0..Objects
    /\ proc \in [Ids -> {"none", "alive", "exited"}]
    /\ failed \subseteq Ids /\ closing \subseteq Ids /\ live \subseteq Ids
    /\ index \subseteq Names /\ tools \subseteq Names
    /\ job \in [Runs -> Jobs]
    /\ lost \subseteq Names /\ strays \subseteq Ids /\ edits \in 0..Edits
    /\ \A s \in Ids : proc[s] = "alive" => s \in live
    /\ \A m, n \in Names : servers[m] = servers[n] /\ m # n => servers[m] = 0
    /\ \A r, q \in Runs :
         /\ {job[r].pc, job[q].pc} \subseteq {"spawn", "shake", "started"}
         /\ job[r].srv = job[q].srv
         => r = q

McpInit ==
    /\ config \in SUBSET Names
    /\ servers = [n \in Names |-> 0] /\ made = 0
    /\ proc = [s \in Ids |-> "none"]
    /\ failed = {} /\ closing = {} /\ live = {}
    /\ index = {} /\ tools = {}
    /\ job \in [Runs -> {Blank("idle", "stop_all"), Blank("idle", "remove")}]
    /\ job[Boot].phase = "remove"
    /\ lost = {} /\ strays = {} /\ edits = 0

----
(* Another task runs only while every run awaits something.                 *)
Quiet == \A r \in Runs : job[r].pc # "next"

Goes(r, j) == job' = [job EXCEPT ![r] = j]
To(j, pc) == [j EXCEPT !.pc = pc]
At(r, phase) == job[r].pc = "next" /\ job[r].phase = phase
Stopping(r, phase) == job[r].pc = "stop" /\ job[r].phase = phase

(* A run that raises or is cancelled never calls the hook.                  *)
Returns(r) == Goes(r, Blank("over", "start"))
Aborts(r, j) == Returns(r) /\ lost' = lost \cup j.added \cup j.removed

Entered == {n \in Names : servers[n] # 0}

(* Objects that nobody will stop: one that takes a name while this run      *)
(* waits to free it, one that had no process yet when it was stopped, one   *)
(* brought up while another run stops those that were there before.         *)
Overtaken(j) == {servers[j.name]} \ (closing \cup {0})
Unborn(s) ==
    IF \E r \in Runs : job[r].pc = "spawn" /\ job[r].srv = s THEN {s} ELSE {}
Untended(r) ==
    IF \E q \in Runs \ {r} : job[q].phase = "stop_all" /\ job[q].pc \in Awaits
    THEN {made + 1} ELSE {}

----
(* McpServer.stop sets the flag, closes the pipe and waits for the process  *)
(* to go, or to be killed after three seconds; without one it returns.      *)

Without(s) == [proc EXCEPT ![s] = "none"]

StopsNow(s) ==
    /\ proc[s] # "alive"
    /\ closing' = closing \cup {s} /\ proc' = Without(s)

StopBegins(s) ==
    /\ proc[s] = "alive"
    /\ closing' = closing \cup {s} /\ UNCHANGED proc

StopEnds(s) ==
    /\ proc' = Without(s) /\ live' = live \ {s}
    /\ UNCHANGED <<failed, closing>>

----
(* stop_all *)

(* Mutant: servers that failed are taken to be down.                        *)
PresentUp == {servers[n] : n \in Entered} \ failed

Present == {servers[n] : n \in Entered}

RunBegins(r) ==
    /\ job[r].pc = "idle"
    /\ r # Boot => job[Boot].pc = "over"
    /\ \/ /\ job[r].phase = "stop_all"
          /\ Goes(r, [To(job[r], "next") EXCEPT !.todo = Present])
       \/ /\ job[r].phase = "remove"
          /\ Goes(r, [To(job[r], "next") EXCEPT !.wanted = config,
                                                !.todo = Entered \ config])
    /\ UNCHANGED <<tables, objects, histories>>

StopNext(r) ==
    /\ At(r, "stop_all")
    /\ \E s \in job[r].todo :
         LET j == [job[r] EXCEPT !.todo = @ \ {s}, !.srv = s] IN
         /\ strays' = strays \cup Unborn(s)
         /\ \/ StopsNow(s) /\ Goes(r, To(j, "told"))
            \/ StopBegins(s) /\ Goes(r, To(j, "stop"))
    /\ UNCHANGED <<tables, made, failed, live, lost, edits>>

StopNextEnds(r) ==
    /\ Stopping(r, "stop_all")
    /\ StopEnds(job[r].srv)
    /\ Goes(r, To(job[r], "told"))
    /\ UNCHANGED <<tables, made, histories>>

(* The tables are cleared, of what was entered meanwhile too; the proxies   *)
(* stay. start_all follows.                                                 *)
AllStopped(r) ==
    /\ At(r, "stop_all") /\ job[r].todo = {}
    /\ servers' = [n \in Names |-> 0] /\ index' = {}
    /\ Goes(r, [job[r] EXCEPT !.phase = "start", !.todo = config,
                              !.wanted = config])
    /\ UNCHANGED <<config, objects, tools, histories>>

----
(* start_all: servers that are no longer configured *)

(* The tool leaves the index and the name the table, if it is still there:  *)
(* del raises otherwise.                                                    *)
Drops(r, j) ==
    LET k == [To(j, "told") EXCEPT !.removed = @ \cup (index \cap {j.name})] IN
    /\ index' = index \ {j.name}
    /\ servers' = [servers EXCEPT ![j.name] = 0]
    /\ \/ servers[j.name] = 0 /\ Aborts(r, k)
       \/ servers[j.name] # 0 /\ Goes(r, k) /\ UNCHANGED lost

RemoveNext(r) ==
    /\ At(r, "remove")
    /\ \E n \in job[r].todo :
         LET s == servers[n]
             j == [job[r] EXCEPT !.todo = @ \ {n}, !.name = n, !.srv = s] IN
         \/ /\ s = 0 /\ Aborts(r, j)
            /\ UNCHANGED <<servers, index, closing, proc, strays>>
         \/ /\ s # 0 /\ StopsNow(s) /\ Drops(r, j)
            /\ strays' = strays \cup Unborn(s)
         \/ /\ s # 0 /\ StopBegins(s) /\ Goes(r, To(j, "stop"))
            /\ UNCHANGED <<servers, index, lost, strays>>
    /\ UNCHANGED <<config, tools, made, failed, live, edits>>

RemoveNextEnds(r) ==
    /\ Stopping(r, "remove")
    /\ StopEnds(job[r].srv)
    /\ Drops(r, job[r])
    /\ strays' = strays \cup Overtaken(job[r])
    /\ UNCHANGED <<config, tools, made, edits>>

AllRemoved(r) ==
    /\ At(r, "remove") /\ job[r].todo = {}
    /\ Goes(r, [job[r] EXCEPT !.phase = "start", !.todo = job[r].wanted])
    /\ UNCHANGED <<tables, objects, histories>>

----
(* start_all: the configured servers *)

Running(s) == s # 0 /\ s \notin failed /\ proc[s] = "alive"

(* A new object takes the name, whatever object has it by now.              *)
Creates(r, j) ==
    /\ made < Objects /\ made' = made + 1
    /\ servers' = [servers EXCEPT ![j.name] = made + 1]
    /\ Goes(r, [To(j, "spawn") EXCEPT !.srv = made + 1])

StartNext(r) ==
    /\ At(r, "start")
    /\ \E n \in job[r].todo :
         LET s == servers[n]
             j == [job[r] EXCEPT !.todo = @ \ {n}, !.name = n, !.srv = s] IN
         \/ /\ Running(s) /\ Goes(r, To(j, "list"))
            /\ UNCHANGED <<servers, made, closing, proc, strays>>
         \/ /\ s \in failed /\ StopBegins(s) /\ Goes(r, To(j, "stop"))
            /\ UNCHANGED <<servers, made, strays>>
         \/ /\ s # 0 /\ StopsNow(s) /\ Creates(r, j)
            /\ strays' = strays \cup Untended(r) \cup Unborn(s)
         \/ /\ s = 0 /\ Creates(r, j)
            /\ strays' = strays \cup Untended(r)
            /\ UNCHANGED <<closing, proc>>
    /\ UNCHANGED <<config, index, tools, failed, live, lost, edits>>

StartNextStopped(r) ==
    /\ Stopping(r, "start")
    /\ StopEnds(job[r].srv)
    /\ Creates(r, job[r])
    /\ strays' = strays \cup Untended(r) \cup Overtaken(job[r])
    /\ UNCHANGED <<config, index, tools, lost, edits>>

Spawned(r) ==
    /\ job[r].pc = "spawn"
    /\ proc' = [proc EXCEPT ![job[r].srv] = "alive"]
    /\ live' = live \cup {job[r].srv}
    /\ closing' = closing \ {job[r].srv}
    /\ Goes(r, To(job[r], "shake"))
    /\ UNCHANGED <<tables, made, failed, histories>>

(* Mutant: the first server that fails ends the run.                        *)
AfterFailureLast(j) == Blank("over", "start")

AfterFailure(j) == To(j, "next")

(* No such command, no answer in time, an error, a pipe that breaks.        *)
StartFails(r) ==
    /\ job[r].pc \in {"spawn", "shake"}
    /\ failed' = failed \cup {job[r].srv}
    /\ Goes(r, AfterFailure(job[r]))
    /\ UNCHANGED <<tables, made, proc, closing, live, histories>>

Shaken(r) ==
    /\ job[r].pc = "shake" /\ proc[job[r].srv] = "alive"
    /\ Goes(r, To(job[r], "started"))
    /\ UNCHANGED <<tables, objects, histories>>

(* A tool that is indexed already is not registered again.                  *)
Registers(r) ==
    /\ \/ job[r].pc = "started"
       \/ job[r].pc = "list" /\ proc[job[r].srv] = "alive"
    /\ index' = index \cup {job[r].name}
    /\ Goes(r, [To(job[r], "next") EXCEPT
                  !.added = @ \cup ({job[r].name} \ index)])
    /\ UNCHANGED <<config, servers, tools, objects, histories>>

(* A broadcast returns, or tools/list fails.                                *)
GoesOn(r) ==
    /\ job[r].pc \in {"told", "list"}
    /\ Goes(r, To(job[r], "next"))
    /\ UNCHANGED <<tables, objects, histories>>

(* The hook: proxies go and come as this run saw the index.                 *)
Finish(r) ==
    /\ At(r, "start") /\ job[r].todo = {}
    /\ tools' = (tools \ job[r].removed) \cup job[r].added
    /\ lost' = lost \cup (job[r].removed \cap index)
    /\ Returns(r)
    /\ UNCHANGED <<config, servers, index, objects, strays, edits>>

----
(* The client disconnects: its handler is cancelled where it awaits. A stop *)
(* gives up its process, a spawn ends it.                                   *)
Cut(r) ==
    /\ r # Boot /\ job[r].pc \in Awaits
    /\ Aborts(r, job[r])
    /\ proc' = IF job[r].pc = "stop" THEN Without(job[r].srv) ELSE proc
    /\ UNCHANGED <<tables, made, failed, closing, live, strays, edits>>

(* A process ends; the read loop notes it unless a stop is under way.       *)
Exits(s) ==
    /\ s \in live /\ live' = live \ {s}
    /\ proc' = [proc EXCEPT ![s] = IF @ = "alive" THEN "exited" ELSE @]
    /\ failed' = failed \cup {p \in {s} \ closing : proc[p] = "alive"}
    /\ UNCHANGED <<tables, made, closing, job, histories>>

Edit(c) ==
    /\ edits < Edits /\ edits' = edits + 1
    /\ config' = c
    /\ UNCHANGED <<servers, objects, index, tools, job, lost, strays>>

McpNext ==
    \/ \E r \in Runs :
         \/ StopNext(r) \/ AllStopped(r) \/ RemoveNext(r) \/ AllRemoved(r)
         \/ StartNext(r) \/ Finish(r)
    \/ /\ Quiet
       /\ \/ \E r \in Runs :
               \/ RunBegins(r) \/ GoesOn(r) \/ Cut(r)
               \/ StopNextEnds(r) \/ RemoveNextEnds(r) \/ StartNextStopped(r)
               \/ Spawned(r) \/ StartFails(r) \/ Shaken(r) \/ Registers(r)
          \/ \E s \in Ids : Exits(s)
          \/ \E c \in SUBSET Names \ {config} : Edit(c)

McpSpec == McpInit /\ [][McpNext]_mcpVars
----
(* Servers are "stopped on shutdown" and before they are replaced (README,  *)
(* MCP servers): a process that nobody told to go is that of a server in    *)
(* the table, where a stop finds it. The exception are objects that a run   *)
(* replaced or cleared without having stopped them, which takes two runs.   *)
NoStrayProcess ==
    \A s \in live \ (closing \cup strays) : \E n \in Names : servers[n] = s

(* Tools that the index lists, and that the model is told of, have a proxy  *)
(* or a run that is about to give them one ("same registry as native        *)
(* tools"), but for what a cancelled run, or one that was overtaken, left.  *)
ListedCallable ==
    \A n \in index \ lost :
       n \in tools \/ \E r \in Runs : job[r].pc # "over" /\ n \in job[r].added

(* A run that nothing disturbed leaves no proxy of a server that mcp.json   *)
(* no longer names ("removed ones unregistered"). It does after a restart,  *)
(* which clears the table and the index and leaves the proxies.             *)
RemovedUncallable ==
    [][ \A r \in Runs :
          /\ Finish(r) /\ job[r].wanted = config
          /\ \A q \in Runs \ {r} : job[q].pc \in {"idle", "over"}
          => tools' \subseteq config \cup lost ]_mcpVars
====
