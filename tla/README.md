# Interlux: TLA+ models of the agent daemon

Interlux runs a coding and phone agent on an Android device. A Python daemon
(`agent/`) owns conversations, runs the model's tools and asks people for
approval; an Android app (`android/`, `lib/`) keeps daemons alive, shows the
conversation and owns the terminals; `localmodels/` serves on-device models.
This directory holds TLA+ specifications of the parts whose correctness is a
matter of order (who holds what when two requests, a cancel and a
disconnection meet), the TLC configurations that check them, and TLAPS proofs.

`PROJECT.json` is the index: components, runs, the mutant that shows each
property can fail, the source lines of every definition, the findings, the
hazards with the properties that cover them, and the theorems.

## 1. Inventory

| Component | State it keeps | Operations | Hard behaviour | What makes it correct |
|---|---|---|---|---|
| Turn engine (`agent/serve.py`: `handle_turn`, `_run_turn`, `turn/steer`, `cancel`) | `RUNNING`, `_agent_turns`, `_thread_locks`, `_pending_steer` | start, steer, replace, cancel a turn; end it five ways | handlers interleave at every await; a disconnect cancels handlers and turns | one writer per thread; no saved turn lost; locks and slots given back; the cap holds; steering is applied once |
| Round loop (`_execute_turn`, `run_tool_loop`) | the turn record: rounds, flags, failed tools, usage | ask the model, run calls, repair, re-ask, fold, stop | nine exits, three reprompts and steering compete for a round; cancel at any await | it ends; the ceiling holds; failures are stated; every exit bills and tells the clients |
| Approvals and grants (`ApprovalManager`, `agent/policy.py`) | `pending`, futures, policy.json | request, answer, expire, drop, resend, grant | answer, expiry, cancel, replace and reconnect race for one card | no turn waits on a lost card; no card outlives its turn; every client sees every card; grants are honoured for whom they were given |
| Thread store (`agent/threads.py`, `agent/audit.py`) | thread files, memories, audit log, `_thread_agents` | load, save, archive, fork, import, compact, name, rebuild from audit | only turns take the lock; a move of two files may stop half-way | a history is never lost or merged with another agent's |
| Subagents (`serve.py` 577-635, 3664-3805) | `_subagents` | spawn, follow, cancel | a driver task follows a turn task, and both are cancelled from elsewhere; refusals look like completions | at most eight run; what is reported over is over; a place is given back |
| Client tools (`serve.py` 729-) | registered tools, pending calls | register, call, answer, time out | a disconnect fails the calls of every client | a call ends once, with its own owner's answer |
| MCP client (`agent/mcp.py`) | server processes, `_servers`, `_tool_index`, proxies in `TOOLS` | refresh, restart, call, stop | two refreshes at once, with no lock; a client that leaves cuts one short | no process outside the table; listed tools can be called |
| Pairing (`agent/agents.py`, `agent/AgentAuth.kt`) | agents.json, pairing requests, tokens to fetch, the two socket maps | initialize, ask, approve, deny, poll, revoke | polling meets approval, loss and restart; a store that cannot be read | one owner with a key; a revoked agent is gone; a token is handed out once |
| Transport (`agent/transport.py`) | connection set | broadcast, route, drop | the set changes while a broadcast awaits | events reach the connections entitled to them |
| Bot supervisor, watchdog (Kotlin, `agent/`) | pid files, dead streaks, two autostart files | start, stop, list, tick | two threads start the same bot; pids are reused; the app dies, bots do not | at most one process per bot; a stop holds; a listed bot comes back |
| Daemon control (`agent/AgentDaemon.kt`, `userland/Userland.kt`) | daemon.pid, `starting`, the version marker | ensure, restart, stop | an update under a live daemon; an extraction that throws; overlapping starts | the living daemon is the known one and runs the installed version |
| Tab bridge, pty sessions (Kotlin, Dart) | sessions, descriptors | open, write, read, close | reader, writer and close race on a descriptor | bytes go to the session they were typed in |
| Provider adapters, call parsers, tools, installer, local models, user interface | - | I/O, text, layout | - | not modelled, see section 6 |

Interaction: a client's `turn` request becomes a handler task, which takes the
thread's lock, loads the thread file, takes a slot and starts a turn task. The
turn task runs rounds: a provider stream, then tools, some of which wait for an
approval card that any client can answer. Steering messages go into a queue that
the running turn empties between rounds. When the turn ends it saves the thread,
appends to the audit log, bills the agent and releases lock, slot and `RUNNING`
entry in one step. A closing connection cancels its handlers and, unless it is
the owner's, its agent's turns. Everything runs on one asyncio loop.

That fixes the grain of the models: **an action is the code between two
awaits**. A broadcast is an await only where somebody listens. An event of a
thread goes to the connections of the owner that was cached for it or that its
file names; of a thread without a file, or whose file names nobody, to every
connection (serve.py:130-159, transport.py:66-99). Where no await can happen, no
interleaving is modelled.

## 2. Modules

| Module | Models | Kind |
|---|---|---|
| `TurnEngine` | locks, slots, `RUNNING`, steering, files | detailed specification |
| `ThreadLog` | what a thread promises: one turn at a time, saved turns stay | abstract specification |
| `Approvals` | cards, answers in both forms, expiry, grants, resend | detailed specification |
| `RoundLoop` | one turn from its first round to `turn/completed` | detailed specification |
| `ThreadStore` | thread files, memories and audit log under every request that writes them | detailed specification |
| `OwnerCache` | `ThreadStore` with the cache of thread owners beside it | composition |
| `Subagents` | children, drivers, the turns they follow, the cap | detailed specification |
| `ClientTools` | tools that clients implement, their calls and answers | detailed specification |
| `McpClient` | server processes, their table, the tool index, the proxies | detailed specification |
| `Pairing` | who may use the daemon: handshake, pairing, revocation | detailed specification |
| `BotSupervisor` | bots, pid files, autostart lists, ticks, commands | detailed specification |
| `CrashLoop` | `BotSupervisor` with a count of the ticks that found a bot dead | composition |
| `AgentDaemon` | the app's hold on the daemon and on the extracted userland | detailed specification |
| `MC...` | the instances TLC checks | model checking |
| `...Proofs` | theorems (eight modules) | TLAPS |

Each proof module extends the module it proves things about. Two of them extend
two: `PairingDaemonProofs` (`Pairing`, `AgentDaemon`) and `SubagentsMcpProofs`
(`Subagents`, `McpClient`). The pairs share no state; `AgentDaemon` and `McpClient`
prefix what would clash (`DaemonInit`, `DaemonSpec`, `McpNext`, `McpTypeOK`).

`TurnEngine`, `RoundLoop`, `Approvals` and `ThreadStore` look at one system at
four scales. `TurnEngine` sees a turn as begin, fold a message, and end;
`RoundLoop` opens up that turn and leaves other threads out; `Approvals` opens up
one tool call of a round, `ClientTools` another kind of call; `ThreadStore` keeps
of a turn that it loads, holds the lock and saves, and adds everything else that
writes the same files. What one abstracts another details: the outcome of an
approval is a choice in `RoundLoop` (`Outcomes`) and a protocol in `Approvals`;
the ends of a turn are choices in `TurnEngine` (`Finish`, `Truncate`, `Fail`,
`Crash`) and reached by rounds in `RoundLoop`. `Subagents` uses a turn as
`TurnEngine` describes it, with its three ways of being cancelled.

Several modules carry *marks*: history variables that name what the code gives up
on, so that a property can be claimed for everything else. `raced` are bots,
daemons or threads on which two operations overlapped that the code does not keep
apart (of a bot or daemon also: whose pid was lost, or whose kill failed while its
pid file was given up); `tangled` threads changed hands; `replayed` is what the
audit log has shown to whom; `lost` and `strays` are what a cancelled
or overtaken run left; `late`, `missed`, `unreadable` are explained at their
declarations. A mark is set by the step that does the damage, and by no other.

### TurnEngine

A *request* is a handler task together with the turn task it starts; `pc` says
where it is.

| pc | code |
|---|---|
| waiting | in `handle_turn`, before or in `lock.acquire()` of the thread's lock |
| steering | `turn/steer` with start=true waits for the turn it cancelled |
| starting | broadcasting thread/started and turn/started, lock held, slot taken |
| spawned, running | task created; task in `_execute_turn` |
| completing, cancelling | closing broadcasts of a saved turn; handler of a cancel or failure |
| done, foreign, overQuota | ended, refused as another agent's thread, refused for the cap |
| dead | the task ended without running the code that releases the lock |

Notes for a reader who compares it with the code:

- `Start` skips `starting` and goes straight to `spawned` only where the broadcasts
  find nobody to send to (`Heard`), since no await happens then: the owner of the
  thread has no connection, or nobody has one. A new thread has no owner while it
  starts, so its events reach everyone and its `starting` window is in the model.
- `thread_agents` is the cache of thread owners that routing uses; whatever
  broadcasts for a thread fills it (`Tell`, `Broadcast`).
- `MaySignal` looks at the thread the caller names, as `_may_signal` does, and not
  at the turn's.
- An uncontended lock acquisition is two steps here and one in the code; the
  extra interleaving only delays a handler.
- A cancelled waiter stays in the lock's FIFO and is skipped, as asyncio does.
- `StartRaises` stands for any exception between taking the lock and the `try`: from
  resolve_sandbox before the slot is taken, or from open_provider after it. The lock
  is kept for ever, and so is the slot if it was taken. `StartFails` and
  `LaunchFails` are exceptions inside the `try`, which give both back.
- Every connection belongs to a paired agent; the setup phase is in `Pairing`.
- `Fail` is a provider error, and also a save that failed: both leave the file as
  it was. `Truncate` is a turn that breaks out of its rounds and is saved.
- A replacing steer cancels the turn and waits until its task has ended.
- What archive, import, compact and name do is in `ThreadStore`, a subagent's turn in
  `Subagents`.

### Approvals

Each thread has one turn, which may run one tool loop after another. `pending`
is `ApprovalManager.pending` with its futures (`fut`); a card's id is the
thread and the number of pending cards, as in the code, so ids come again.

- The payload of approval_request has no top-level thread id, so it goes to
  every client, not only to the agent's: that is what makes
  `EveryClientSeesCard` the right property.
- Filing a card and its broadcast, and joining the connection set and the
  resend, are each one step: the code takes its snapshot without an await.
- Only the owner's turns outlive their connection.
- The connection a tool loop runs for is chosen per loop; its agent decides
  which grants are read, the answering connection's agent which are written.
- `promised` (history) is who was answered always, and how: "own" on a connection of
  the turn's own agent, by the approve method; "other" on another's or without a
  method; "cut" if the turn's connection was closed when a later loop began, which
  then has no caller and reads nobody's grants (serve.py:1374-1375).

### RoundLoop

One turn of one agent. `turn` is what it was started with: the ceiling, whether
it is on a budget, read-only, and whether its message begins with "run ".

| variable | code |
|---|---|
| `pc`, `how` | where the turn is; why its loop ended |
| `rounds`, `flags` | `turn["rounds"]`; truncated, the three reprompts made, the statement made, and whether the output has a tool entry |
| `calls`, `goal`, `text` | the round's calls, its goal check, whether its syntax was broken and its text announced |
| `last`, `repeats` | the convergence guard |
| `failed` | `_failed_tools` |
| `steer`, `applied` | `_pending_steer` of this turn; messages folded in (history) |
| `usage`, `spent`, `used` | `turn["usage"]`, policy.json's total, tokens really used (history) |
| `final`, `told` | the last round announced as final; billed, turn/completed sent, or the handler that was sending it cancelled ("cut") (history) |

The model's text is reduced to what the loop distinguishes: its calls, whether it
is silent, whether call syntax was broken. The wall clock is a choice where it is
looked at. Billing by other turns of the agent is `OtherBilled`. The turn of an
unpaired client has no agent and bills nothing; it behaves as one without budget,
and "billed" then means that `_accrue_turn_usage` was called.


### ThreadStore and OwnerCache

A message stands for whatever one request adds to a thread: a turn's pair, a note,
an imported batch. A file is its agent, the messages in its history and those a
summary replaced (`base`).

| action | code |
|---|---|
| `TurnBegins`, `TurnRuns`, `TurnSaves`, `TurnFails` | handle_turn under the lock, `record_turn` with its audit line, the ends that save nothing |
| `Note` | turn/steer with start off, which writes without the lock |
| `Resume`, `Rename`, `Memories`, `Fork`, `Import` | the requests of those names; a missing file is rebuilt from the audit log (`Materialized`) |
| `CompactBegins`, `CompactSaves`, `CompactFails` | thread/compact around its call of the model |
| `Archive`, `Unarchive` (`whole`) | two moves each, the second of which may fail |
| `Restart` | the daemon ends; turns and compactions are gone, files are not |

`Replay` drops nothing: replay_audit filters on a key, `agent_id`, that the entries
of turns do not have (threads.py:418; handle_turn stamps `agent`, serve.py:2265). So
whoever resumes a thread that has no file is given the turns of its earlier owner.
`Shows` records that in `replayed`; OwnContent excepts those turns and nothing else,
and ReplayOwn, the comment's claim, is a counterexample (section 3).

A compaction keeps of an earlier one nothing: it summarises the history and drops
the previous summary (`transcript_text` reads the history alone, serve.py:3439),
and the model has it so (`owed` then forgets the older part). `OwnerCache` adds
`Broadcast`, which remembers the owner a thread had when it was first looked up.

### Subagents

An entry of `_subagents` (`status`), its driver task, the turn task it follows,
the lock of the child's thread, and a turn of a client on the same thread.

- `subagent/cancel` looks for any turn of the child's thread in `RUNNING`, also a
  client's (`CancelTurn`); only if there is none it cancels the driver
  (`CancelDriver`), at each of its awaits.
- A turn cancelled before its first step is `cut` and its lock `dead`, as in
  `TurnEngine`; one cancelled later runs its handler and ends as any other.
- A driver cancelled before its first step (`lost`) never reaches the `finally`
  that would report it.
- The driver of a finished turn is scheduled, not run: the state in between, in
  which the turn is over and the entry still says running, is in the model.

### ClientTools

A call goes through sending, written, waiting and done; between any two another
task may run. A client's answer names a frame id and may come at any time, also
after the call has timed out; a connection is `dead` until its handler has run
the hooks, and `gone` then. `Drop` is the hook: it fails the calls of every
client, as the code does.

### McpClient

A *run* is one call of `start_all` (the boot, tools_refresh) or of `stop_all` and
then `start_all` (mcp restart), with its locals in `job`. Between two awaits it
does not yield (`Quiet`). Objects are never reused: `servers` maps a name to the
last one made. `Exits` is a process that ends by itself, seen by the read loop.
`Cut` is the disconnection of the run's client, which cancels its handler at an
await; it never calls the registration hook then, and nothing it put in the index
gets a proxy (`lost`). Runs that overlap may stop an object while it has no
process yet, or replace one they have not stopped: `strays`.

### Pairing

The daemon's files and tables, connections, and the app's side of the handshake
(AgentAuth.kt). An agent id stands for its token too. Replies travel on their own
and are lost with their connection. `late` are agents whose turn or request was
under way when they were revoked, which writes to their section afterwards.
`kept` are agents whose token a client has come to keep. pairing/wait is a request
like any other: the app never makes it, nor does it retry a handshake
(AgentAuth.kt:67-91), so whoever polls is a client that is not in the repository, and
nothing is assumed of how often it does. A token that nobody fetches stays until
the daemon ends; the comment at agents.py:44-47 has it removed when the pairing
expires, but no code does so.
`unreadable` is an agents.json that could not be read once; the code takes it for
an empty store.

### BotSupervisor and CrashLoop

Each entry point runs on a thread: the watchdog's tick and a service start run
`ensureRestart`, the control surface runs start, stop and list. `pc` is the next
point at which the code looks at or changes something shared: check, spawn,
write, kill, delete, merge, save. A process is what its command line shows: a
bot's runner, or some other proot guest. Pids are used again. The app's death
takes the threads and the streaks along and leaves bots and files; a reboot
leaves files. The kill of a stop runs the userland's busybox and nobody looks whether
that worked (`Kill`, `KillFails`): it cannot while the userland is being extracted,
or where busybox does not find its library. The pid file is deleted all the same.
Writing the autostart list may fail, before or after it emptied the file
(`SaveFails`). `CrashLoop` counts the straight ticks that find a bot dead.

### AgentDaemon

`ensure` as the code has it: probe, extraction of the userland under its own
lock, comparison of the version marker, the `starting` flag, a second probe, kill
of the stale process, spawn, pid file, wait. A terminal start extracts the
userland too. A process is booting or up and knows the version it was started
from. Every kill goes through the userland's busybox and may fail unnoticed
(`Killed`, `Survives`), as in BotSupervisor. An update replaces the app, and the
threads and flags in it; an extraction that throws outside the `try` takes the app
with it (`ExtractKills`).

## 3. Runs

| Run | Instance | States | Shows |
|---|---|---|---|
| `turn_engine` | owner and an agent with a cap of 1, a connection each, 2 threads (one the agent's, one without a file), 3 requests, 1 message | 1,033,504 | MutualExclusion, NoLostTurn, RecordedIdsUnique, SteerNeverResurfaces, NobodyStranded, QuotaRefusalJustified, ThreadLogSpec |
| `turn_engine_live` | the same with one thread, no message, fairness | 41,409 | WaitersServed |
| `approvals` | a turn of the owner and one of an agent, 3 connections, 2 cards, 1 label | 894,214 | NoOrphanWait, NoPhantomCard, EveryClientSeesCard, OwnGrantHonoured |
| `round_loop` | 2 calls of 2 tools, one of which needs approval; a turn with ceiling 2 and a budget, a read-only one with ceiling 5 and a "run " message; 1 steering message, 1 token spent elsewhere, fairness | 699,468 | RoundsBounded, FailuresStated, AnswerAnnounced, EveryTurnBilled, ClientTold, TurnEnds, TurnAdvances |
| `thread_store` | 2 threads, 2 agents, 2 messages, symmetric | 850,228 | OwnContent, Recoverable |
| `subagents` | 3 children for 2 places, one shared with a client, fairness | 66,366 | TypeOK, ReportedOver, CapHolds, PlaceReturned |
| `client_tools` | 2 calls of 1 tool, 2 agents, 3 connections, 2 of which may die, fairness | 451,415 | NoOrphanedWait, AnswerIsOwn, CallsEnd |
| `mcp_client` | 2 servers, the boot and 2 runs of either kind, 3 objects, 1 edit of mcp.json, symmetric | 577,561 | NoStrayProcess, ListedCallable |
| `pairing` | the app on one connection, another client on two, 2 agents, 2 pairing ids, symmetric | 1,009,095 | RevokedGone, OwnerHoldsKey, HandedOnce |
| `bot_supervisor` | 1 bot, 2 pids, the watchdog and a commander, 1 other guest, 1 death, fairness | 695,864 | Supervised, StopHolds, ListedRestarted |
| `agent_daemon` | 2 threads, 2 pids, 1 update, fairness | 366,452 | DaemonTypeOK, DaemonKnown, FreshUnlessMissed, StartingReleased |

States are distinct states. The type invariants of
`turn_engine`, `approvals`, `round_loop`, `thread_store`, `client_tools`,
`pairing`, `bot_supervisor` and `mcp_client` are theorems (section 5) and are not
run.

Deadlock is checked in `approvals`, `thread_store`, `bot_supervisor` and
`agent_daemon`. The other systems may stop: all requests made, calls ended, ids used.

`lock_leak` expects a violation, of LockReleased: a handler that ends between the
lock and its `try`, or a turn task cancelled before its first step, keeps the
lock. The finding in `PROJECT.json` quotes the comments that say otherwise.

### Bounds, and why they are enough

- Three requests: a runner, a waiter that is overtaken or cancelled, and one that
  replaces or meets a slot of the first. Locks, slots and files are compared
  pairwise, and the third is what arrives while two are in a race.
- Two threads: ids and slots of different threads mix in the tables of an agent;
  one has an owner stamped in its file, so that its events are routed, and one has
  no file, so that its first turn starts in front of everybody. A file that names
  no owner behaves as the second (`TurnEngineProofs` has all three).
- A cap of one: two turns exceed it. The owner is exempt.
- One message: it is followed from its queue to the turn that applies it.
- Two cards: one on file while another is answered, and ids that come again; a
  card is used again once it is free.
- Ceilings 2 and 5: with 2 the goal check meets the ceiling; 5 has room below it
  for a failed call, the re-ask, the statement, the answer reprompt and the answer.
  Each reprompt happens at most once, so more rounds repeat the same.
- The convergence guard needs three equal rounds: ceiling 5 reaches it.
- `Limit` = 1 in units of what a round uses.
- `thread_store`: two threads are the source and the target of a fork, two agents
  an owner and a stranger, two messages what was there and what comes.
  `CONSTRAINT Followed` stops at states in which a thread is marked `tangled` or
  `raced`: nothing is claimed of such a thread, and marks never go away. It cuts
  no state that a property looks at except those in which *another* thread is
  marked. `CONSTRAINT OneMemory` stops where a second thread has got
  memories, as by a fork. `ThreadStoreProofs` has no such bounds.
- `subagents`: three for two places, so that one is refused, and one that gets the
  place another gives back.
- `client_tools`: two calls, so that the late answer of one meets the other; two
  deaths, one of each agent's connections or both of one's.
- `mcp_client`: three objects are two servers and a replacement of either; a second
  run that overlaps the first, after the boot that fills the table.
- `pairing`: two agents are the owner and one that is paired; two pairing ids, so
  that an approved one waits beside one that is asked for, goes stale or is swept.
  The two connections of the other client are interchangeable.
- `bot_supervisor`: two pids, one of which another guest may take; overlapping
  needs one thread of either kind.
- `agent_daemon`: two daemons, one stale and one fresh; one update makes a version
  stale.

The theorems of section 5 hold without these bounds.

### Further counterexamples

These configurations are kept beside the runs of `PROJECT.json`. Each checks one
property and TLC finds it violated. Run them with `tlc -workers 2 -config X.cfg M.tla`.

| Configuration, module | Property | What happens |
|---|---|---|
| `TurnEngineCap.cfg`, `MCTurnEngine` | CapRespected | a slot is taken before the starting broadcasts and `RUNNING` written after them (serve.py:2288-2306); a second start prunes the slot in between (serve.py:372) |
| `TurnEngineSteer.cfg`, `MCTurnEngine` | SteerNotDiscarded | a message accepted for a turn that is about to end (serve.py:3606) is applied by no round |
| `ApprovalsTtl.cfg`, `MCApprovals` | ExpiredCardsDenied | a card past its deadline (comment at serve.py:570) is denied only when something else looks at it (serve.py:332) |
| `ApprovalsGrant.cfg`, `MCApprovals` | GrantHonoured | an "always" sent as a method-less frame is recorded where no loop reads it (serve.py:2459-2462); and an owner's turn whose connection has closed reads no grants, its own included (serve.py:1374-1375), though a standing grant "survives turns" (agent/README.md:97-98) |
| `RoundLoopFinal.cfg`, `MCRoundLoop` | FinalIsLast | a round announced as final (serve.py:1961-1966) is followed by another |
| `RoundLoopAnswer.cfg`, `MCRoundLoop` | AnswerSaysUnfinished | the statement that a task did not finish (serve.py:1933-1938) goes into the round before the answer (serve.py:2070) |
| `RoundLoopBudget.cfg`, `MCRoundLoop` | BudgetStopsTurn | a turn's own usage never stops its next round (serve.py:1679-1687) |
| `ThreadStoreReplay.cfg`, `MCThreadStore` | ReplayOwn | "drop turns owned by another agent" (threads.py:413): the filter reads a key no turn has, so a turn is replayed to another agent that resumes the thread after it was archived |
| `OwnerCache.cfg`, `OwnerCache` | OwnerCacheFresh | the owner cached for a thread, said never to go stale (serve.py:101-105), stays when another agent imports over it (threads.py:569-615) |
| `SubagentsDone.cfg`, `MCSubagents` | DoneIsSaved | a subagent whose turn was refused for quota or cancelled is reported done (serve.py:593-611): `_run_turn` handles its cancellation, so `real.cancelled()` is false |
| `McpClientStale.cfg`, `MCMcpClient` | RemovedUncallable | mcp restart clears the table and the index but not `TOOLS`; a server removed by then keeps its proxies through every later refresh (agent/README.md:192-193 says removed ones are unregistered) |
| `BotSupervisorGuard.cfg`, `CrashLoop` | CrashLoopGuarded | the restart of a dead bot clears the streak that should stop restarts (BotSupervisor.kt:213; comment at 274-277) |
| `BotSupervisorStop.cfg`, `BotSupervisor` | StopKills | "Stop [name] (or every tracked bot) by verified pid" (BotSupervisor.kt:231): a kill that could not be run leaves the bot alive, reported stopped and without a pid file (BotSupervisor.kt:252-262) |
| `AgentDaemonStop.cfg`, `MCAgentDaemon` | StopKills | "Stop the daemon started by [ensure]" (AgentDaemon.kt:101): the same of the daemon (AgentDaemon.kt:181-202, 250-255), while a terminal's extraction has deleted busybox (Userland.kt:1483) |
| `AgentDaemonFresh.cfg`, `MCAgentDaemon` | FreshOnceEnsured | a terminal start extracts a new version under a live daemon; the next `ensure` sees no change and keeps the old code (AgentDaemon.kt:72; comment at 32-37) |

## 4. Fairness

- `TurnEngine!FairSpec`: weak fairness of each handler's step, of `Begin`, of
  `Settle` and of the end of a turn. The asyncio loop runs every ready task, and
  a turn ends whatever the model does; that is `TurnEnds` below. Which way it ends
  is open. Clients are never obliged to send, cancel or disconnect.
- `Approvals!FairSpec`: time passes, and a tool loop whose future is decided goes
  on. No client is obliged to answer. (Only `ApprovalsTtl.cfg` uses it.)
- `RoundLoop!FairSpec`: weak fairness of the turn's own steps: a stream ends at the
  round's time limit at the latest, a tool by its timeout, an approval by its
  answer. The last is an assumption: ExpiredCardsDenied shows that it can fail, and
  a turn that waits for ever on a card does not end. What `TurnEnds` says is that
  nothing in the loop itself keeps a turn going.
- `Subagents!FairSpec`: ready tasks run, a turn ends (`TurnEnds`), and whoever waits
  for a child's lock gets it when it is free, as asyncio's lock is first come,
  first served. Nobody is obliged to cancel.
- `ClientTools!FairSpec`: a write to a socket ends or raises, the timer of a wait
  fires, the handler of a dead connection runs its hooks. No client must answer.
- `BotSupervisor!FairSpec`: threads run, and the repeating alarm rings while it is
  armed. Nobody must start, stop or list.
- `AgentDaemon!FairDaemonSpec`: threads run, and a thread that waits for the userland's
  monitor gets it in the end (strong fairness, as Java's monitors are not queues).

## 5. Proofs

Every leaf is checked by tlapm; the assumptions are the named ASSUMEs of the
modules (a cap is positive, the owner is an agent, replies are sequences of calls,
ceilings are positive, sets that are counted are finite, bounds are naturals, a
boot is a run and there are server names, a "none" is no member), which TLC
evaluates in every run. No theorem bounds the number of threads, agents,
connections, calls, cards, bots, pids, children, servers, runs or updates. Every
safety property of a passing run is a theorem.

**TurnEngine** (`TurnEngineProofs`). *TypeCorrect*; *OneTurnPerThread*
(MutualExclusion); *SavedTurnsKept* (NoLostTurn); *SavedIdsUnique*
(RecordedIdsUnique); *ImplementsThreadLog* (every step of the engine is a step of
`ThreadLog` or a stutter). NoLostTurn is not inductive: it says nothing of the
state that a turn carries from its start to its save. The invariant adds that a
task in the critical section holds its thread's lock, that its snapshot contains
every turn saved so far, and that its counter is beyond theirs. The audit log is
part of it, since a missing file is rebuilt from it.

Two more theorems rest on a second invariant, *TurnInvariance*, proved on top of
the first: *SteersStayWithTheirTurn* (SteerNeverResurfaces) and *QuotaRefusals*
(QuotaRefusalJustified). A turn's id is its thread and its counter, and neither
changes once the turn has begun; but a turn that saves nothing gives its id to the
next of the thread, so that two requests may share one, and with it a queue. The
invariant says where a queued message stands (`QueueInv`) and that one folded by
another request than it was sent to was sent to one that ended without saving
(`FoldInv`). A slot is
occupied by a request that is charged to that agent and holds its thread's lock,
or died with it, as one whose provider could not be opened (`SlotInv`). That is
needed because a start prunes slots by id alone: the turn in `RUNNING` that keeps a
slot is then the one that took it, and different slots have different turns.

*WaitersGoOn* (NobodyStranded) is the part of WaitersServed that is no liveness,
and holds for any number of requests: whoever waits has something to wait for. Its
invariant (*WaitInvariance*) is that a lock is held by a turn of its own thread
that is under way or died, that a waiter stands in its thread's queue and a queue
holds only requests of its thread, and that the victim of a replacing steer was
told to end. That one of them may take a free lock then follows since the naturals
are well ordered: the queue has a first that still waits. What is left of
WaitersServed to TLC is that tasks that can run do run.

**Approvals** (`ApprovalsProofs`). *TypeCorrect*, *WaitsAreFiled* (NoOrphanWait),
*FiledCardsAwaited* (NoPhantomCard), *CardsReachClients* (EveryClientSeesCard),
*OwnGrantsHold* (OwnGrantHonoured). Card ids come again, so that a new card does
not replace a filed one has to be shown: a thread has at most one card, since its
turn waits while it is filed, and the id begins with the thread. The invariant
states this, and that the futures, the cards and the waiting turns correspond.

**RoundLoop** (`RoundLoopProofs`). *TypeCorrect*, *CeilingHolds* (RoundsBounded),
*FailuresAlwaysStated* (FailuresStated), *AnswersAnnounced* (AnswerAnnounced),
*TurnsBilled* (EveryTurnBilled), *ClientsTold* (ClientTold). RoundsBounded needs
that a round about to begin is still owed, by the ceiling, a reprompt or a
message, and that the goal check asks only below the ceiling. FailuresStated
and AnswerAnnounced need that what the end of the stream established (`GoalInv`,
`AnnounceInv`) still holds when the round is decided upon, after an await in which
messages may arrive. ClientTold holds of answered, stopped, failed, cancelled and
crashed turns alike; only a handler that is cancelled while it sends the end is
excepted, and `EndInv` says that it was. *TurnsAdvance* (TurnAdvances) does the same
for TurnEnds: of the rounds that a turn may still begin, its place in the round or
in its end, and the calls left of the round, each step lowers the first, or keeps it
and lowers the next (`Nearer`), a failure, an exception and a cancellation included.
It rests on RoundInv, without which the rounds left could be fewer than none. Only
messages raise it, by a round each (`SteerAddsOne`). That such a descent ends, and
that the steps are taken, is left to TLC and to the fairness of section 4.

**ThreadStore** (`ThreadStoreProofs`). *TypeCorrect*, *ContentOwned* (OwnContent),
*NothingLost* (Recoverable). A turn and a compaction save over a file what they
loaded before it. The invariant says that for an unmarked thread the file is still
what they loaded (`Snapped`), or still missing where they loaded nothing; and,
thread by thread, the two properties. What an agent was shown by the audit log stays
shown, so that what fits a file goes on to fit it (`FitsStays`), and a file rebuilt
from the log fits whom it is rebuilt for (`ShowsFits`). OwnContent claims nothing of
what is replayed.

**ClientTools** (`ClientToolsProofs`). *TypeCorrect*, *NoWaitOrphaned*
(NoOrphanedWait), *AnswersOwn* (AnswerIsOwn). That an answer finds its own call
rests on ids never coming again: `seq` is the number of calls made, each has the
id it got, and what is on the wire bears the id of the call it answers. That no
wait is orphaned needs the hook to find every open future under its id.

**Pairing** (`PairingDaemonProofs`). *TypeCorrect*; *RevokedStaysGone* (RevokedGone), from
an invariant about the two socket maps, the tokens that wait to be fetched and the
answers under way; *OwnerKeepsKey* (OwnerHoldsKey), for which it is needed that
nobody but the owner holds or is sent its key, so that no other client's loss or
revocation touches it. *TokensHandedOnce* (HandedOnce): every token is somewhere
(`Placed`) and in no two places (`Alone`), for which it is needed that a request
still open has no token stashed, so that an approval writes over none, and that a
token is minted once. Both rest on the first invariant.

**BotSupervisor** (`BotSupervisorProofs`). *TypeCorrect*, *BotsSupervised*
(Supervised), *StoppedStaysDown* (StopHolds). What a thread has read of a bot must
still hold when it acts: of a bot on which operations never overlapped one thread
at most holds anything (`HoldInv`), no copy runs when it is about to spawn or to
delete the pid file, and only the one it names when it is about to write or kill
(`FirmInv`). StopHolds needs both autostart files (`ListInv`), since a bot left in
one of them would be started by the next tick. Both are claimed of bots without a
mark: none whose kill failed, whose pid was lost, or that a failed write left listed.

**Subagents** (`SubagentsMcpProofs`). *TypeCorrect*, *ReportsAreOver* (ReportedOver),
*CapRespectedBySubagents* (CapHolds). The cap is tested against entries and claimed
of drivers and turns: an entry is listed from its spawn to its driver's report, and
the driver follows its turn for as long as that lives (`DriverInv`), since nothing
that cancels a driver reaches it while its turn is in `RUNNING`.

**AgentDaemon** (`PairingDaemonProofs`). *DaemonTypeCorrect* (DaemonTypeOK),
*DaemonsKnown* (DaemonKnown), *DaemonsFresh* (FreshUnlessMissed), from
*DaemonInvariance*. What a thread found out before it waited must still hold when
it acts. At most one thread is past the `starting` flag (`FlagInv`), and whoever
extracts holds the userland's lock (`UserlandInv`). Unless threads raced, or a kill
failed before its file was given up, a daemon lives only where daemon.pid or the
thread that has just spawned it names it, and none does where a thread is about to
spawn or to delete the file (`KnownInv`). A thread that has been given the userland
has it at the installed version (`MarkerInv`); what lives runs that version unless a
thread has still to find out and kill it, or it was missed (`FreshInv`).

**McpClient** (`SubagentsMcpProofs`). *McpTypeCorrect* (McpTypeOK), *NoStrays*
(NoStrayProcess), *ListedAreCallable* (ListedCallable), from *McpInvariance*.
NoStrayProcess speaks of processes, and a process comes after the object: an
object is brought up by one run (`OwnInv`) and has no process before that run has
spawned it (`ProcInv`). Every object that was not told to go is in the table or on
the record as a stray, those that have yet to spawn included; and a run that stops
all has told, or still has to tell, everything that the table holds (`StrayInv`),
without which its clearing of the table would lose them. ListedCallable is
inductive with it.

Only model-checked: the liveness properties WaitersServed, TurnEnds,
ListedRestarted, StartingReleased, CallsEnd and PlaceReturned
(liveness under fairness is out of the prover's reach). The violations are
counterexamples and need no proof.

## 6. What is not modelled

- Provider adapters, call parsers, the tools themselves, the local models gateway
  and the user interface: text, I/O and layout. A turn sees a stream as its calls
  and its failures. Of the userland installer only what its callers see is
  modelled (`AgentDaemon`).
- The vendored Python and its standard library in the app's assets, and the copy of
  the daemon there, which is `agent/` but for `pconfig.py` and `skills.py`.
- The tab bridge and control socket, and the terminal sessions (`Pty.kt`), except
  that a terminal start extracts the userland.
- Policy and configuration as such: merging, defaults, resolution of providers and
  sandboxes. Grants, the cap, the token budget and what revocation removes are in
  the modules that use them.
- In the turn engine: the text of a turn, attachments, sandboxes, the owner's
  consent.
- In approvals: revoking grants, approval_mode never, and subagents (which run
  without a connection).
- In the round loop: the text that is folded, notices, process tracking, wall-clock
  values, and the failure of the policy file (which is logged and ignored).
- In the thread store: deletion of memories, the migration at boot, listing and
  unsubscribing, and what the text of a transcript keeps of a message.
- In subagents: the status queries (they change nothing), access checks, forked
  context, whom a turn is billed to.
- In the MCP client: calls and their futures, servers over HTTP, servers that change
  their tools.
- In pairing: a failing write of agents.json, and methods other than turns and
  writes to the agent's section.
- In the bot supervisor and the daemon control: file operations that fail, other than
  the write of a pid or of the autostart list (a failing delete of the legacy list,
  an unreadable pid file); status queries, log rotation, the sharing of directories,
  processes without proot in their command line (which every check of the code
  takes for none).
- Crashes of the daemon process are in `ThreadStore`, `Pairing` and `AgentDaemon`;
  nothing of a running turn, card or subagent is persisted, and a thread file is
  written by an atomic replacement.

## 7. Plan

1. *(done)* `TurnEngine`, `ThreadLog`; `Approvals`; `RoundLoop`: runs, proofs,
   refinement.
2. *(done)* `ThreadStore`, `Subagents`, `ClientTools`, `Pairing`, `BotSupervisor`:
   runs and proofs. `OwnerCache`, `CrashLoop`: compositions.
3. *(done)* `AgentDaemon`, `McpClient`: runs and proofs.
4. MCP calls: a request's future against a restart, an exit and a timeout.
5. `RoundLoop` as a refinement of the turn that `TurnEngine` has: its ends map to
   `Finish`, `Truncate`, `Fail` and `Crash`.
6. `PtySession`: reader, writer and close on descriptors that are reused; the reply
   table of the tab bridge.

## 8. Running it

    tlc -workers 2 -config TurnEngine.cfg MCTurnEngine.tla
    tlc -workers 2 -config TurnEngineLive.cfg MCTurnEngine.tla
    tlc -workers 2 -config TurnEngineLock.cfg MCTurnEngine.tla
    tlc -workers 2 -config Approvals.cfg MCApprovals.tla
    tlc -workers 2 -config RoundLoop.cfg MCRoundLoop.tla
    tlc -workers 2 -config ThreadStore.cfg MCThreadStore.tla
    tlc -workers 2 -config Subagents.cfg MCSubagents.tla
    tlc -workers 2 -config ClientTools.cfg MCClientTools.tla
    tlc -workers 2 -config McpClient.cfg MCMcpClient.tla
    tlc -workers 2 -config Pairing.cfg MCPairing.tla
    tlc -workers 2 -config BotSupervisor.cfg MCBotSupervisor.tla
    tlc -workers 2 -config AgentDaemon.cfg MCAgentDaemon.tla

    tlapm M.tla   for M in TurnEngineProofs, ApprovalsProofs, RoundLoopProofs,
                  ThreadStoreProofs, ClientToolsProofs, PairingDaemonProofs,
                  BotSupervisorProofs, SubagentsMcpProofs
