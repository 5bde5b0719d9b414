---------------------------- MODULE TurnEngine ----------------------------
(* The turn engine of the agent daemon (agent/serve.py): how handle_turn,   *)
(* _run_turn, turn/steer, cancel and a socket's disconnect share the        *)
(* per-thread lock, the RUNNING table, the slots of the concurrency cap,    *)
(* the queue of steering messages and the thread files.                     *)
(*                                                                          *)
(* One asyncio loop runs every handler, so a handler is atomic between two  *)
(* awaits: an action below is the code between two suspension points.       *)
(* A Request is one handler task (a `turn` or a restarting `turn/steer`)    *)
(* together with the turn task it creates.                                  *)
EXTENDS Naturals, FiniteSets, Sequences, Functions

CONSTANTS
    Threads,      \* thread ids
    Agents,       \* paired agents
    Owner,        \* the owner among them: exempt from the concurrency cap
    NoAgent,      \* the empty agent id: no caller, or an unowned thread
    Requests,     \* handler tasks
    Socks,        \* websocket connections
    SocketAgent,  \* the agent each connection authenticated as
    Msgs,         \* steering messages sent with start = false
    Cap,          \* agent_quota(...)["concurrency"] of each agent
    Stored,       \* owner stamped in each thread's file at boot, or NoFile
    NoFile,       \* no state file
    None          \* no request

ASSUME OwnerAssumption == Owner \in Agents /\ NoAgent \notin Agents
ASSUME SocketAssumption == SocketAgent \in [Socks -> Agents]
ASSUME CapAssumption == Cap \in [Agents -> Nat \ {0}]
ASSUME NoneAssumption == None \notin Requests
ASSUME NonEmptyAssumption == Threads # {} /\ Socks # {}
ASSUME StoredAssumption ==
    /\ NoFile \notin Agents \cup {NoAgent}
    /\ NoFile \notin [agent : Agents \cup {NoAgent}, turns : Nat,
                      log : Seq(Requests), notes : SUBSET Msgs]
    /\ Stored \in [Threads -> Agents \cup {NoAgent, NoFile}]

Callers == Agents \cup {NoAgent}

(* A thread's state: its owner, its turn counter, the turns folded into its *)
(* history, and the steering notes appended to it.                          *)
States == [agent : Callers, turns : Nat, log : Seq(Requests), notes : SUBSET Msgs]

TurnIds == Threads \X Nat     \* f"{thread_id}:{state['turns']}"

VARIABLES
    pc,             \* where each handler or turn task is
    thread, sock,   \* the thread and the connection of a request
    caller,         \* _caller_agent(client_socket) as the handler read it
    victim,         \* the turn a restarting steer waits for
    snap,           \* the state a turn loaded when it took the lock
    holder,         \* _thread_locks: who holds each thread's lock
    waiters,        \* ... and its FIFO of waiting handlers
    RUNNING,        \* RUNNING: turns whose task is registered
    agent_turns,    \* _agent_turns: the slots each agent occupies
    disk,           \* THREADS_DIR: each thread's state file
    thread_agents,  \* _thread_agents: the owner broadcasts of a thread go to
    audited,        \* AUDIT_FILE: each thread's turns that were not cancelled
    pending_steer,  \* _pending_steer: messages queued under a turn id
    addressee,      \* the turn a message was queued for
    appliedBy,      \* the turn that folded it into a round
    noted,          \* messages written to a thread's history instead
    recorded,       \* turns record_turn has saved
    up              \* open connections

vars == <<pc, thread, sock, caller, victim, snap, holder, waiters, RUNNING,
          agent_turns, disk, thread_agents, audited, pending_steer, addressee,
          appliedBy, noted, recorded, up>>
request == <<thread, sock, caller, victim>>
slots   == <<RUNNING, agent_turns>>
files   == <<disk, audited, recorded>>
steers  == <<pending_steer, addressee, appliedBy, noted>>

Places == {"idle", "steering", "waiting", "starting", "spawned", "running",
           "completing", "cancelling", "done", "foreign", "overQuota", "dead"}

(* Places at which a request has taken its thread's lock and the task that  *)
(* is to release it is alive.                                               *)
Critical == {"starting", "spawned", "running", "completing", "cancelling"}
InTask   == Critical \ {"starting"}

TypeOK ==
    /\ pc \in [Requests -> Places]
    /\ thread \in [Requests -> Threads]
    /\ sock \in [Requests -> Socks]
    /\ caller \in [Requests -> Callers]
    /\ victim \in [Requests -> Requests \cup {None}]
    /\ snap \in [Requests -> States]
    /\ holder \in [Threads -> Requests \cup {None}]
    /\ waiters \in [Threads -> Seq(Requests)]
    /\ RUNNING \in SUBSET Requests
    /\ agent_turns \in [Agents -> SUBSET TurnIds]
    /\ disk \in [Threads -> States \cup {NoFile}]
    /\ thread_agents \in [Threads -> Callers]
    /\ audited \in [Threads -> Seq(Requests)]
    /\ pending_steer \in SUBSET (TurnIds \X Msgs)
    /\ addressee \in [Msgs -> Requests \cup {None}]
    /\ appliedBy \in [Msgs -> Requests \cup {None}]
    /\ noted \in SUBSET Msgs
    /\ recorded \in SUBSET Requests
    /\ up \in SUBSET Socks

NewState(a) == [agent |-> a, turns |-> 0, log |-> <<>>, notes |-> {}]

Init ==
    /\ pc = [r \in Requests |-> "idle"]
    /\ thread = [r \in Requests |-> CHOOSE t \in Threads : TRUE]
    /\ sock = [r \in Requests |-> CHOOSE s \in Socks : TRUE]
    /\ caller = [r \in Requests |-> NoAgent]
    /\ victim = [r \in Requests |-> None]
    /\ snap = [r \in Requests |-> NewState(NoAgent)]
    /\ holder = [t \in Threads |-> None]
    /\ waiters = [t \in Threads |-> <<>>]
    /\ RUNNING = {}
    /\ agent_turns = [a \in Agents |-> {}]
    /\ disk = [t \in Threads |->
                 IF Stored[t] = NoFile THEN NoFile ELSE NewState(Stored[t])]
    /\ thread_agents = [t \in Threads |-> NoAgent]
    /\ audited = [t \in Threads |-> <<>>]
    /\ pending_steer = {}
    /\ addressee = [m \in Msgs |-> None]
    /\ appliedBy = [m \in Msgs |-> None]
    /\ noted = {}
    /\ recorded = {}
    /\ up = Socks

----
(* Operators *)

(* Mutant: a turn starts from an empty state whatever the file holds.       *)
LoadedFresh(t, a) == NewState(a)

Loaded(t, a) == IF disk[t] = NoFile THEN NewState(a) ELSE disk[t]

(* Cross-agent confinement: a paired caller meets a file another agent owns. *)
Foreign(t, a) ==
    disk[t] # NoFile /\ a # NoAgent /\ disk[t].agent \notin {a, NoAgent}

(* materialize_state: the file, or one rebuilt from the audited turns.      *)
Materialized(t, a) ==
    IF disk[t] = NoFile /\ audited[t] # <<>>
      THEN [agent |-> a, turns |-> Len(audited[t]), log |-> audited[t], notes |-> {}]
      ELSE disk[t]
Unknown(t) == disk[t] = NoFile /\ audited[t] = <<>>

(* broadcast: an event of a thread goes to the connections of the owner     *)
(* that was cached for it, or else of the one its file names (named), which *)
(* is cached then; when neither names an owner, to every connection. It may *)
(* suspend only when there is a connection to send it to.                   *)
Named(t)            == IF disk[t] = NoFile THEN NoAgent ELSE disk[t].agent
Addressee(t, named) == IF thread_agents[t] # NoAgent THEN thread_agents[t] ELSE named
Heard(t, named) ==
    \E s \in up : Addressee(t, named) \in {NoAgent, SocketAgent[s]}
Tell(t, named)  ==
    thread_agents' = [thread_agents EXCEPT ![t] = Addressee(t, named)]

(* Mutant: turn ids without the counter.                                    *)
TurnIdOfThread(r) == <<thread[r], 0>>

TurnId(r)    == <<thread[r], snap[r].turns>>
TurnAgent(r) == IF snap[r].agent # NoAgent THEN snap[r].agent ELSE caller[r]
Alive(r)     == r \in RUNNING /\ pc[r] # "dead"      \* not RUNNING[t].done()
RunningOn(t) == {r \in RUNNING : thread[r] = t}

(* Mutant: slots are counted without being pruned against RUNNING.          *)
LiveTurnsUnpruned(a) == agent_turns[a]

(* _live_agent_turns *)
LiveTurns(a) == {id \in agent_turns[a] : \E r \in RUNNING : Alive(r) /\ TurnId(r) = id}

(* _may_signal, which looks at the thread the caller names beside the turn. *)
MaySignal(a, r) ==
    \/ a = Owner
    \/ TurnId(r) \in agent_turns[a]
    \/ \E t \in Threads : Named(t) = a

Queued(id) == {m \in Msgs : <<id, m>> \in pending_steer}

(* task.cancel(): a task that never ran is finished without entering its    *)
(* body; one at an await runs the CancelledError handler.                   *)
Cancelled(p) == CASE p = "spawned" -> "dead"
                  [] p \in {"running", "completing"} -> "cancelling"
                  [] OTHER -> p

(* Mutant: the lock is not given back.                                      *)
ReleaseKeepsLock(r) ==
    /\ UNCHANGED holder
    /\ RUNNING' = RUNNING \ {r}
    /\ agent_turns' = [a \in Agents |-> agent_turns[a] \ {TurnId(r)}]

(* The finally block of _run_turn, and the except block of handle_turn.     *)
Release(r) ==
    /\ holder' = [holder EXCEPT ![thread[r]] = None]
    /\ RUNNING' = RUNNING \ {r}
    /\ agent_turns' = [a \in Agents |->
                         IF a = TurnAgent(r) THEN agent_turns[a] \ {TurnId(r)}
                                             ELSE agent_turns[a]]
----
(* handle_turn *)

(* A `turn` request arrives and queues for its thread's lock.               *)
Submit(r, s, t) ==
    /\ pc[r] = "idle" /\ s \in up
    /\ pc' = [pc EXCEPT ![r] = "waiting"]
    /\ thread' = [thread EXCEPT ![r] = t]
    /\ sock' = [sock EXCEPT ![r] = s]
    /\ caller' = [caller EXCEPT ![r] = SocketAgent[s]]
    /\ waiters' = [waiters EXCEPT ![t] = Append(@, r)]
    /\ UNCHANGED <<victim, snap, holder, slots, files, steers,
                   thread_agents, up>>

(* Mutant: the queue is served while the lock is held.                      *)
TakesLockHeld(r) ==
    LET t == thread[r] IN
    /\ pc[r] = "waiting"
    /\ \E i \in 1..Len(waiters[t]) :
         /\ waiters[t][i] = r
         /\ waiters' = [waiters EXCEPT ![t] = SubSeq(@, i + 1, Len(@))]

(* r is the first waiter of a free lock that is not cancelled.              *)
TakesLock(r) ==
    LET t == thread[r] IN
    /\ pc[r] = "waiting" /\ holder[t] = None
    /\ \E i \in 1..Len(waiters[t]) :
         /\ waiters[t][i] = r
         /\ \A j \in 1..(i - 1) : pc[waiters[t][j]] # "waiting"
         /\ waiters' = [waiters EXCEPT ![t] = SubSeq(@, i + 1, Len(@))]

RefuseForeign(r) ==
    /\ TakesLock(r) /\ Foreign(thread[r], caller[r])
    /\ pc' = [pc EXCEPT ![r] = "foreign"]
    /\ UNCHANGED <<request, snap, holder, slots, files, steers,
                   thread_agents, up>>

(* The state r's turn works on, the agent charged for it and its slot.      *)
Base(r)  == Loaded(thread[r], caller[r])
Payer(r) == IF Base(r).agent # NoAgent THEN Base(r).agent ELSE caller[r]
Capped(r) == Payer(r) \in Agents \ {Owner}
AtCap(r)  == Capped(r) /\ Cardinality(LiveTurns(Payer(r))) >= Cap[Payer(r)]

RefuseQuota(r) ==
    /\ TakesLock(r) /\ ~Foreign(thread[r], caller[r]) /\ AtCap(r)
    /\ pc' = [pc EXCEPT ![r] = "overQuota"]
    /\ agent_turns' = [agent_turns EXCEPT ![Payer(r)] = LiveTurns(Payer(r))]
    /\ UNCHANGED <<request, snap, holder, RUNNING, files, steers,
                   thread_agents, up>>

Slotted(r) ==
    IF Capped(r)
      THEN [agent_turns EXCEPT ![Payer(r)] =
              LiveTurns(Payer(r)) \cup {<<thread[r], Base(r).turns>>}]
      ELSE agent_turns

(* The lock, the state and the slot are taken together. The thread/started  *)
(* and turn/started broadcasts follow; when they can suspend, the turn is   *)
(* registered in RUNNING only by a later step (Launch).                     *)
Start(r) ==
    LET t == thread[r] IN
    /\ TakesLock(r) /\ ~Foreign(t, caller[r]) /\ ~AtCap(r)
    /\ holder' = [holder EXCEPT ![t] = r]
    /\ snap' = [snap EXCEPT ![r] = Base(r)]
    /\ agent_turns' = Slotted(r)
    /\ Tell(t, Named(t))
    /\ IF Heard(t, Named(t))
         THEN /\ pc' = [pc EXCEPT ![r] = "starting"]
              /\ RUNNING' = RUNNING
         ELSE /\ pc' = [pc EXCEPT ![r] = "spawned"]
              /\ RUNNING' = RUNNING \cup {r}
    /\ UNCHANGED <<request, files, steers, up>>

(* Building the prompt raised inside the try, in the same step when nobody  *)
(* hears the broadcasts: everything is given back at once.                  *)
StartFails(r) ==
    LET t == thread[r] IN
    /\ TakesLock(r) /\ ~Foreign(t, caller[r]) /\ ~AtCap(r)
    /\ ~Heard(t, Named(t))
    /\ Tell(t, Named(t))
    /\ pc' = [pc EXCEPT ![r] = "done"]
    /\ agent_turns' = [a \in Agents |->
                         IF a = Payer(r) /\ Capped(r)
                           THEN LiveTurns(a) \ {<<t, Base(r).turns>>}
                           ELSE agent_turns[a]]
    /\ UNCHANGED <<request, snap, holder, RUNNING, files, steers, up>>

(* An exception between the lock and the try: no except block gives the     *)
(* lock back, nor the slot when it is already taken.                        *)
StartRaises(r) ==
    /\ TakesLock(r) /\ ~Foreign(thread[r], caller[r])
    /\ holder' = [holder EXCEPT ![thread[r]] = r]
    /\ snap' = [snap EXCEPT ![r] = Base(r)]
    /\ pc' = [pc EXCEPT ![r] = "dead"]
    /\ \/ UNCHANGED agent_turns                      \* resolve_sandbox
       \/ ~AtCap(r) /\ agent_turns' = Slotted(r)    \* open_provider
    /\ UNCHANGED <<request, RUNNING, thread_agents, files, steers, up>>

Launch(r) ==
    /\ pc[r] = "starting"
    /\ pc' = [pc EXCEPT ![r] = "spawned"]
    /\ RUNNING' = RUNNING \cup {r}
    /\ UNCHANGED <<request, snap, holder, waiters, agent_turns, files, steers,
                   thread_agents, up>>

(* Building the prompt raised inside the try: everything is given back.     *)
LaunchFails(r) ==
    /\ pc[r] = "starting"
    /\ pc' = [pc EXCEPT ![r] = "done"]
    /\ Release(r)
    /\ UNCHANGED <<request, snap, waiters, files, steers, thread_agents, up>>
----
(* _run_turn and _execute_turn *)

Begin(r) ==
    /\ pc[r] = "spawned"
    /\ pc' = [pc EXCEPT ![r] = "running"]
    /\ UNCHANGED <<request, snap, holder, waiters, slots, files, steers,
                   thread_agents, up>>

(* A round boundary: _drain_steer takes what is queued under the turn's id. *)
FoldSteer(r) ==
    LET ms == Queued(TurnId(r)) IN
    /\ pc[r] = "running" /\ ms # {}
    /\ pending_steer' = pending_steer \ ({TurnId(r)} \X ms)
    /\ appliedBy' = [m \in Msgs |-> IF m \in ms THEN r ELSE appliedBy[m]]
    /\ UNCHANGED <<pc, request, snap, holder, waiters, slots, files,
                   addressee, noted, thread_agents, up>>

(* The closing broadcasts, then the finally block; one step when nothing is *)
(* delivered and so nothing suspends.                                       *)
Close(r, named) ==
    /\ Tell(thread[r], named)
    /\ IF Heard(thread[r], named)
         THEN /\ pc' = [pc EXCEPT ![r] = "completing"]
              /\ UNCHANGED <<holder, slots>>
         ELSE /\ pc' = [pc EXCEPT ![r] = "done"]
              /\ Release(r)

(* Mutant: the counter is not advanced.                                     *)
AfterTurnUncounted(state, r) == [agent |-> state.agent, turns |-> state.turns,
                                 log |-> Append(state.log, r), notes |-> state.notes]

(* record_turn saves the state loaded at the start plus this turn; the      *)
(* audit line follows.                                                      *)
AfterTurn(state, r) == [agent |-> state.agent, turns |-> state.turns + 1,
                        log |-> Append(state.log, r), notes |-> state.notes]

Record(r) ==
    /\ disk' = [disk EXCEPT ![thread[r]] = AfterTurn(snap[r], r)]
    /\ audited' = [audited EXCEPT ![thread[r]] = Append(@, r)]
    /\ recorded' = recorded \cup {r}

(* A pure answer ends the turn only when no message is queued for it.       *)
Finish(r) ==
    /\ pc[r] = "running" /\ Queued(TurnId(r)) = {}
    /\ Record(r)
    /\ Close(r, snap[r].agent)
    /\ UNCHANGED <<request, snap, waiters, steers, up>>

(* Token budget, time limit or round backstop: the loop breaks undrained.   *)
Truncate(r) ==
    /\ pc[r] = "running"
    /\ Record(r)
    /\ Close(r, snap[r].agent)
    /\ UNCHANGED <<request, snap, waiters, steers, up>>

(* A provider error, or a save that failed: audited but not recorded.       *)
Fail(r) ==
    /\ pc[r] = "running"
    /\ audited' = [audited EXCEPT ![thread[r]] = Append(@, r)]
    /\ Close(r, Named(thread[r]))
    /\ UNCHANGED <<request, snap, waiters, disk, recorded, steers, up>>

(* Any other exception: neither recorded nor audited.                       *)
Crash(r) ==
    /\ pc[r] = "running"
    /\ Close(r, Named(thread[r]))
    /\ UNCHANGED <<request, snap, waiters, files, steers, up>>

Settle(r) ==
    /\ pc[r] \in {"completing", "cancelling"}
    /\ pc' = [pc EXCEPT ![r] = "done"]
    /\ Release(r)
    /\ UNCHANGED <<request, snap, waiters, files, steers, thread_agents, up>>

(* Any other broadcast of a turn (a delta, a card). What is sent about a    *)
(* thread between its turns (a new name) caches no other owner than the     *)
(* next Start does: a file changes its owner only in a turn's save.         *)
Broadcast(t) ==
    /\ \E r \in Requests : pc[r] \in Critical /\ thread[r] = t
    /\ Addressee(t, Named(t)) # thread_agents[t]
    /\ Tell(t, Named(t))
    /\ UNCHANGED <<pc, request, snap, holder, waiters, slots, files, steers, up>>
----
(* cancel, turn/steer and disconnect *)

(* Mutant: cancel frees the thread at once, before the turn has settled.    *)
CancelFrees(s, r) ==
    /\ s \in up /\ Alive(r) /\ MaySignal(SocketAgent[s], r)
    /\ pc' = [pc EXCEPT ![r] = Cancelled(@)]
    /\ holder' = [holder EXCEPT ![thread[r]] = None]
    /\ UNCHANGED <<request, snap, waiters, slots, files, steers,
                   thread_agents, up>>

(* The cancel method, naming the turn by its own id or its thread.          *)
Cancel(s, r) ==
    /\ s \in up /\ Alive(r) /\ MaySignal(SocketAgent[s], r)
    /\ Cancelled(pc[r]) # pc[r]
    /\ pc' = [pc EXCEPT ![r] = Cancelled(@)]
    /\ UNCHANGED <<request, snap, holder, waiters, slots, files, steers,
                   thread_agents, up>>

MaySteer(s, t) == s \in up /\ ~Foreign(t, SocketAgent[s])
Unsent(m)      == addressee[m] = None /\ m \notin noted

(* start = false with a turn running: queue the message for it.             *)
SteerQueue(s, m, t) ==
    /\ MaySteer(s, t) /\ Unsent(m)
    /\ \E r \in RunningOn(t) :
         /\ Alive(r)
         /\ pending_steer' = pending_steer \cup {<<TurnId(r), m>>}
         /\ addressee' = [addressee EXCEPT ![m] = r]
    /\ UNCHANGED <<pc, request, snap, holder, waiters, slots, files,
                   appliedBy, noted, thread_agents, up>>

(* start = false with none running: append the message to the history.      *)
SteerNote(s, m, t) ==
    /\ MaySteer(s, t) /\ Unsent(m)
    /\ \A r \in RunningOn(t) : ~Alive(r)
    /\ ~Unknown(t)
    /\ LET state == Materialized(t, SocketAgent[s]) IN
         disk' = [disk EXCEPT ![t] = [state EXCEPT !.notes = @ \cup {m}]]
    /\ noted' = noted \cup {m}
    /\ UNCHANGED <<pc, request, snap, holder, waiters, slots, audited, recorded,
                   pending_steer, addressee, appliedBy, thread_agents, up>>

(* start = true with none running: an ordinary turn on a known thread.      *)
SteerStart(r, s, t) ==
    /\ pc[r] = "idle" /\ MaySteer(s, t)
    /\ \A q \in RunningOn(t) : ~Alive(q)
    /\ ~Unknown(t)
    /\ disk' = [disk EXCEPT ![t] = Materialized(t, SocketAgent[s])]
    /\ pc' = [pc EXCEPT ![r] = "waiting"]
    /\ thread' = [thread EXCEPT ![r] = t]
    /\ sock' = [sock EXCEPT ![r] = s]
    /\ caller' = [caller EXCEPT ![r] = SocketAgent[s]]
    /\ waiters' = [waiters EXCEPT ![t] = Append(@, r)]
    /\ UNCHANGED <<victim, snap, holder, slots, audited, recorded, steers,
                   thread_agents, up>>

(* start = true with a turn running: cancel it and wait for its end.        *)
SteerReplace(r, s, t) ==
    /\ pc[r] = "idle" /\ MaySteer(s, t)
    /\ \E v \in RunningOn(t) :
         /\ Alive(v)
         /\ pc' = [pc EXCEPT ![v] = Cancelled(@), ![r] = "steering"]
         /\ victim' = [victim EXCEPT ![r] = v]
    /\ thread' = [thread EXCEPT ![r] = t]
    /\ sock' = [sock EXCEPT ![r] = s]
    /\ UNCHANGED <<caller, snap, holder, waiters, slots, files, steers,
                   thread_agents, up>>

(* ... then drop what was queued for it and go on as a `turn`. A handler    *)
(* whose connection closed meanwhile swallowed its own cancellation in the  *)
(* wait, and now has no caller.                                             *)
SteerResume(r) ==
    LET t == thread[r] IN
    /\ pc[r] = "steering" /\ pc[victim[r]] \in {"done", "dead"}
    /\ pending_steer' = pending_steer \ ({TurnId(victim[r])} \X Msgs)
    /\ disk' = [disk EXCEPT ![t] = Materialized(t, SocketAgent[sock[r]])]
    /\ pc' = [pc EXCEPT ![r] = "waiting"]
    /\ caller' = [caller EXCEPT ![r] =
                    IF sock[r] \in up THEN SocketAgent[sock[r]] ELSE NoAgent]
    /\ waiters' = [waiters EXCEPT ![t] = Append(@, r)]
    /\ UNCHANGED <<thread, sock, victim, snap, holder, slots, audited, recorded,
                   addressee, appliedBy, noted, thread_agents, up>>

(* A connection closes: _cancel_runs_on_disconnect cancels every live turn  *)
(* in a slot of its agent, then the transport cancels the connection's own  *)
(* handlers. One that waits leaves the lock's queue; one suspended in the   *)
(* starting broadcasts ends there, outside any try.                         *)
Disconnect(s) ==
    LET live == LiveTurns(SocketAgent[s]) IN
    /\ s \in up
    /\ up' = up \ {s}
    /\ agent_turns' = [agent_turns EXCEPT ![SocketAgent[s]] = live]
    /\ pc' = [r \in Requests |->
                CASE Alive(r) /\ TurnId(r) \in live      -> Cancelled(pc[r])
                  [] pc[r] = "waiting" /\ sock[r] = s    -> "done"
                  [] pc[r] = "starting" /\ sock[r] = s   -> "dead"
                  [] OTHER                               -> pc[r]]
    /\ UNCHANGED <<request, snap, holder, waiters, RUNNING, files, steers,
                   thread_agents>>
----
HandlerStep(r) == RefuseForeign(r) \/ RefuseQuota(r) \/ Start(r) \/ StartFails(r)
                  \/ StartRaises(r) \/ Launch(r) \/ LaunchFails(r) \/ SteerResume(r)
TurnStep(r)    == Begin(r) \/ FoldSteer(r) \/ Finish(r) \/ Truncate(r)
                  \/ Fail(r) \/ Crash(r) \/ Settle(r)
ClientStep ==
    \/ \E r \in Requests, s \in Socks, t \in Threads :
         Submit(r, s, t) \/ SteerStart(r, s, t) \/ SteerReplace(r, s, t)
    \/ \E s \in Socks, m \in Msgs, t \in Threads :
         SteerQueue(s, m, t) \/ SteerNote(s, m, t)
    \/ \E s \in Socks, r \in Requests : Cancel(s, r)
    \/ \E s \in Socks : Disconnect(s)

Next == \/ ClientStep
        \/ \E r \in Requests : HandlerStep(r) \/ TurnStep(r)
        \/ \E t \in Threads : Broadcast(t)

Spec == Init /\ [][Next]_vars

(* The loop runs every ready task, and every round of a turn ends: provider *)
(* calls and tools have timeouts, approval cards are answered. So each      *)
(* handler and each turn moves on; which way a turn ends is not determined, *)
(* and a client is never obliged to send anything.                          *)
EndTurn(r) == Finish(r) \/ Truncate(r) \/ Fail(r) \/ Crash(r)
Fairness ==
    \A r \in Requests :
        /\ WF_vars(HandlerStep(r))
        /\ WF_vars(Begin(r)) /\ WF_vars(Settle(r)) /\ WF_vars(EndTurn(r))
FairSpec == Spec /\ Fairness
----
(* Properties *)

(* Fix #8: one task at a time is between loading a thread's state and       *)
(* saving it, and it is the one the thread's lock names.                    *)
MutualExclusion ==
    \A r, q \in Requests :
        pc[r] \in Critical /\ pc[q] \in Critical /\ thread[r] = thread[q] => r = q

(* Fix #8: a turn that record_turn has saved stays in its thread's history: *)
(* no later save is built on a state loaded before it.                      *)
NoLostTurn ==
    \A r \in recorded :
        /\ disk[thread[r]] # NoFile
        /\ r \in Range(disk[thread[r]].log)

(* Turn ids name audit lines and client items: no two saved turns of a      *)
(* thread share one, however many turns were cancelled or failed between.   *)
RecordedIdsUnique ==
    \A r, q \in recorded : TurnId(r) = TurnId(q) => r = q

(* "A missed release degrades to a recount, never a permanent refusal"      *)
(* (serve.py, _agent_turns): a start is refused for quota only while that   *)
(* many turns charged to the agent are really registered and not finished.  *)
QuotaRefusalJustified ==
    [][\A r \in Requests :
         pc[r] = "waiting" /\ pc'[r] = "overQuota" =>
           LET a == Payer(r)
           IN  Cardinality({q \in RUNNING : Alive(q) /\ TurnAgent(q) = a}) >= Cap[a]]_vars

(* A steering message is folded into at most one turn, on its own thread,   *)
(* and into another turn than the one it was typed at only if that one was  *)
(* never saved: it does not resurface after the conversation moved past it. *)
SteerNeverResurfaces ==
    \A m \in Msgs : appliedBy[m] # None /\ appliedBy[m] # addressee[m] =>
        /\ thread[appliedBy[m]] = thread[addressee[m]]
        /\ addressee[m] \notin recorded

(* What a waiting handler relies on: a lock that is held is held by a turn  *)
(* of that thread that is under way, or by a dead task; in the queue of a   *)
(* free one somebody stands who may take it; and a steer that waits for the *)
(* turn it cancelled waits for one that is ending.                          *)
First(q, t) ==
    \E i \in 1..Len(waiters[t]) :
        /\ waiters[t][i] = q
        /\ \A j \in 1..(i - 1) : pc[waiters[t][j]] # "waiting"
NobodyStranded ==
    \A r \in Requests :
        /\ pc[r] = "waiting" /\ holder[thread[r]] # None =>
             LET h == holder[thread[r]]
             IN  thread[h] = thread[r] /\ pc[h] \in Critical \cup {"dead"}
        /\ pc[r] = "waiting" /\ holder[thread[r]] = None =>
             \E q \in Requests :
                 pc[q] = "waiting" /\ thread[q] = thread[r] /\ First(q, thread[r])
        /\ pc[r] = "steering" => pc[victim[r]] \in {"cancelling", "done", "dead"}

(* The engine implements a per-thread log with one writer at a time (the    *)
(* promise of Fix #8): the lock's holder is the active turn, the saved      *)
(* turns are those of the thread's file.                                    *)
SavedTurns(t) == IF disk[t] = NoFile THEN {} ELSE Range(disk[t].log) \cap recorded
Log == INSTANCE ThreadLog WITH
         Turns <- Requests, active <- holder,
         saved <- [t \in Threads |-> SavedTurns(t)]
ThreadLogSpec == Log!Spec

(* Cancel, crash and disconnect leave a thread usable: unless its lock is   *)
(* held by a task that no longer exists, a handler that waits for the lock, *)
(* or for the turn it cancelled, gets its turn or its refusal.              *)
Wedged(t) == holder[t] # None /\ pc[holder[t]] = "dead"
WaitersServed ==
    \A r \in Requests :
        pc[r] \in {"waiting", "steering"} ~>
            pc[r] \notin {"waiting", "steering"} \/ Wedged(thread[r])

(* What the code's comments promise and the code does not keep.             *)

(* docs/AGENT_QUOTAS_PLAN.md: "Per-agent concurrency cap ...: excess starts *)
(* are refused".                                                            *)
CapRespected ==
    \A a \in Agents \ {Owner} :
        Cardinality({r \in Requests : pc[r] \in InTask /\ TurnAgent(r) = a}) <= Cap[a]

(* handle_turn: "Early returns below release it explicitly; the except      *)
(* below releases on error".                                                *)
LockReleased == \A t \in Threads : ~Wedged(t)

(* _execute_turn: "an instruction the user typed must never be silently     *)
(* discarded": a turn that ended with its answer saved applied what the     *)
(* daemon accepted for it.                                                  *)
SteerNotDiscarded ==
    \A m \in Msgs : addressee[m] \in recorded /\ pc[addressee[m]] = "done" =>
        appliedBy[m] # None
====
