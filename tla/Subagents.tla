----------------------------- MODULE Subagents -----------------------------
(* Subagents (agent/serve.py: subagent/spawn, subagent/cancel and           *)
(* _run_subagent): a background turn on a child thread of its own, started  *)
(* by a driver task that follows it and reports how it ended. The child is  *)
(* a thread like any other: a client may run a turn on it too, and cancel   *)
(* whichever runs.                                                          *)
EXTENDS Integers, FiniteSets

CONSTANTS
    Subs,        \* bound: the children ever spawned
    Shared,      \* bound: those on whose thread a client runs a turn too
    Max          \* MAX_SUBAGENTS

ASSUME MaxAssumption == Max \in Nat \ {0}
ASSUME SubsAssumption == IsFiniteSet(Subs) /\ Shared \subseteq Subs

VARIABLES
    status,      \* each entry of _subagents: how it is reported
    driver,      \* its _run_subagent task
    turn,        \* the turn task that task follows
    saved,       \* whether that turn was recorded
    lock,        \* the lock of the child thread, by whom it is held
    user         \* a client's own turn on the child thread

vars == <<status, driver, turn, saved, lock, user>>

Over == {"done", "cancelled", "error"}
Alive == {"spawned", "running", "closing", "stopping"}

(* closing: the broadcasts of a turn that has ended; stopping: the handler  *)
(* of its cancellation; ended and cut: the task is over, cut if cancelled.  *)
(* A lost driver was cancelled before its first step. A dead lock is held   *)
(* by a task that ended without releasing it.                               *)
TypeOK ==
    /\ status \in [Subs -> {"none", "running"} \cup Over]
    /\ driver \in [Subs -> {"none", "ready", "waiting", "starting",
                            "following", "over", "lost"}]
    /\ turn \in [Subs -> {"none", "ended", "cut"} \cup Alive]
    /\ saved \subseteq Subs
    /\ lock \in [Subs -> {"free", "sub", "user", "dead"}]
    /\ user \in [Subs -> {"none", "running", "stopping", "over"}]
    /\ \A c \in Subs :
         /\ lock[c] = "sub" <=> driver[c] = "starting" \/ turn[c] \in Alive
         /\ lock[c] = "user" <=> user[c] \in {"running", "stopping"}
         /\ driver[c] = "over" => status[c] \in Over

Init ==
    /\ status = [c \in Subs |-> "none"]
    /\ driver = [c \in Subs |-> "none"]
    /\ turn = [c \in Subs |-> "none"]
    /\ saved = {}
    /\ lock = [c \in Subs |-> "free"]
    /\ user = [c \in Subs |-> "none"]

----
(* subagent/spawn *)

Listed == {c \in Subs : status[c] = "running"}

(* Mutant: a ninth may run.                                                 *)
FullAbove == Cardinality(Listed) > Max

Full == Cardinality(Listed) >= Max

Spawn(c) ==
    /\ status[c] = "none" /\ ~Full
    /\ status' = [status EXCEPT ![c] = "running"]
    /\ driver' = [driver EXCEPT ![c] = "ready"]
    /\ UNCHANGED <<turn, saved, lock, user>>

----
(* _run_subagent and the handle_turn it awaits *)

Reports(c, how) ==
    /\ status' = [status EXCEPT ![c] = how]
    /\ driver' = [driver EXCEPT ![c] = "over"]

Holds(c, who) == lock' = [lock EXCEPT ![c] = who]

Drive(c) ==
    /\ driver[c] = "ready"
    /\ driver' = [driver EXCEPT ![c] = "waiting"]
    /\ UNCHANGED <<status, turn, saved, lock, user>>

(* Another agent's thread, or the payer is at its cap: an answer without a  *)
(* turn id, which leaves nothing to follow.                                 *)
Refuse(c) ==
    /\ driver[c] = "waiting" /\ lock[c] = "free"
    /\ Reports(c, "done")
    /\ UNCHANGED <<turn, saved, lock, user>>

Start(c) ==
    /\ driver[c] = "waiting" /\ lock[c] = "free"
    /\ driver' = [driver EXCEPT ![c] = "starting"]
    /\ Holds(c, "sub")
    /\ UNCHANGED <<status, turn, saved, user>>

(* An exception before the try that gives the lock back.                    *)
StartRaises(c) ==
    /\ \/ driver[c] = "waiting" /\ lock[c] = "free"
       \/ driver[c] = "starting"
    /\ Reports(c, "error")
    /\ Holds(c, "dead")
    /\ UNCHANGED <<turn, saved, user>>

(* Mutant: the lock is not given back.                                      *)
LaunchFailsHolding(c) ==
    /\ driver[c] = "starting"
    /\ Reports(c, "error")
    /\ UNCHANGED <<turn, saved, user, lock>>

Launch(c) ==
    /\ driver[c] = "starting"
    /\ driver' = [driver EXCEPT ![c] = "following"]
    /\ turn' = [turn EXCEPT ![c] = "spawned"]
    /\ UNCHANGED <<status, saved, lock, user>>

LaunchFails(c) ==
    /\ driver[c] = "starting"
    /\ Reports(c, "error")
    /\ Holds(c, "free")
    /\ UNCHANGED <<turn, saved, user>>

(* Mutant: the answer that the turn was started is taken for its end.       *)
FollowAck(c) ==
    /\ driver[c] = "following" /\ turn[c] # "cut"
    /\ Reports(c, "done")
    /\ UNCHANGED <<turn, saved, lock, user>>

(* The turn is over. One that ran its own cancellation handler to the end   *)
(* is not a cancelled task.                                                 *)
Follow(c) ==
    /\ driver[c] = "following" /\ turn[c] \in {"ended", "cut"}
    /\ Reports(c, IF turn[c] = "cut" THEN "cancelled" ELSE "done")
    /\ UNCHANGED <<turn, saved, lock, user>>

----
(* _run_turn *)

Begin(c) ==
    /\ turn[c] = "spawned"
    /\ turn' = [turn EXCEPT ![c] = "running"]
    /\ UNCHANGED <<status, driver, saved, lock, user>>

(* Its rounds are over: recorded, or failed.                                *)
Ends(c) ==
    /\ turn[c] = "running"
    /\ turn' = [turn EXCEPT ![c] = "closing"]
    /\ saved' \in {saved, saved \cup {c}}
    /\ UNCHANGED <<status, driver, lock, user>>

(* Mutant: a cancelled turn waits for another end.                          *)
SettleClosed(c) ==
    /\ turn[c] = "closing"
    /\ turn' = [turn EXCEPT ![c] = "ended"]
    /\ Holds(c, "free")
    /\ UNCHANGED <<status, driver, saved, user>>

Settle(c) ==
    /\ turn[c] \in {"closing", "stopping"}
    /\ turn' = [turn EXCEPT ![c] = "ended"]
    /\ Holds(c, "free")
    /\ UNCHANGED <<status, driver, saved, user>>

----
(* The end of a turn that its task is told to cancel: before its first step *)
(* nothing of it runs, in a handler only the finally block does.            *)
Stop(c) ==
    \/ /\ turn[c] = "spawned"
       /\ turn' = [turn EXCEPT ![c] = "cut"]
       /\ Holds(c, "dead")
    \/ /\ turn[c] \in {"running", "closing"}
       /\ turn' = [turn EXCEPT ![c] = "stopping"]
       /\ UNCHANGED lock
    \/ /\ turn[c] = "stopping" \/ (turn[c] = "closing" /\ c \notin saved)
       /\ turn' = [turn EXCEPT ![c] = "cut"]
       /\ Holds(c, "free")

StopUser(c) ==
    \/ /\ user[c] = "running"
       /\ user' = [user EXCEPT ![c] = "stopping"]
       /\ UNCHANGED lock
    \/ /\ user[c] = "stopping"
       /\ user' = [user EXCEPT ![c] = "over"]
       /\ Holds(c, "free")

(* cancel, a steering message that replaces the turn, a disconnection.      *)
ClientStops(c) ==
    /\ \/ Stop(c) /\ UNCHANGED user
       \/ StopUser(c) /\ UNCHANGED turn
    /\ UNCHANGED <<status, driver, saved>>

(* subagent/cancel with a turn of the child thread in RUNNING, whosever.    *)
CancelTurn(c) == status[c] = "running" /\ ClientStops(c)

(* subagent/cancel with no such turn: the driver is cancelled, in the wait  *)
(* for the lock, in the starting broadcasts, or before it has seen that its *)
(* turn is over.                                                            *)
CancelDriver(c) ==
    /\ status[c] = "running"
    /\ turn[c] \notin Alive /\ user[c] \notin {"running", "stopping"}
    /\ \/ /\ driver[c] = "ready"
          /\ driver' = [driver EXCEPT ![c] = "lost"]
          /\ UNCHANGED <<status, lock>>
       \/ /\ driver[c] \in {"waiting", "following"}
          /\ Reports(c, "cancelled")
          /\ UNCHANGED lock
       \/ /\ driver[c] = "starting"
          /\ Reports(c, "cancelled")
          /\ Holds(c, "dead")
    /\ UNCHANGED <<turn, saved, user>>

----
(* A client's turn on the child thread *)

UserRuns(c) ==
    /\ c \in Shared /\ status[c] # "none"
    /\ user[c] = "none" /\ lock[c] = "free"
    /\ user' = [user EXCEPT ![c] = "running"]
    /\ Holds(c, "user")
    /\ UNCHANGED <<status, driver, turn, saved>>

(* It ends, and gives the lock back unless its handler or its task ended    *)
(* where nothing does.                                                      *)
UserEnds(c) ==
    /\ user[c] \in {"running", "stopping"}
    /\ user' = [user EXCEPT ![c] = "over"]
    /\ \/ Holds(c, "free")
       \/ user[c] = "running" /\ Holds(c, "dead")
    /\ UNCHANGED <<status, driver, turn, saved>>

Next ==
    \E c \in Subs :
       \/ Spawn(c) \/ Drive(c) \/ Refuse(c) \/ Start(c) \/ StartRaises(c)
       \/ Launch(c) \/ LaunchFails(c) \/ Follow(c)
       \/ Begin(c) \/ Ends(c) \/ Settle(c)
       \/ ClientStops(c) \/ CancelTurn(c) \/ CancelDriver(c)
       \/ UserRuns(c) \/ UserEnds(c)

Spec == Init /\ [][Next]_vars

(* The event loop runs what is ready, and a turn ends (RoundLoop). The lock *)
(* is granted in the order of the requests for it.                          *)
FairSpec ==
    /\ Spec
    /\ \A c \in Subs :
         /\ WF_vars(Drive(c)) /\ WF_vars(Launch(c) \/ LaunchFails(c))
         /\ WF_vars(Start(c) \/ Refuse(c) \/ StartRaises(c))
         /\ WF_vars(Begin(c)) /\ WF_vars(Ends(c)) /\ WF_vars(Settle(c))
         /\ WF_vars(Follow(c)) /\ WF_vars(UserEnds(c))

----
(* "Treating that ack as completion ... orphaned the real turn"             *)
(* (_run_subagent): a subagent that is reported over has no turn left that  *)
(* runs, broadcasts and asks for approvals.                                 *)
ReportedOver ==
    \A c \in Subs :
       status[c] \in Over => driver[c] = "over" /\ turn[c] \notin Alive

(* Max 8 running, a bound on the device's memory (README, Subagents): not   *)
(* only entries, but drivers and turns, however they are cancelled.         *)
CapHolds ==
    Cardinality({c \in Subs : driver[c] = "starting" \/ turn[c] \in Alive})
      <= Max

(* A subagent gives its place back: its entry stops running, unless it was  *)
(* cancelled before its driver's first step or waits for a lock that nobody *)
(* will release.                                                            *)
PlaceReturned ==
    \A c \in Subs :
       status[c] = "running" ~>
         \/ status[c] # "running" \/ driver[c] = "lost" \/ lock[c] = "dead"

(* _run_subagent means "cancelled" to be the report of a turn that was      *)
(* cancelled; the task it looks at has handled its cancellation and ended.  *)
DoneIsSaved == \A c \in Subs : status[c] = "done" => c \in saved
====
