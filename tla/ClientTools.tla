---------------------------- MODULE ClientTools ----------------------------
(* Tools the clients implement (agent/serve.py: tools/register and          *)
(* unregister, _call_client_tool, drop_client_waits, and the answers that   *)
(* come back without a method). A turn's call is sent to a connection of    *)
(* the agent that registered the tool and waits for its answer, for thirty  *)
(* seconds, or until some client disconnects.                               *)
(*                                                                          *)
(* TOOLS holds a proxy for exactly the names in _client_tools. A client     *)
(* answers on the connection the call came by.                              *)
EXTENDS Integers, FiniteSets

CONSTANTS
    Agents, Names, Socks, SockAgent, NoTool,
    Calls,       \* bound: the calls ever made
    Drops        \* bound: connections that ever die

ASSUME SocksAssumption == SockAgent \in [Socks -> Agents]
ASSUME NoToolAssumption == NoTool \notin Agents
ASSUME BoundAssumption == IsFiniteSet(Calls) /\ Drops \in Nat

VARIABLES
    tools,       \* _client_tools: who registered each name
    pc,          \* each call: unused, sending, written, waiting, done
    tool,        \* the name each call is for
    sock,        \* the connection it goes to
    fid,         \* the id of its frame
    fut,         \* its future: open, answered, failed
    pending,     \* _tool_call_pending: ids and whose futures they stand for
    seq,         \* _tool_call_seq
    conn,        \* each connection: open, dead, or gone once the hooks ran
    wire,        \* answers on their way: the connection, the id, the call meant
    outcome,     \* how each call ended
    answer,      \* history: the call the answer of each call was meant for
    drops        \* history: how many connections died

call == <<pc, tool, sock, fid>>
vars == <<tools, call, fut, pending, seq, conn, wire, outcome, answer, drops>>

Ids == 0..Cardinality(Calls)
Outcomes == {"none", "result", "unreachable", "timed out", "disconnected",
             "cancelled"}

(* A call is pending until it is done: only one that found no live socket,  *)
(* or was cancelled while it sent, leaves its future behind.                *)
TypeOK ==
    /\ tools \in [Names -> Agents \cup {NoTool}]
    /\ pc \in [Calls -> {"unused", "sending", "written", "waiting", "done"}]
    /\ tool \in [Calls -> Names] /\ sock \in [Calls -> Socks]
    /\ fid \in [Calls -> Ids]
    /\ fut \in [Calls -> {"open", "answered", "failed"}]
    /\ pending \subseteq Ids \X Calls
    /\ seq \in Ids
    /\ conn \in [Socks -> {"open", "dead", "gone"}]
    /\ wire \subseteq Socks \X Ids \X Calls
    /\ outcome \in [Calls -> Outcomes]
    /\ answer \in [Calls -> Calls]
    /\ drops \in 0..Drops
    /\ \A c \in Calls : (pc[c] = "done") = (outcome[c] # "none")
    /\ \A p \in pending :
         /\ fid[p[2]] = p[1] /\ fut[p[2]] = "open"
         /\ pc[p[2]] = "done" => outcome[p[2]] \in {"unreachable", "cancelled"}

Init ==
    /\ tools = [n \in Names |-> NoTool]
    /\ pc = [c \in Calls |-> "unused"]
    /\ tool \in [Calls -> Names]
    /\ \E s \in Socks : sock = [c \in Calls |-> s]
    /\ fid = [c \in Calls |-> 0]
    /\ fut = [c \in Calls |-> "open"]
    /\ pending = {} /\ seq = 0
    /\ conn = [s \in Socks |-> "open"]
    /\ wire = {}
    /\ outcome = [c \in Calls |-> "none"]
    /\ answer = [c \in Calls |-> c]
    /\ drops = 0
----
(* tools/register, tools/unregister *)

Register(s, n) ==
    /\ conn[s] = "open" /\ tools[n] = NoTool
    /\ tools' = [tools EXCEPT ![n] = SockAgent[s]]
    /\ UNCHANGED <<call, fut, pending, seq, conn, wire, outcome, answer, drops>>

Unregister(s, n) ==
    /\ conn[s] = "open" /\ tools[n] = SockAgent[s]
    /\ tools' = [tools EXCEPT ![n] = NoTool]
    /\ UNCHANGED <<call, fut, pending, seq, conn, wire, outcome, answer, drops>>
----
(* _call_client_tool *)

(* Mutant: ids are counted from what is pending, as approval ids are.       *)
NextIdCounted == Cardinality(pending) + 1

NextId == seq + 1

(* _agent_socks: a dead connection is in it until the hooks have run.       *)
SocksOf(a) == {s \in Socks : SockAgent[s] = a /\ conn[s] # "gone"}

CallOf(c) == pc[c] = "unused" /\ tools[tool[c]] # NoTool

(* The future is entered under a new id before the frame is sent.           *)
Enter(c) == pending' = {p \in pending : p[1] # NextId} \cup {<<NextId, c>>}

Call(c, s) ==
    /\ CallOf(c) /\ s \in SocksOf(tools[tool[c]])
    /\ pc' = [pc EXCEPT ![c] = "sending"]
    /\ sock' = [sock EXCEPT ![c] = s]
    /\ fid' = [fid EXCEPT ![c] = NextId]
    /\ seq' = seq + 1
    /\ Enter(c)
    /\ UNCHANGED <<tools, tool, fut, conn, wire, outcome, answer, drops>>

(* The owner has no connection: the tool goes, the future stays entered.    *)
NoSocket(c) ==
    /\ CallOf(c) /\ SocksOf(tools[tool[c]]) = {}
    /\ fid' = [fid EXCEPT ![c] = NextId]
    /\ seq' = seq + 1
    /\ Enter(c)
    /\ tools' = [tools EXCEPT ![tool[c]] = NoTool]
    /\ pc' = [pc EXCEPT ![c] = "done"]
    /\ outcome' = [outcome EXCEPT ![c] = "unreachable"]
    /\ UNCHANGED <<tool, sock, fut, conn, wire, answer, drops>>

(* The frame is written; the client may answer from now on.                 *)
Written(c) ==
    /\ pc[c] = "sending" /\ conn[sock[c]] = "open"
    /\ pc' = [pc EXCEPT ![c] = "written"]
    /\ wire' = wire \cup {<<sock[c], fid[c], c>>}
    /\ UNCHANGED <<tools, tool, sock, fid, fut, pending, seq, conn, outcome,
                   answer, drops>>

(* The send returns, and the future is awaited.                             *)
Waits(c) ==
    /\ pc[c] = "written"
    /\ pc' = [pc EXCEPT ![c] = "waiting"]
    /\ UNCHANGED <<tools, tool, sock, fid, fut, pending, seq, conn, wire,
                   outcome, answer, drops>>

Ends(c, how) ==
    /\ pc' = [pc EXCEPT ![c] = "done"]
    /\ outcome' = [outcome EXCEPT ![c] = how]
    /\ UNCHANGED <<tool, sock, fid, fut, seq, conn, wire, answer, drops>>

(* The finally block, or the except block of the send.                      *)
Done(c, how) == Ends(c, how) /\ pending' = {p \in pending : p[1] # fid[c]}

(* The name is dropped, whoever has registered it by now.                   *)
SendFails(c) ==
    /\ pc[c] = "sending" /\ conn[sock[c]] # "open"
    /\ tools' = [tools EXCEPT ![tool[c]] = NoTool]
    /\ Done(c, "unreachable")

(* Mutant: the answer is awaited without a limit.                           *)
NeverTimesOut(c) == FALSE /\ Done(c, "timed out") /\ UNCHANGED tools

TimesOut(c) ==
    /\ pc[c] = "waiting" /\ fut[c] = "open"
    /\ tools' = [tools EXCEPT ![tool[c]] = NoTool]
    /\ Done(c, "timed out")

Resumes(c) ==
    /\ pc[c] = "waiting" /\ fut[c] # "open"
    /\ Done(c, IF fut[c] = "answered" THEN "result" ELSE "disconnected")
    /\ UNCHANGED tools
(* The turn is cancelled; while it sends, no block removes the future.      *)
Cancelled(c) ==
    /\ UNCHANGED tools
    /\ \/ pc[c] \in {"sending", "written"} /\ Ends(c, "cancelled") /\ UNCHANGED pending
       \/ pc[c] = "waiting" /\ Done(c, "cancelled")
----
(* The clients *)

(* An answer, or an error, resolves the future that its id finds pending.   *)
Answer(s, i, d) ==
    LET found == {c \in Calls : <<i, c>> \in pending} IN
    /\ <<s, i, d>> \in wire /\ conn[s] = "open"
    /\ wire' = wire \ {<<s, i, d>>}
    /\ pending' = {p \in pending : p[1] # i}
    /\ fut' = [c \in Calls |-> IF c \in found THEN "answered" ELSE fut[c]]
    /\ answer' = [c \in Calls |-> IF c \in found THEN d ELSE answer[c]]
    /\ UNCHANGED <<tools, call, seq, conn, outcome, drops>>

Dies(s) ==
    /\ conn[s] = "open" /\ drops < Drops
    /\ conn' = [conn EXCEPT ![s] = "dead"]
    /\ wire' = {w \in wire : w[1] # s}
    /\ drops' = drops + 1
    /\ UNCHANGED <<tools, call, fut, pending, seq, outcome, answer>>

(* Mutant: the hook forgets the calls.                                      *)
DropWithout(s) ==
    /\ conn[s] = "dead"
    /\ conn' = [conn EXCEPT ![s] = "gone"]
    /\ UNCHANGED <<tools, call, fut, pending, seq, wire, outcome, answer, drops>>

(* The disconnect hooks: every pending future fails, whoever is gone.       *)
Drop(s) ==
    /\ conn[s] = "dead"
    /\ conn' = [conn EXCEPT ![s] = "gone"]
    /\ fut' = [c \in Calls |->
         IF \E p \in pending : p[2] = c THEN "failed" ELSE fut[c]]
    /\ pending' = {}
    /\ UNCHANGED <<tools, call, seq, wire, outcome, answer, drops>>

Connects(s) ==
    /\ conn[s] = "gone"
    /\ conn' = [conn EXCEPT ![s] = "open"]
    /\ UNCHANGED <<tools, call, fut, pending, seq, wire, outcome, answer, drops>>

Next ==
    \/ \E s \in Socks :
         \/ Dies(s) \/ Drop(s) \/ Connects(s)
         \/ \E n \in Names : Register(s, n) \/ Unregister(s, n)
         \/ \E i \in Ids, c \in Calls : Answer(s, i, c)
         \/ \E c \in Calls : Call(c, s)
    \/ \E c \in Calls :
         \/ NoSocket(c) \/ Written(c) \/ SendFails(c) \/ Waits(c)
         \/ TimesOut(c) \/ Resumes(c) \/ Cancelled(c)

Spec == Init /\ [][Next]_vars

(* The event loop resumes what is ready; a write ends or raises; the timer  *)
(* of a wait fires; a dead connection's handler runs its hooks.             *)
FairSpec ==
    /\ Spec
    /\ \A c \in Calls :
         /\ WF_vars(Written(c) \/ SendFails(c)) /\ WF_vars(Waits(c))
         /\ WF_vars(TimesOut(c) \/ Resumes(c))
    /\ \A s \in Socks : WF_vars(Drop(s))
----
(* drop_client_waits: "no orphaned wait may outlive its client". A call     *)
(* whose connection went after the frame was handed over is not left to     *)
(* wait for its timeout.                                                    *)
NoOrphanedWait ==
    \A c \in Calls :
       pc[c] = "waiting" /\ fut[c] = "open" =>
         conn[sock[c]] # "gone" /\ <<fid[c], c>> \in pending

(* A result comes from the answer to that very call, never from the late    *)
(* answer to one that timed out before (_tool_call_seq, _tool_call_pending).*)
AnswerIsOwn ==
    \A c \in Calls : outcome[c] = "result" => answer[c] = c

(* A turn never hangs on a client: every call ends, answered or not         *)
(* (CLIENT_TOOL_TIMEOUT, the failure of the send, the disconnect hook).     *)
CallsEnd == \A c \in Calls : pc[c] = "sending" ~> pc[c] = "done"
====
