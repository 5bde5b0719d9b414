---------------------------- MODULE Approvals ----------------------------
(* Approval cards (agent/serve.py, class ApprovalManager and the approval   *)
(* branch of run_tool_loop): a turn that calls a write tool asks its        *)
(* clients, waits on a future, and goes on when an answer, an expiry or a   *)
(* cancellation resolves it; "always" answers become standing grants.       *)
(*                                                                          *)
(* A card stands for the future of one request. It is free again when no    *)
(* turn waits on it and no entry of ApprovalManager.pending holds it.       *)
EXTENDS Integers, FiniteSets

CONSTANTS
    Threads, Agents, Owner, NoAgent,
    Labels,      \* what a standing grant can cover: a command or a tool
    Socks, SocketAgent,
    TurnAgent,   \* the agent each thread belongs to
    Cards, NoCard  \* bound: futures in use at the same time

ASSUME CardsAssumption == NoCard \notin Cards /\ IsFiniteSet(Cards)
ASSUME AgentsAssumption ==
    /\ Owner \in Agents /\ NoAgent \notin Agents
    /\ SocketAgent \in [Socks -> Agents] /\ TurnAgent \in [Threads -> Agents]

VARIABLES
    loop,      \* where each thread's turn is in run_tool_loop
    policy,    \* the grants it loaded when the loop began
    card,      \* the card it waits on
    pending,   \* ApprovalManager.pending
    future,    \* the state of each future
    expired,   \* cards whose deadline has passed
    grants,    \* policy.json: <<section, thread, label>>
    conn,      \* each connection: new, open or closed
    shown,     \* history: which open card was sent to which connection
    always,    \* history: "always" answers, and whether the turn's own agent
               \* gave them by an approve request
    promised   \* history: the always answers given before each loop began, as
               \* "cut" ones if the turn's connection was gone by then

manager == <<card, pending, future, expired>>
history == <<always, promised>>
vars == <<loop, policy, manager, grants, conn, shown, history>>

Fids == Threads \X Nat
Entries == [fid : Fids, thread : Threads, card : Cards, label : Labels]

TypeOK ==
    /\ loop \in [Threads -> {"out", "calling", "waiting", "cancelling"}]
    /\ policy \in [Threads -> SUBSET Labels]
    /\ card \in [Threads -> Cards \cup {NoCard}]
    /\ pending \in SUBSET Entries
    /\ future \in [Cards -> {"free", "open", "granted", "denied", "cancelled"}]
    /\ expired \in SUBSET Cards
    /\ grants \in SUBSET ((Agents \cup {NoAgent}) \X Threads \X Labels)
    /\ conn \in [Socks -> {"new", "open", "closed"}]
    /\ shown \in SUBSET (Socks \X Cards)
    /\ always \in SUBSET (Threads \X Labels \X {"own", "other"})
    /\ promised \in [Threads -> SUBSET (Labels \X {"own", "other", "cut"})]

Init ==
    /\ loop = [t \in Threads |-> "out"]
    /\ policy = [t \in Threads |-> {}]
    /\ card = [t \in Threads |-> NoCard]
    /\ pending = {} /\ expired = {} /\ grants = {} /\ shown = {} /\ always = {}
    /\ future = [c \in Cards |-> "free"]
    /\ conn = [s \in Socks |-> "new"]
    /\ promised = [t \in Threads |-> {}]

Open == {s \in Socks : conn[s] = "open"}
EntriesOf(t) == {p \in pending : p.thread = t}

(* sweep_expired: expired cards are denied, unless decided, and forgotten.  *)
Overdue == {p \in pending : p.card \in expired}
Swept(f) ==
    [c \in Cards |-> IF f[c] = "open" /\ \E p \in Overdue : p.card = c
                       THEN "denied" ELSE f[c]]

(* task.cancel(): the future a turn waits on is cancelled with it, and the  *)
(* turn will see CancelledError even if the future was resolved just now.   *)
Cancelled(f, ts) ==
    [c \in Cards |-> IF f[c] = "open" /\ \E t \in ts : card[t] = c
                       THEN "cancelled" ELSE f[c]]
CancelTurns(ts) ==
    loop' = [t \in Threads |-> IF t \in ts /\ loop[t] # "out"
                                 THEN "cancelling" ELSE loop[t]]

(* shown keeps no card that is not filed any more.                          *)
Filed(sh, ps) == {x \in sh : \E p \in ps : p.card = x[2]}
----
(* run_tool_loop *)

(* Mutant: the section of the agent is looked for by the wrong key.         *)
GrantsOfGlobal(t, s) == {l \in Labels : <<NoAgent, t, l>> \in grants}

(* agent_policy: the grants in the section of _caller_agent; there is no    *)
(* caller once the turn's connection is gone.                               *)
GrantsOf(t, s) ==
    {l \in Labels : s \in Open /\ <<TurnAgent[t], t, l>> \in grants}

(* A turn started from connection s comes to its tool calls. Only turns of  *)
(* the owner outlive their connection.                                      *)
BeginLoop(t, s) ==
    /\ loop[t] = "out"
    /\ SocketAgent[s] = TurnAgent[t]
    /\ conn[s] = "open" \/ (conn[s] = "closed" /\ TurnAgent[t] = Owner)
    /\ loop' = [loop EXCEPT ![t] = "calling"]
    /\ policy' = [policy EXCEPT ![t] = GrantsOf(t, s)]
    /\ promised' = [promised EXCEPT ![t] =
         {<<x[2], IF s \in Open THEN x[3] ELSE "cut">> :
            x \in {y \in always : y[1] = t}}]
    /\ UNCHANGED <<manager, grants, conn, shown, always>>

EndLoop(t) ==
    /\ loop[t] = "calling"
    /\ loop' = [loop EXCEPT ![t] = "out"]
    /\ UNCHANGED <<policy, manager, grants, conn, shown, history>>

(* Mutant: card ids forget the thread.                                      *)
NextFidGlobal(t) == <<CHOOSE u \in Threads : TRUE, Cardinality(pending)>>

NextFid(t) == <<t, Cardinality(pending)>>

(* A write call that no grant covers takes an id, sweeps, files its card,   *)
(* in place of any card with that id, and shows it to every client.         *)
Ask(t, l, c) ==
    LET entry == [fid |-> NextFid(t), thread |-> t, card |-> c, label |-> l]
    IN  /\ loop[t] = "calling" /\ l \notin policy[t]
        /\ future[c] = "free"
        /\ loop' = [loop EXCEPT ![t] = "waiting"]
        /\ card' = [card EXCEPT ![t] = c]
        /\ pending' = {p \in pending \ Overdue : p.fid # entry.fid} \cup {entry}
        /\ future' = [Swept(future) EXCEPT ![c] = "open"]
        /\ expired' = expired \ {c}
        /\ shown' = Filed(shown, pending' \ {entry}) \cup (Open \X {c})
        /\ UNCHANGED <<policy, grants, conn, history>>

Free(f, c) == IF c \in Cards THEN [f EXCEPT ![c] = "free"] ELSE f

(* The turn wakes with the decision and runs, or skips, the call.           *)
Resume(t) ==
    /\ loop[t] = "waiting" /\ future[card[t]] \in {"granted", "denied"}
    /\ loop' = [loop EXCEPT ![t] = "calling"]
    /\ card' = [card EXCEPT ![t] = NoCard]
    /\ future' = Free(future, card[t])
    /\ UNCHANGED <<policy, pending, expired, grants, conn, shown, history>>

(* Mutant: the handler does not drop the thread's cards.                    *)
UnwindKeepsCards(t) ==
    /\ loop[t] = "cancelling"
    /\ loop' = [loop EXCEPT ![t] = "out"]
    /\ card' = [card EXCEPT ![t] = NoCard]
    /\ UNCHANGED <<policy, pending, future, expired, grants, conn, shown, history>>

(* The turn's CancelledError handler calls drop_thread.                     *)
Unwind(t) ==
    /\ loop[t] = "cancelling"
    /\ loop' = [loop EXCEPT ![t] = "out"]
    /\ card' = [card EXCEPT ![t] = NoCard]
    /\ pending' = pending \ EntriesOf(t)
    /\ future' = Free(future, card[t])
    /\ shown' = Filed(shown, pending')
    /\ UNCHANGED <<policy, expired, grants, conn, history>>
----
(* Requests about turns *)

(* The cancel method: the card stays filed until the turn unwinds.          *)
Cancel(t) ==
    /\ loop[t] \in {"calling", "waiting"}
    /\ CancelTurns({t})
    /\ future' = Cancelled(future, {t})
    /\ UNCHANGED <<policy, card, pending, expired, grants, conn, shown, history>>

(* A turn/steer that replaces the turn drops its cards itself, first.       *)
Replace(t) ==
    /\ loop[t] \in {"calling", "waiting"}
    /\ CancelTurns({t})
    /\ future' = Cancelled(future, {t})
    /\ pending' = pending \ EntriesOf(t)
    /\ shown' = Filed(shown, pending')
    /\ UNCHANGED <<policy, card, expired, grants, conn, history>>
----
(* Answers *)

(* ApprovalManager.approve. On a cancelled future set_result raises: the    *)
(* entry is gone and nothing else happens.                                  *)
Approve(p, decision, scope, section, by) ==
    /\ pending' = pending \ {p}
    /\ shown' = Filed(shown, pending')
    /\ IF future[p.card] = "open"
         THEN future' = [future EXCEPT ![p.card] = decision]
         ELSE UNCHANGED future
    /\ IF future[p.card] = "open" /\ decision = "granted" /\ scope = "session"
         THEN /\ grants' = grants \cup {<<section, p.thread, p.label>>}
              /\ always' = always \cup {<<p.thread, p.label, by>>}
         ELSE UNCHANGED <<grants, always>>
    /\ UNCHANGED <<loop, policy, card, expired, conn, promised>>

(* The approve method: from the agent of the card's thread, or the owner,   *)
(* and recorded in the section of whoever answers.                          *)
Answer(s, p, decision, scope) ==
    LET a == SocketAgent[s]
    IN  /\ conn[s] = "open"
        /\ a \in {Owner, TurnAgent[p.thread]}
        /\ Approve(p, decision, scope, a,
                   IF a = TurnAgent[p.thread] THEN "own" ELSE "other")

(* A method-less frame {id, result}, recorded in the global section.        *)
AnswerMethodless(s, p, decision, scope) ==
    /\ conn[s] = "open"
    /\ Approve(p, decision, scope, NoAgent, "other")
----
(* Time and connections *)

Expire(p) ==
    /\ p.card \notin expired
    /\ expired' = expired \cup {p.card}
    /\ UNCHANGED <<loop, policy, card, pending, future, grants, conn, shown, history>>

(* Mutant: the fresh client is told nothing.                                *)
ResentNothing(s, ps) == {}

(* _resend_approvals: the cards that a new client is sent.                  *)
Resent(s, ps) == {<<s, p.card>> : p \in ps}

Connect(s) ==
    /\ conn[s] = "new"
    /\ conn' = [conn EXCEPT ![s] = "open"]
    /\ pending' = pending \ Overdue
    /\ future' = Swept(future)
    /\ shown' = Filed(shown, pending') \cup Resent(s, pending')
    /\ UNCHANGED <<loop, policy, card, expired, grants, history>>

(* drop_client_waits sweeps, and the turns of a capped agent are cancelled. *)
Disconnect(s) ==
    LET ts == {t \in Threads : TurnAgent[t] = SocketAgent[s] /\ TurnAgent[t] # Owner}
    IN  /\ conn[s] = "open"
        /\ conn' = [conn EXCEPT ![s] = "closed"]
        /\ pending' = pending \ Overdue
        /\ CancelTurns(ts)
        /\ future' = Cancelled(Swept(future), ts)
        /\ shown' = {x \in Filed(shown, pending') : x[1] # s}
        /\ UNCHANGED <<policy, card, expired, grants, history>>
----
LoopStep(t) ==
    \/ (\E s \in Socks : BeginLoop(t, s)) \/ EndLoop(t) \/ Resume(t) \/ Unwind(t)
    \/ \E l \in Labels, c \in Cards : Ask(t, l, c)

ClientStep ==
    \/ \E t \in Threads : Cancel(t) \/ Replace(t)
    \/ \E s \in Socks, p \in pending, decision \in {"granted", "denied"},
          scope \in {"turn", "session"} :
         \/ Answer(s, p, decision, scope)
         \/ AnswerMethodless(s, p, decision, scope)
    \/ \E s \in Socks : Connect(s) \/ Disconnect(s)

Time == \E p \in pending : Expire(p)

Next == (\E t \in Threads : LoopStep(t)) \/ ClientStep \/ Time

Spec == Init /\ [][Next]_vars

(* Turns run whenever they can and time passes; no user has to do anything. *)
FairSpec == Spec /\ WF_vars(Time) /\ \A t \in Threads : WF_vars(LoopStep(t))
----
(* Properties *)

(* No turn waits for nothing: its future is decided, or its card is filed,  *)
(* where an answer, a sweep or a cancellation will find it. Ids that come   *)
(* again, sweeps of other requests, late and repeated answers must not      *)
(* lose a card under its waiting turn.                                      *)
NoOrphanWait ==
    \A t \in Threads : loop[t] = "waiting" =>
        \/ future[card[t]] \in {"granted", "denied"}
        \/ /\ future[card[t]] = "open"
           /\ \E p \in pending : p.card = card[t] /\ p.thread = t

(* No phantom cards: what is filed, and sent again to every client that     *)
(* connects, is the card its thread's turn waits on, or was cancelled on.   *)
NoPhantomCard ==
    \A p \in pending :
        card[p.thread] = p.card /\ loop[p.thread] \in {"waiting", "cancelling"}

(* _resend_approvals: "the card reappears, answerable, on the live UI":     *)
(* every open connection has been sent every card that is still open.       *)
EveryClientSeesCard ==
    \A s \in Open, p \in pending : future[p.card] = "open" => <<s, p.card>> \in shown

(* "Always", answered by the turn's own agent with the approve method,      *)
(* holds in every later loop of the thread that begins while the turn's     *)
(* connection is open: it is not asked for again there. A turn of the owner *)
(* that outlived its connection has no caller, so no section to look in.    *)
OwnGrantHonoured ==
    \A p \in pending : loop[p.thread] = "waiting" =>
        <<p.label, "own">> \notin promised[p.thread]

(* What the documents say and the code does not do. "Approval answers may   *)
(* also arrive as method-less frames", acceptForSession is "always", and a  *)
(* standing grant "survives turns" (agent/README.md): whoever said always,  *)
(* however, and whether or not the turn's connection lasts, later loops do  *)
(* not ask again.                                                           *)
GrantHonoured ==
    \A p \in pending : loop[p.thread] = "waiting" =>
        \A by \in {"own", "other", "cut"} : <<p.label, by>> \notin promised[p.thread]

(* APPROVAL_TTL_S: past ten minutes "the call is denied so a client that    *)
(* will never come back cannot hold a turn (and its billing) open forever". *)
ExpiredCardsDenied ==
    \A t \in Threads : (loop[t] = "waiting" /\ card[t] \in expired) ~> loop[t] # "waiting"
====
