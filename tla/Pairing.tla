---------------------------- MODULE Pairing ----------------------------
(* Who may use the daemon (agent/agents.py, the handshake and the pairing   *)
(* plane of agent/serve.py, agent/AgentAuth.kt in the app): the first       *)
(* client becomes the owner, every other one asks, polls, and is paired     *)
(* when the owner approves; the owner revokes.                              *)
(*                                                                          *)
(* An agent id stands for its token as well. Replies travel on their own    *)
(* and die with their connection. What an agent leaves in policy.json and   *)
(* providers.json is one section.                                           *)
EXTENDS Integers, FiniteSets

CONSTANTS
    Clients, Agents, NoAgent,
    Socks, SockClient,
    Requests, NoRequest  \* bound: pairing ids ever handed out

ASSUME NoneAssumption == NoAgent \notin Agents /\ NoRequest \notin Requests
ASSUME SocksAssumption == SockClient \in [Socks -> Clients]

VARIABLES
    store,      \* agents.json: the paired agents
    owners,     \* those of them flagged owner
    section,    \* agents with a section in policy.json or providers.json
    pending,    \* each request: unused, open, stale (past its TTL) or gone
    tokens,     \* _pending_tokens
    conn,       \* each connection
    sockAgent,  \* _sock_agents
    agentSocks, \* _agent_socks
    busy,       \* agents with a turn in flight
    reply,      \* the answer on its way to each connection
    cred,       \* the credential each client keeps
    poll,       \* the pairing id each client polls for
    minted,     \* history: ids ever minted
    late,       \* history: agents that spent after they were revoked
    lost,       \* history: agents whose token died with a connection or with
                \* the daemon
    kept,       \* history: agents whose token a client came to keep
    unreadable  \* history: agents.json was once not readable

disk == <<store, owners, section>>
pairs == <<pending, tokens>>
socks == <<conn, sockAgent, agentSocks>>
clients == <<cred, poll>>
history == <<minted, late, lost, kept, unreadable>>
vars == <<disk, pairs, socks, busy, reply, clients, history>>

Replies == [kind : {"none"}] \cup [kind : {"token"}, agent : Agents]
             \cup [kind : {"pairing required"}, request : Requests, held : BOOLEAN]
Nothing == [kind |-> "none"]
Token(a) == [kind |-> "token", agent |-> a]
Required(r, h) == [kind |-> "pairing required", request |-> r, held |-> h]

(* Both socket maps agree, and only a live connection is in them.           *)
TypeOK ==
    /\ store \subseteq minted /\ owners \subseteq store
    /\ section \subseteq Agents /\ busy \subseteq Agents
    /\ pending \in [Requests -> {"unused", "open", "stale", "gone"}]
    /\ tokens \in [Requests -> Agents \cup {NoAgent}]
    /\ conn \in [Socks -> {"closed", "open", "closing"}]
    /\ sockAgent \in [Socks -> Agents \cup {NoAgent}]
    /\ agentSocks \subseteq Agents \X Socks
    /\ reply \in [Socks -> Replies]
    /\ cred \in [Clients -> Agents \cup {NoAgent}]
    /\ poll \in [Clients -> Requests \cup {NoRequest}]
    /\ minted \subseteq Agents /\ late \subseteq Agents
    /\ lost \subseteq Agents /\ kept \subseteq Agents
    /\ unreadable \in BOOLEAN
    /\ \A p \in agentSocks : sockAgent[p[2]] = p[1]
    /\ \A s \in Socks : conn[s] = "closed" =>
         sockAgent[s] = NoAgent /\ reply[s] = Nothing

Init ==
    /\ store = {} /\ owners = {} /\ section = {}
    /\ pending = [r \in Requests |-> "unused"]
    /\ tokens = [r \in Requests |-> NoAgent]
    /\ conn = [s \in Socks |-> "closed"]
    /\ sockAgent = [s \in Socks |-> NoAgent]
    /\ agentSocks = {} /\ busy = {}
    /\ reply = [s \in Socks |-> Nothing]
    /\ cred = [c \in Clients |-> NoAgent]
    /\ poll = [c \in Clients |-> NoRequest]
    /\ minted = {} /\ late = {} /\ lost = {} /\ kept = {} /\ unreadable = FALSE

Client(s) == SockClient[s]
(* A frame of s can be read; its answer is sent if nothing else waits.      *)
Live(s) == conn[s] \in {"open", "closing"} /\ reply[s] = Nothing
IsOwner(s) == sockAgent[s] \in owners

(* _remember_socket: a connection belongs to the agent it last named.       *)
Remember(s, a) ==
    /\ sockAgent' = [sockAgent EXCEPT ![s] = a]
    /\ agentSocks' = (agentSocks \ (Agents \X {s})) \cup {<<a, s>>}

(* Mutant: the agent's whole set goes with one of its connections.          *)
WithoutAgent(s) == {p \in agentSocks : p[1] # sockAgent[s]}

(* _drop_socket: the one connection is forgotten.                           *)
Without(s) == agentSocks \ (Agents \X {s})

(* Tokens that can still reach a client: kept, stashed or on their way.     *)
InFlight(s) == IF reply[s].kind = "token" THEN {reply[s].agent} ELSE {}
Stashed == {tokens[r] : r \in Requests} \ {NoAgent}

(* Ids are random and never given twice: which one is next is no matter.    *)
IsFresh(a) == minted # Agents /\ a = CHOOSE b \in Agents : b \notin minted
Unused == {r \in Requests : pending[r] = "unused"}
----
(* initialize *)

Connect(s) ==
    /\ conn[s] = "closed"
    /\ conn' = [conn EXCEPT ![s] = "open"]
    /\ UNCHANGED <<disk, pairs, sockAgent, agentSocks, busy, reply, clients,
                   history>>

MintOwner(s, a, agents, flagged) ==
    /\ IsFresh(a)
    /\ store' = agents \cup {a} /\ owners' = flagged \cup {a}
    /\ minted' = minted \cup {a}
    /\ Remember(s, a)
    /\ reply' = [reply EXCEPT ![s] = Token(a)]
    /\ UNCHANGED <<section, pairs, conn, busy, clients, late, lost, kept>>

(* An empty store: the first client becomes the owner.                      *)
FirstClient(s, a) ==
    /\ Live(s) /\ store = {}
    /\ MintOwner(s, a, store, owners)
    /\ UNCHANGED unreadable

(* load_agents answers a file it cannot read as an empty store: the client  *)
(* becomes an owner, and the file is replaced by what mint_agent could load.*)
FirstUnreadable(s, a, again) ==
    /\ Live(s) /\ store # {}
    /\ IF again THEN MintOwner(s, a, {}, {}) ELSE MintOwner(s, a, store, owners)
    /\ unreadable' = TRUE

Welcome(s) ==
    LET a == cred[Client(s)] IN
    /\ Live(s) /\ a \in store
    /\ Remember(s, a)
    /\ UNCHANGED <<disk, pairs, conn, busy, reply, clients, history>>

(* request_pairing: expired requests are swept, a new one is opened.        *)
Ask(s, r) ==
    /\ Unused # {} /\ r = CHOOSE q \in Requests : q \in Unused
    /\ pending' = [q \in Requests |->
         IF q = r THEN "open"
         ELSE IF pending[q] = "stale" THEN "gone" ELSE pending[q]]
    /\ reply' = [reply EXCEPT ![s] = Required(r, cred[Client(s)] # NoAgent)]
    /\ UNCHANGED <<disk, tokens, socks, busy, clients, minted, late, lost, kept>>

Unknown(s, r) ==
    /\ Live(s) /\ store # {} /\ cred[Client(s)] \notin store
    /\ Ask(s, r)
    /\ UNCHANGED unreadable

(* verify cannot read the store: a good credential is taken for unknown.    *)
UnknownUnreadable(s, r) ==
    /\ Live(s) /\ cred[Client(s)] \in store
    /\ Ask(s, r)
    /\ unreadable' = TRUE
----
(* The pairing plane *)

Expire(r) ==
    /\ pending[r] = "open"
    /\ pending' = [pending EXCEPT ![r] = "stale"]
    /\ UNCHANGED <<disk, tokens, socks, busy, reply, clients, history>>

List(s) ==
    /\ Live(s) /\ IsOwner(s) /\ \E r \in Requests : pending[r] = "stale"
    /\ pending' = [r \in Requests |->
         IF pending[r] = "stale" THEN "gone" ELSE pending[r]]
    /\ UNCHANGED <<disk, tokens, socks, busy, reply, clients, history>>

(* pop_pairing closes the request, found expired or not.                    *)
Deny(s, r) ==
    /\ Live(s) /\ IsOwner(s) /\ pending[r] \in {"open", "stale"}
    /\ pending' = [pending EXCEPT ![r] = "gone"]
    /\ UNCHANGED <<disk, tokens, socks, busy, reply, clients, history>>

(* The agent is minted and its token stashed for the requester; the copy in *)
(* the answer is the approver's to show, and no credential of its own.      *)
Approve(s, r, a) ==
    /\ Live(s) /\ IsOwner(s) /\ pending[r] = "open"
    /\ IsFresh(a)
    /\ pending' = [pending EXCEPT ![r] = "gone"]
    /\ store' = store \cup {a} /\ minted' = minted \cup {a}
    /\ tokens' = [tokens EXCEPT ![r] = a]
    /\ UNCHANGED <<owners, section, socks, busy, reply, clients, late, lost,
                   kept, unreadable>>

(* Mutant: the token is read and not taken.                                 *)
WaitKeeps(s) ==
    LET r == poll[Client(s)] IN
    /\ Live(s) /\ cred[Client(s)] = NoAgent
    /\ r \in Requests /\ tokens[r] # NoAgent
    /\ reply' = [reply EXCEPT ![s] = Token(tokens[r])]
    /\ UNCHANGED <<disk, pairs, socks, busy, clients, history>>

(* pairing/wait, open to anyone who knows the pairing id, which is its      *)
(* requester: the token is handed out once, and stays until then, for no    *)
(* code removes it when the pairing would have expired. A client polls      *)
(* while it keeps no credential; the app's AgentAuth never does.            *)
Wait(s) ==
    LET r == poll[Client(s)] IN
    /\ Live(s) /\ cred[Client(s)] = NoAgent
    /\ r \in Requests /\ tokens[r] # NoAgent
    /\ reply' = [reply EXCEPT ![s] = Token(tokens[r])]
    /\ tokens' = [tokens EXCEPT ![r] = NoAgent]
    /\ UNCHANGED <<disk, pending, socks, busy, clients, history>>

(* Mutant: the owner can be revoked as well.                                *)
RevokeAny(s, a) ==
    /\ Live(s) /\ IsOwner(s) /\ a \in store
    /\ store' = store \ {a} /\ owners' = owners \ {a}
    /\ section' = section \ {a}
    /\ conn' = [x \in Socks |-> IF <<a, x>> \in agentSocks THEN "closing"
                                                           ELSE conn[x]]
    /\ agentSocks' = agentSocks \ ({a} \X Socks)
    /\ UNCHANGED <<pairs, sockAgent, busy, reply, clients, history>>

(* Never the owner; the agent's connections start closing and its sections  *)
(* go. Their sockets stay bound to it until they have closed.               *)
Revoke(s, a) ==
    /\ Live(s) /\ IsOwner(s) /\ a \in store \ owners /\ a # sockAgent[s]
    /\ store' = store \ {a} /\ section' = section \ {a}
    /\ conn' = [x \in Socks |-> IF <<a, x>> \in agentSocks THEN "closing"
                                                           ELSE conn[x]]
    /\ agentSocks' = agentSocks \ ({a} \X Socks)
    /\ UNCHANGED <<owners, pairs, sockAgent, busy, reply, clients, history>>
----
(* Everything else a paired connection does: a turn, billed to its agent    *)
(* when it ends, and requests that write the agent's section. The gate      *)
(* looks at the socket's binding only.                                      *)

Spent(a) ==
    /\ section' = section \cup {a}
    /\ late' = IF a \in store THEN late ELSE late \cup {a}

Turn(s) ==
    /\ Live(s) /\ sockAgent[s] \notin busy \cup {NoAgent}
    /\ busy' = busy \cup {sockAgent[s]}
    /\ UNCHANGED <<disk, pairs, socks, reply, clients, history>>

(* Ended or cancelled, it is billed.                                        *)
TurnEnds(a) ==
    /\ a \in busy
    /\ busy' = busy \ {a}
    /\ Spent(a)
    /\ UNCHANGED <<store, owners, pairs, socks, reply, clients, minted, lost,
                   kept, unreadable>>

Configure(s) ==
    /\ Live(s) /\ sockAgent[s] \notin section \cup {NoAgent}
    /\ Spent(sockAgent[s])
    /\ UNCHANGED <<store, owners, pairs, socks, busy, reply, clients, minted,
                   lost, kept, unreadable>>
----
(* Replies, connections and the daemon *)

(* AgentAuth.rpc: a fresh token is adopted; "not paired" drops the          *)
(* credential, if the handshake had sent one.                               *)
Deliver(s) ==
    /\ conn[s] = "open" /\ reply[s] # Nothing
    /\ reply' = [reply EXCEPT ![s] = Nothing]
    /\ kept' = kept \cup InFlight(s)
    /\ IF reply[s].kind = "token"
         THEN cred' = [cred EXCEPT ![Client(s)] = reply[s].agent] /\ UNCHANGED poll
         ELSE /\ cred' = IF reply[s].held THEN [cred EXCEPT ![Client(s)] = NoAgent]
                                          ELSE cred
              /\ poll' = [poll EXCEPT ![Client(s)] = reply[s].request]
    /\ UNCHANGED <<disk, pairs, socks, busy, minted, late, lost, unreadable>>

(* The client goes, or a closing connection has closed.                     *)
Disconnect(s) ==
    /\ conn[s] # "closed"
    /\ conn' = [conn EXCEPT ![s] = "closed"]
    /\ sockAgent' = [sockAgent EXCEPT ![s] = NoAgent]
    /\ agentSocks' = Without(s)
    /\ reply' = [reply EXCEPT ![s] = Nothing]
    /\ lost' = lost \cup InFlight(s)
    /\ UNCHANGED <<disk, pairs, busy, clients, minted, late, kept, unreadable>>

(* Requests and stashed tokens live in memory only.                         *)
Restart ==
    /\ \E r \in Requests : pending[r] \in {"open", "stale"} \/ tokens[r] # NoAgent
    /\ pending' = [r \in Requests |->
         IF pending[r] = "unused" THEN "unused" ELSE "gone"]
    /\ tokens' = [r \in Requests |-> NoAgent]
    /\ conn' = [s \in Socks |-> "closed"]
    /\ sockAgent' = [s \in Socks |-> NoAgent]
    /\ agentSocks' = {} /\ busy' = {}
    /\ reply' = [s \in Socks |-> Nothing]
    /\ lost' = lost \cup Stashed \cup UNION {InFlight(s) : s \in Socks}
    /\ UNCHANGED <<disk, clients, minted, late, kept, unreadable>>

Next ==
    \/ \E s \in Socks :
         \/ Connect(s) \/ Welcome(s) \/ List(s) \/ Wait(s) \/ Turn(s)
         \/ Configure(s) \/ Deliver(s) \/ Disconnect(s)
         \/ \E a \in Agents :
              \/ FirstClient(s, a) \/ Revoke(s, a)
              \/ \E again \in BOOLEAN : FirstUnreadable(s, a, again)
              \/ \E r \in Requests : Approve(s, r, a)
         \/ \E r \in Requests :
              Unknown(s, r) \/ UnknownUnreadable(s, r) \/ Deny(s, r)
    \/ \E r \in Requests : Expire(r)
    \/ \E a \in Agents : TurnEnds(a)
    \/ Restart

Spec == Init /\ [][Next]_vars
----
(* A revoked agent is gone: every connection that still passes for it is    *)
(* closing, and what the files hold of it was written after the revocation  *)
(* by a turn or a request that was under way (pairing/revoke, _sock_agents, *)
(* _agent_socks).                                                           *)
RevokedGone ==
    unreadable \/ \A a \in Agents \ store :
       /\ \A s \in Socks : sockAgent[s] = a => conn[s] = "closing"
       /\ a \in section => a \in late

(* Once a client was first there is one owner, whose key some client keeps  *)
(* or is being sent: the setup phase never reopens, and nobody is locked    *)
(* out. Only a lost first answer or an unreadable store breaks this         *)
(* (initialize, revoke, AgentAuth.rpc).                                     *)
OwnerHoldsKey ==
    \/ unreadable \/ minted = {}
    \/ \E o \in Agents :
         /\ owners = {o}
         /\ o \in lost \/ (\E c \in Clients : cred[c] = o)
                       \/ \E s \in Socks : reply[s] = Token(o)

(* Every token ever minted is in one place: stashed for the requester, in   *)
(* the answer to one connection, with a client that has come to keep it, or *)
(* lost with a connection or with the daemon. So approving strands nobody   *)
(* silently, and no two polls, connections or requests are handed the same  *)
(* one (pairing/approve, pairing/wait, take_pairing_token, initialize).     *)
HandedOnce ==
    \A a \in minted :
       LET Places == {<<"stashed", r>> : r \in {q \in Requests : tokens[q] = a}}
              \cup {<<"sent", s>> : s \in {x \in Socks : reply[x] = Token(a)}}
              \cup {<<"client", b>> : b \in kept \cap {a}}
              \cup {<<"lost", b>> : b \in lost \cap {a}}
       IN  \E place \in Places : Places = {place}
====
