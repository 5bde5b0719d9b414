------------------------- MODULE PairingDaemonProofs -------------------------
(* Proofs about Pairing, for every set of clients, agents, connections and  *)
(* pairing ids, and about AgentDaemon, for every set of threads and pids    *)
(* and every number of updates. The two share no state.                     *)
EXTENDS Pairing, AgentDaemon, TLAPS

(* Minting takes an id that was never given.                                *)
LEMMA FreshIsNew ==
    ASSUME TypeOK, NEW a \in Agents, IsFresh(a)
    PROVE  a \notin minted /\ a \notin store
<1>1. \E b \in Agents : b \notin minted
  BY DEF TypeOK, IsFresh
<1> QED
  BY <1>1 DEF TypeOK, IsFresh

(* The binding a handshake makes.                                           *)
LEMMA RememberBinds ==
    ASSUME TypeOK, NEW s \in Socks, NEW a \in Agents, Remember(s, a)
    PROVE  /\ sockAgent' \in [Socks -> Agents \cup {NoAgent}]
           /\ agentSocks' \subseteq Agents \X Socks
           /\ \A p \in agentSocks' : sockAgent'[p[2]] = p[1]
           /\ sockAgent'[s] = a
           /\ \A x \in Socks \ {s} : sockAgent'[x] = sockAgent[x]
  BY DEF TypeOK, Remember

LEMMA TypeInit == Init => TypeOK
<1>1. Nothing \in Replies
  BY DEF Nothing, Replies
<1> QED
  BY <1>1 DEF Init, TypeOK

LEMMA TypeStep == ASSUME TypeOK, [Next]_vars PROVE TypeOK'
<1> USE DEF disk, pairs, socks, clients, history
<1>1. ASSUME NEW s \in Socks, Connect(s) PROVE TypeOK'
  BY <1>1 DEF Connect, TypeOK
<1>2. ASSUME NEW s \in Socks, NEW a \in Agents, FirstClient(s, a) PROVE TypeOK'
  <2>1. a \notin minted /\ Remember(s, a) /\ reply' = [reply EXCEPT ![s] = Token(a)]
    BY <1>2, FreshIsNew DEF FirstClient, MintOwner
  <2>2. Token(a) \in Replies
    BY DEF Token, Replies
  <2>3. conn[s] # "closed" /\ UNCHANGED <<section, pending, tokens, conn, busy, cred,
                                          poll, late, lost, kept, unreadable>>
    BY <1>2 DEF FirstClient, MintOwner, Live
  <2>4. /\ store' = store \cup {a} /\ owners' = owners \cup {a}
        /\ minted' = minted \cup {a}
    BY <1>2 DEF FirstClient, MintOwner
  <2> QED
    BY <2>1, <2>2, <2>3, <2>4, RememberBinds DEF TypeOK
<1>3. ASSUME NEW s \in Socks, NEW a \in Agents, NEW again \in BOOLEAN,
             FirstUnreadable(s, a, again)
      PROVE  TypeOK'
  <2>1. a \notin minted /\ Remember(s, a) /\ reply' = [reply EXCEPT ![s] = Token(a)]
    BY <1>3, FreshIsNew DEF FirstUnreadable, MintOwner
  <2>2. Token(a) \in Replies
    BY DEF Token, Replies
  <2>3. conn[s] # "closed" /\ UNCHANGED <<section, pending, tokens, conn, busy, cred,
                                          poll, late, lost, kept>> /\ unreadable' = TRUE
    BY <1>3 DEF FirstUnreadable, MintOwner, Live
  <2>4. /\ store' \subseteq store \cup {a} /\ a \in store'
        /\ owners' \subseteq store'
        /\ minted' = minted \cup {a}
    BY <1>3 DEF FirstUnreadable, MintOwner, TypeOK
  <2> QED
    BY <2>1, <2>2, <2>3, <2>4, RememberBinds DEF TypeOK
<1>4. ASSUME NEW s \in Socks, Welcome(s) PROVE TypeOK'
  <2>1. PICK a \in Agents : a \in store /\ Remember(s, a)
    BY <1>4 DEF Welcome, TypeOK
  <2>2. conn[s] # "closed" /\ UNCHANGED <<store, owners, section, pending, tokens,
           conn, busy, reply, cred, poll, minted, late, lost, kept, unreadable>>
    BY <1>4 DEF Welcome, Live
  <2> QED
    BY <2>1, <2>2, RememberBinds DEF TypeOK
<1>5. ASSUME NEW s \in Socks, NEW r \in Requests,
             Unknown(s, r) \/ UnknownUnreadable(s, r)
      PROVE  TypeOK'
  <2>1. Ask(s, r) /\ conn[s] # "closed" /\ unreadable' \in BOOLEAN
    BY <1>5 DEF Unknown, UnknownUnreadable, Live, TypeOK
  <2>2. PICK h \in BOOLEAN : reply' = [reply EXCEPT ![s] = Required(r, h)]
    BY <2>1 DEF Ask
  <2>3. Required(r, h) \in Replies
    BY DEF Required, Replies
  <2>4. pending' \in [Requests -> {"unused", "open", "stale", "gone"}]
    BY <2>1 DEF Ask, TypeOK
  <2> QED
    BY <2>1, <2>2, <2>3, <2>4 DEF Ask, TypeOK
<1>6. ASSUME NEW r \in Requests, Expire(r) PROVE TypeOK'
  BY <1>6 DEF Expire, TypeOK
<1>7. ASSUME NEW s \in Socks, List(s) PROVE TypeOK'
  BY <1>7 DEF List, TypeOK
<1>8. ASSUME NEW s \in Socks, NEW r \in Requests, Deny(s, r) PROVE TypeOK'
  BY <1>8 DEF Deny, TypeOK
<1>9. ASSUME NEW s \in Socks, NEW r \in Requests, NEW a \in Agents, Approve(s, r, a)
      PROVE  TypeOK'
  BY <1>9 DEF Approve, TypeOK
<1>10. ASSUME NEW s \in Socks, Wait(s) PROVE TypeOK'
  <2>1. PICK r \in Requests : /\ tokens[r] # NoAgent
                              /\ reply' = [reply EXCEPT ![s] = Token(tokens[r])]
                              /\ tokens' = [tokens EXCEPT ![r] = NoAgent]
    BY <1>10 DEF Wait
  <2>2. tokens[r] \in Agents
    BY <2>1 DEF TypeOK
  <2>3. Token(tokens[r]) \in Replies
    BY <2>2 DEF Token, Replies
  <2>4. conn[s] # "closed"
    BY <1>10 DEF Wait, Live
  <2> QED
    BY <1>10, <2>1, <2>3, <2>4 DEF Wait, TypeOK
<1>11. ASSUME NEW s \in Socks, NEW a \in Agents, Revoke(s, a) PROVE TypeOK'
  <2>1. \A x \in Socks : conn'[x] = "closed" => conn[x] = "closed"
    BY <1>11 DEF Revoke, TypeOK
  <2> QED
    BY <1>11, <2>1 DEF Revoke, TypeOK
<1>12. ASSUME NEW s \in Socks, Turn(s) PROVE TypeOK'
  BY <1>12 DEF Turn, TypeOK
<1>13. ASSUME NEW a \in Agents, TurnEnds(a) PROVE TypeOK'
  BY <1>13 DEF TurnEnds, Spent, TypeOK
<1>14. ASSUME NEW s \in Socks, Configure(s) PROVE TypeOK'
  BY <1>14 DEF Configure, Spent, TypeOK
<1>15. ASSUME NEW s \in Socks, Deliver(s) PROVE TypeOK'
  <2>1. Nothing \in Replies
    BY DEF Nothing, Replies
  <2>2. reply[s] \in Replies /\ SockClient[s] \in Clients
    BY SocksAssumption DEF TypeOK
  <2>3. reply[s].kind = "token" => reply[s].agent \in Agents
    BY <2>2 DEF Replies
  <2>4. reply[s].kind # "token" => reply[s].request \in Requests
    BY <1>15, <2>2 DEF Replies, Deliver, Nothing
  <2>5. cred' \in [Clients -> Agents \cup {NoAgent}]
    BY <1>15, <2>2, <2>3 DEF Deliver, TypeOK, Client
  <2>6. poll' \in [Clients -> Requests \cup {NoRequest}]
    BY <1>15, <2>2, <2>4 DEF Deliver, TypeOK, Client
  <2>7. kept' \subseteq Agents
    BY <1>15, <2>2 DEF Deliver, TypeOK, InFlight, Replies
  <2> QED
    BY <1>15, <2>1, <2>5, <2>6, <2>7 DEF Deliver, TypeOK
<1>16. ASSUME NEW s \in Socks, Disconnect(s) PROVE TypeOK'
  <2>1. Nothing \in Replies
    BY DEF Nothing, Replies
  <2>2. InFlight(s) \subseteq Agents
    BY DEF InFlight, TypeOK, Replies
  <2> QED
    BY <1>16, <2>1, <2>2 DEF Disconnect, Without, TypeOK
<1>17. CASE Restart
  <2>1. Nothing \in Replies
    BY DEF Nothing, Replies
  <2>2. Stashed \subseteq Agents
    BY DEF Stashed, TypeOK
  <2>3. \A s \in Socks : InFlight(s) \subseteq Agents
    BY DEF InFlight, TypeOK, Replies
  <2> QED
    BY <1>17, <2>1, <2>2, <2>3 DEF Restart, TypeOK
<1>18. CASE UNCHANGED vars
  BY <1>18 DEF vars, TypeOK
<1> QED
  BY <1>1, <1>2, <1>3, <1>4, <1>5, <1>6, <1>7, <1>8, <1>9, <1>10, <1>11, <1>12,
     <1>13, <1>14, <1>15, <1>16, <1>17, <1>18 DEF Next
----
(* What keeps a revoked agent out: a binding is to an agent once minted, a  *)
(* paired one's connections can be found, any other's are closing.          *)
BoundMinted == \A s \in Socks : sockAgent[s] \in minted \cup {NoAgent}
Found == \A s \in Socks : sockAgent[s] \in store => <<sockAgent[s], s>> \in agentSocks
GoneCloses ==
    \A s \in Socks : sockAgent[s] \in store \cup {NoAgent} \/ conn[s] = "closing"
SpentLate == \A a \in Agents \ store : a \in section => a \in late
RevokeInv == TypeOK /\ BoundMinted /\ (unreadable = TRUE \/ (Found /\ GoneCloses /\ SpentLate))

LEMMA RevokeInit == Init => RevokeInv
  BY TypeInit DEF Init, RevokeInv, BoundMinted, Found, GoneCloses, SpentLate

(* Steps that touch neither the store nor the connections.                  *)
LEMMA RevokeSame ==
    ASSUME RevokeInv, TypeOK', minted \subseteq minted',
           UNCHANGED <<store, section, conn, sockAgent, agentSocks, late>>,
           unreadable = TRUE => unreadable' = TRUE
    PROVE  RevokeInv'
  BY DEF RevokeInv, BoundMinted, Found, GoneCloses, SpentLate

LEMMA RevokeStep == ASSUME RevokeInv, [Next]_vars PROVE RevokeInv'
<1>0. TypeOK /\ TypeOK' /\ BoundMinted
  BY TypeStep DEF RevokeInv
<1> USE DEF disk, pairs, socks, clients, history
<1>1. ASSUME NEW s \in Socks, Connect(s) PROVE RevokeInv'
  <2>1. sockAgent[s] = NoAgent
    BY <1>0, <1>1 DEF Connect, TypeOK
  <2> QED
    BY <1>0, <1>1, <2>1 DEF Connect, RevokeInv, BoundMinted, Found, GoneCloses,
       SpentLate, TypeOK
<1>2. ASSUME NEW s \in Socks, NEW a \in Agents, FirstClient(s, a) PROVE RevokeInv'
  <2>1. /\ a \notin minted /\ Remember(s, a) /\ store' = store \cup {a}
        /\ minted' = minted \cup {a}
        /\ UNCHANGED <<section, conn, late, unreadable>>
    BY <1>0, <1>2, FreshIsNew DEF FirstClient, MintOwner
  <2>2. /\ sockAgent'[s] = a /\ \A x \in Socks \ {s} : sockAgent'[x] = sockAgent[x]
    BY <1>0, <2>1, RememberBinds
  <2>3. BoundMinted'
    BY <1>0, <2>1, <2>2 DEF BoundMinted
  <2>4. ASSUME Found /\ GoneCloses /\ SpentLate
        PROVE  Found' /\ GoneCloses' /\ SpentLate'
    <3>1. \A x \in Socks \ {s} : sockAgent[x] # a
      BY <1>0, <2>1, NoneAssumption DEF BoundMinted
    <3>2. <<a, s>> \in agentSocks' /\ \A p \in agentSocks : p[2] # s => p \in agentSocks'
      BY <1>0, <2>1 DEF Remember, TypeOK
    <3>3. Found'
      BY <2>1, <2>2, <2>4, <3>1, <3>2 DEF Found
    <3> QED
      BY <2>1, <2>2, <2>4, <3>3 DEF GoneCloses, SpentLate
  <2> QED
    BY <1>0, <2>1, <2>3, <2>4 DEF RevokeInv
<1>3. ASSUME NEW s \in Socks, NEW a \in Agents, NEW again \in BOOLEAN,
             FirstUnreadable(s, a, again)
      PROVE  RevokeInv'
  <2>1. Remember(s, a) /\ minted' = minted \cup {a} /\ unreadable' = TRUE
    BY <1>3 DEF FirstUnreadable, MintOwner
  <2>2. BoundMinted'
    BY <1>0, <2>1, RememberBinds DEF BoundMinted
  <2> QED
    BY <1>0, <2>1, <2>2 DEF RevokeInv
<1>4. ASSUME NEW s \in Socks, Welcome(s) PROVE RevokeInv'
  <2>1. PICK a \in Agents : a \in store /\ Remember(s, a)
    BY <1>0, <1>4 DEF Welcome, TypeOK
  <2>2. UNCHANGED <<store, section, conn, minted, late, unreadable>>
    BY <1>4 DEF Welcome
  <2>3. sockAgent'[s] = a /\ \A x \in Socks \ {s} : sockAgent'[x] = sockAgent[x]
    BY <1>0, <2>1, RememberBinds
  <2>4. BoundMinted'
    BY <1>0, <2>1, <2>2, <2>3 DEF BoundMinted, TypeOK
  <2>5. ASSUME Found /\ GoneCloses /\ SpentLate
        PROVE  Found' /\ GoneCloses' /\ SpentLate'
    <3>1. <<a, s>> \in agentSocks' /\ \A p \in agentSocks : p[2] # s => p \in agentSocks'
      BY <1>0, <2>1 DEF Remember, TypeOK
    <3>2. Found'
      BY <2>2, <2>3, <2>5, <3>1 DEF Found
    <3> QED
      BY <2>1, <2>2, <2>3, <2>5, <3>2 DEF GoneCloses, SpentLate
  <2> QED
    BY <1>0, <2>2, <2>4, <2>5 DEF RevokeInv
<1>5. ASSUME NEW s \in Socks, NEW r \in Requests,
             Unknown(s, r) \/ UnknownUnreadable(s, r)
      PROVE  RevokeInv'
  BY <1>0, <1>5, RevokeSame DEF Unknown, UnknownUnreadable, Ask
<1>6. ASSUME NEW r \in Requests, Expire(r) PROVE RevokeInv'
  BY <1>0, <1>6, RevokeSame DEF Expire
<1>7. ASSUME NEW s \in Socks, List(s) PROVE RevokeInv'
  BY <1>0, <1>7, RevokeSame DEF List
<1>8. ASSUME NEW s \in Socks, NEW r \in Requests, Deny(s, r) PROVE RevokeInv'
  BY <1>0, <1>8, RevokeSame DEF Deny
<1>9. ASSUME NEW s \in Socks, NEW r \in Requests, NEW a \in Agents, Approve(s, r, a)
      PROVE  RevokeInv'
  <2>1. /\ a \notin minted /\ store' = store \cup {a} /\ minted' = minted \cup {a}
        /\ UNCHANGED <<section, conn, sockAgent, agentSocks, late, unreadable>>
    BY <1>0, <1>9, FreshIsNew DEF Approve
  <2>2. \A x \in Socks : sockAgent[x] # a
    BY <1>0, <2>1, NoneAssumption DEF BoundMinted
  <2> QED
    BY <1>0, <2>1, <2>2 DEF RevokeInv, BoundMinted, Found, GoneCloses, SpentLate
<1>10. ASSUME NEW s \in Socks, Wait(s) PROVE RevokeInv'
  BY <1>0, <1>10, RevokeSame DEF Wait
<1>11. ASSUME NEW s \in Socks, NEW a \in Agents, Revoke(s, a) PROVE RevokeInv'
  <2>1. /\ store' = store \ {a} /\ section' = section \ {a}
        /\ conn' = [x \in Socks |-> IF <<a, x>> \in agentSocks THEN "closing"
                                                               ELSE conn[x]]
        /\ agentSocks' = agentSocks \ ({a} \X Socks)
        /\ UNCHANGED <<sockAgent, minted, late, unreadable>>
    BY <1>11 DEF Revoke
  <2>2. ASSUME Found /\ GoneCloses /\ SpentLate
        PROVE  Found' /\ GoneCloses' /\ SpentLate'
    <3>1. Found'
      BY <2>1, <2>2 DEF Found
    <3>2. GoneCloses'
      BY <2>1, <2>2 DEF Found, GoneCloses
    <3>3. SpentLate'
      BY <2>1, <2>2 DEF SpentLate
    <3> QED
      BY <3>1, <3>2, <3>3
  <2>3. BoundMinted'
    BY <1>0, <2>1 DEF BoundMinted
  <2> QED
    BY <1>0, <2>1, <2>2, <2>3 DEF RevokeInv
<1>12. ASSUME NEW s \in Socks, Turn(s) PROVE RevokeInv'
  BY <1>0, <1>12, RevokeSame DEF Turn
<1>13. ASSUME NEW a \in Agents, TurnEnds(a) PROVE RevokeInv'
  BY <1>0, <1>13 DEF TurnEnds, Spent, RevokeInv, BoundMinted, Found, GoneCloses, SpentLate
<1>14. ASSUME NEW s \in Socks, Configure(s) PROVE RevokeInv'
  BY <1>0, <1>14 DEF Configure, Spent, RevokeInv, BoundMinted, Found, GoneCloses, SpentLate
<1>15. ASSUME NEW s \in Socks, Deliver(s) PROVE RevokeInv'
  BY <1>0, <1>15, RevokeSame DEF Deliver
<1>16. ASSUME NEW s \in Socks, Disconnect(s) PROVE RevokeInv'
  <2>1. /\ sockAgent' = [sockAgent EXCEPT ![s] = NoAgent] /\ conn' = [conn EXCEPT ![s] = "closed"]
        /\ agentSocks' = agentSocks \ (Agents \X {s})
        /\ UNCHANGED <<store, section, minted, late, unreadable>>
    BY <1>16 DEF Disconnect, Without
  <2>2. sockAgent'[s] = NoAgent /\ \A x \in Socks \ {s} :
           sockAgent'[x] = sockAgent[x] /\ conn'[x] = conn[x]
    BY <1>0, <2>1 DEF TypeOK
  <2>3. NoAgent \notin store
    BY <1>0, NoneAssumption DEF TypeOK
  <2> QED
    BY <1>0, <2>1, <2>2, <2>3 DEF RevokeInv, BoundMinted, Found, GoneCloses, SpentLate
<1>17. CASE Restart
  <2>1. NoAgent \notin store
    BY <1>0, NoneAssumption DEF TypeOK
  <2> QED
    BY <1>0, <1>17, <2>1 DEF Restart, RevokeInv, BoundMinted, Found, GoneCloses, SpentLate
<1>18. CASE UNCHANGED vars
  BY <1>0, <1>18, RevokeSame DEF vars
<1> QED
  BY <1>1, <1>2, <1>3, <1>4, <1>5, <1>6, <1>7, <1>8, <1>9, <1>10, <1>11, <1>12,
     <1>13, <1>14, <1>15, <1>16, <1>17, <1>18 DEF Next
----
(* The revocation's invariant holds in every reachable state.               *)
THEOREM RevokeInvariance == Spec => []RevokeInv
<1>1. Init => RevokeInv
  BY RevokeInit
<1>2. RevokeInv /\ [Next]_vars => RevokeInv'
  BY RevokeStep
<1> QED
  BY <1>1, <1>2, PTL DEF Spec

(* Every state is well typed: both maps of connections agree.               *)
THEOREM TypeCorrect == Spec => []TypeOK
<1>1. RevokeInv => TypeOK
  BY DEF RevokeInv
<1> QED
  BY <1>1, RevokeInvariance, PTL

(* A revoked agent keeps no connection that is not closing, and no section  *)
(* it did not write afterwards (pairing/revoke).                            *)
THEOREM RevokedStaysGone == Spec => []RevokedGone
<1>1. RevokeInv => RevokedGone
  <2> SUFFICES ASSUME RevokeInv, ~ unreadable, NEW a \in Agents \ store
               PROVE  /\ \A s \in Socks : sockAgent[s] = a => conn[s] = "closing"
                      /\ a \in section => a \in late
    BY DEF RevokedGone
  <2> QED
    BY NoneAssumption DEF RevokeInv, GoneCloses, SpentLate, TypeOK
<1> QED
  BY <1>1, RevokeInvariance, PTL
----
(* Where the first owner's key can be: nowhere yet, on its way in the only  *)
(* token there is, or kept by a client to which nothing is being sent that  *)
(* would make it drop the key; or the key was lost on its way.              *)
Harmless(m) == m = Nothing \/ \E r \in Requests : m = Required(r, FALSE)
NoKeys == (\A c \in Clients : cred[c] = NoAgent) /\ \A r \in Requests : tokens[r] = NoAgent
Empty == minted = {} /\ NoKeys /\ \A s \in Socks : reply[s] = Nothing
SentTo(s, o) ==
    /\ NoKeys /\ reply[s] = Token(o)
    /\ \A x \in Socks \ {s} : sockAgent[x] # o /\ Harmless(reply[x])
KeptBy(c, o) == cred[c] = o /\ \A s \in Socks : SockClient[s] = c => Harmless(reply[s])
Safe(o) == \/ o \in lost
           \/ \E s \in Socks : SentTo(s, o)
           \/ \E c \in Clients : KeptBy(c, o)
OneOwner == Empty \/ \E o \in Agents : owners = {o} /\ Safe(o)
OwnerInv == unreadable = TRUE \/ OneOwner

LEMMA HarmlessKeeps ==
    ASSUME NEW m, Harmless(m)
    PROVE  m.kind # "token" /\ (m # Nothing => m.held = FALSE)
<1>1. CASE m = Nothing
  BY <1>1 DEF Nothing
<1>2. CASE \E r \in Requests : m = Required(r, FALSE)
  <2>1. PICK r \in Requests : m = Required(r, FALSE)
    BY <1>2
  <2>2. m.kind = "pairing required" /\ m.held = FALSE
    BY <2>1 DEF Required
  <2> QED
    BY <2>2
<1> QED
  BY <1>1, <1>2 DEF Harmless

LEMMA OwnerInit == Init => OwnerInv
  BY DEF Init, OwnerInv, OneOwner, Empty, NoKeys

(* Steps that send nothing and move no key.                                 *)
LEMMA OwnerSame ==
    ASSUME OwnerInv,
           UNCHANGED <<owners, tokens, reply, cred, sockAgent, minted, lost>>,
           unreadable = TRUE => unreadable' = TRUE
    PROVE  OwnerInv'
<1>1. Empty => Empty'
  BY DEF Empty, NoKeys
<1>2. \A o, s : SentTo(s, o) => SentTo(s, o)'
  BY DEF SentTo, NoKeys, Harmless
<1>3. \A o, c : KeptBy(c, o) => KeptBy(c, o)'
  BY DEF KeptBy, Harmless
<1>4. \A o : Safe(o) => Safe(o)'
  BY <1>2, <1>3 DEF Safe
<1> QED
  BY <1>1, <1>4 DEF OwnerInv, OneOwner

LEMMA OwnerStep == ASSUME RevokeInv, OwnerInv, [Next]_vars PROVE OwnerInv'
<1>0. TypeOK /\ BoundMinted
  BY DEF RevokeInv
<1> USE DEF disk, pairs, socks, clients, history
<1>1. ASSUME NEW s \in Socks,
             \/ Connect(s) \/ List(s) \/ Turn(s) \/ Configure(s)
             \/ \E r \in Requests : Deny(s, r)
             \/ \E a \in Agents : Revoke(s, a)
      PROVE  OwnerInv'
  <2>1. UNCHANGED <<owners, tokens, reply, cred, sockAgent, minted, lost, unreadable>>
    BY <1>1 DEF Connect, List, Turn, Configure, Deny, Revoke
  <2> QED
    BY <2>1, OwnerSame
<1>2. ASSUME \/ \E r \in Requests : Expire(r)
             \/ \E a \in Agents : TurnEnds(a)
             \/ UNCHANGED vars
      PROVE  OwnerInv'
  <2>1. UNCHANGED <<owners, tokens, reply, cred, sockAgent, minted, lost, unreadable>>
    BY <1>2 DEF Expire, TurnEnds, vars
  <2> QED
    BY <2>1, OwnerSame
<1>3. ASSUME NEW s \in Socks,
             \/ \E a \in Agents, again \in BOOLEAN : FirstUnreadable(s, a, again)
             \/ \E r \in Requests : UnknownUnreadable(s, r)
      PROVE  OwnerInv'
  BY <1>3 DEF FirstUnreadable, UnknownUnreadable, OwnerInv
<1>4. CASE unreadable = TRUE /\ unreadable' = TRUE
  BY <1>4 DEF OwnerInv
<1>5. ASSUME NEW s \in Socks, NEW a \in Agents, FirstClient(s, a), OneOwner
      PROVE  OwnerInv'
  <2>1. /\ owners = {} /\ owners' = {a} /\ Remember(s, a)
        /\ reply' = [reply EXCEPT ![s] = Token(a)]
        /\ UNCHANGED <<tokens, cred>>
    BY <1>0, <1>5 DEF FirstClient, MintOwner, TypeOK
  <2>2. Empty
    BY <1>5, <2>1 DEF OneOwner
  <2>3. NoKeys' /\ reply'[s] = Token(a)
    BY <1>0, <2>1, <2>2 DEF Empty, NoKeys, TypeOK
  <2>4. \A x \in Socks \ {s} : reply'[x] = Nothing
    BY <1>0, <2>1, <2>2 DEF Empty, TypeOK
  <2>5. \A x \in Socks \ {s} : sockAgent'[x] # a
    BY <1>0, <2>1, <2>2, RememberBinds, NoneAssumption DEF Empty, BoundMinted
  <2>6. SentTo(s, a)'
    BY <2>3, <2>4, <2>5 DEF SentTo, Harmless
  <2> QED
    BY <2>1, <2>6 DEF OwnerInv, OneOwner, Safe
(* The other handshakes, the answers and the disconnections.                *)
<1> DEFINE Rest ==
      \/ \E s \in Socks :
           \/ Welcome(s) \/ Wait(s) \/ Deliver(s) \/ Disconnect(s)
           \/ \E r \in Requests : Unknown(s, r) \/ \E a \in Agents : Approve(s, r, a)
      \/ Restart
<1>6. Rest => UNCHANGED <<owners, unreadable>> /\ lost \subseteq lost'
  BY DEF Welcome, Wait, Deliver, Disconnect, Unknown, Ask, Approve, Restart
<1>7. ASSUME Empty, Rest PROVE OwnerInv'
  <2>1. store = {} /\ owners = {} /\ \A s \in Socks : InFlight(s) = {}
    BY <1>0, <1>7 DEF TypeOK, Empty, InFlight, Nothing
  <2>2. \/ UNCHANGED <<minted, cred, tokens, reply>>
        \/ \E s \in Socks : Disconnect(s)
        \/ Restart
    <3>1. ASSUME NEW s \in Socks, Welcome(s) PROVE UNCHANGED <<minted, cred, tokens, reply>>
      BY <3>1 DEF Welcome
    <3>2. ASSUME NEW s \in Socks, Wait(s) PROVE FALSE
      BY <1>7, <3>2 DEF Wait, Empty, NoKeys
    <3>3. ASSUME NEW s \in Socks, Deliver(s) PROVE FALSE
      BY <1>7, <3>3 DEF Deliver, Empty
    <3>4. ASSUME NEW s \in Socks, NEW r \in Requests, Unknown(s, r) PROVE FALSE
      BY <2>1, <3>4 DEF Unknown
    <3>5. ASSUME NEW s \in Socks, NEW r \in Requests, NEW a \in Agents, Approve(s, r, a)
          PROVE  FALSE
      BY <2>1, <3>5 DEF Approve, IsOwner
    <3> QED
      BY <1>7, <3>1, <3>2, <3>3, <3>4, <3>5
  <2>3. CASE UNCHANGED <<minted, cred, tokens, reply>>
    BY <1>7, <2>3 DEF OwnerInv, OneOwner, Empty, NoKeys
  <2>4. ASSUME NEW s \in Socks, Disconnect(s) PROVE OwnerInv'
    BY <1>0, <1>7, <2>4 DEF Disconnect, OwnerInv, OneOwner, Empty, NoKeys, TypeOK
  <2>5. CASE Restart
    BY <1>7, <2>5 DEF Restart, OwnerInv, OneOwner, Empty, NoKeys
  <2> QED
    BY <2>2, <2>3, <2>4, <2>5
<1>8. ASSUME NEW o \in Agents, owners = {o}, NEW k \in Socks, SentTo(k, o), Rest
      PROVE  Safe(o)'
  <2>1. NoKeys /\ reply[k] = Token(o) /\ Token(o) # Nothing
    BY <1>8 DEF SentTo, Token, Nothing
  <2>2. \A x \in Socks \ {k} : sockAgent[x] # o /\ Harmless(reply[x])
    BY <1>8 DEF SentTo
  <2>3. ASSUME NEW s \in Socks, Welcome(s) PROVE FALSE
    BY <1>0, <2>1, <2>3, SocksAssumption, NoneAssumption
       DEF Welcome, Client, NoKeys, TypeOK
  <2>4. ASSUME NEW s \in Socks, Wait(s) PROVE FALSE
    BY <2>1, <2>4 DEF Wait, NoKeys
  <2>5. ASSUME NEW s \in Socks, Deliver(s) PROVE Safe(o)'
    <3>1. CASE s = k
      <4>1. reply[s].kind = "token" /\ reply[s].agent = o
        BY <2>1, <3>1 DEF Token
      <4>2. cred'[SockClient[s]] = o
        BY <1>0, <2>5, <4>1, SocksAssumption DEF Deliver, TypeOK, Client
      <4>3. \A x \in Socks : Harmless(reply'[x])
        BY <1>0, <2>2, <2>5, <3>1 DEF Deliver, TypeOK, Harmless
      <4> QED
        BY <4>2, <4>3, SocksAssumption DEF Safe, KeptBy
    <3>2. CASE s # k
      <4>1. reply[s].kind # "token" /\ reply[s].held = FALSE
        BY <2>2, <2>5, <3>2, HarmlessKeeps DEF Deliver
      <4>2. UNCHANGED <<cred, tokens, sockAgent>>
        BY <2>5, <4>1 DEF Deliver
      <4>3. reply'[k] = reply[k] /\ \A x \in Socks \ {k} : Harmless(reply'[x])
        BY <1>0, <2>2, <2>5, <3>2 DEF Deliver, TypeOK, Harmless
      <4> QED
        BY <2>1, <2>2, <4>2, <4>3 DEF Safe, SentTo, NoKeys
    <3> QED
      BY <3>1, <3>2
  <2>6. ASSUME NEW s \in Socks, Disconnect(s) PROVE Safe(o)'
    <3>1. CASE s = k
      BY <2>1, <2>6, <3>1 DEF Disconnect, InFlight, Token, Safe
    <3>2. CASE s # k
      <4>1. UNCHANGED <<cred, tokens>> /\ \A x \in Socks \ {k} : sockAgent'[x] # o
        BY <1>0, <2>2, <2>6, NoneAssumption DEF Disconnect, TypeOK
      <4>2. reply'[k] = reply[k] /\ \A x \in Socks \ {k} : Harmless(reply'[x])
        BY <1>0, <2>2, <2>6, <3>2 DEF Disconnect, TypeOK, Harmless
      <4> QED
        BY <2>1, <4>1, <4>2 DEF Safe, SentTo, NoKeys
    <3> QED
      BY <3>1, <3>2
  <2>7. ASSUME NEW s \in Socks, NEW r \in Requests, Unknown(s, r) PROVE Safe(o)'
    <3>1. /\ reply[s] = Nothing /\ UNCHANGED <<cred, tokens, sockAgent>>
          /\ reply' = [reply EXCEPT ![s] = Required(r, FALSE)]
      <4>1. cred[SockClient[s]] = NoAgent
        BY <2>1, SocksAssumption DEF NoKeys
      <4> QED
        BY <2>7, <4>1 DEF Unknown, Ask, Live, Client
    <3>2. reply'[k] = reply[k] /\ \A x \in Socks \ {k} : Harmless(reply'[x])
      BY <1>0, <2>1, <2>2, <3>1 DEF TypeOK, Harmless
    <3> QED
      BY <2>1, <2>2, <3>1, <3>2 DEF Safe, SentTo, NoKeys
  <2>8. ASSUME NEW s \in Socks, NEW r \in Requests, NEW a \in Agents, Approve(s, r, a)
        PROVE  FALSE
    BY <1>8, <2>1, <2>2, <2>8 DEF Approve, IsOwner, Live
  <2>9. CASE Restart
    <3>1. o \in InFlight(k)
      BY <2>1 DEF InFlight, Token
    <3>2. o \in lost'
      BY <2>9, <3>1 DEF Restart
    <3> QED
      BY <3>2 DEF Safe
  <2> QED
    BY <1>8, <2>3, <2>4, <2>5, <2>6, <2>7, <2>8, <2>9
<1>9. ASSUME NEW o \in Agents, owners = {o}, NEW c \in Clients, KeptBy(c, o), Rest
      PROVE  Safe(o)'
  <2>1. cred[c] = o /\ o # NoAgent /\ o \in store
    BY <1>0, <1>9, NoneAssumption DEF KeptBy, TypeOK
  <2>2. \A s \in Socks : SockClient[s] = c => Harmless(reply[s])
    BY <1>9 DEF KeptBy
  <2>3. SUFFICES cred'[c] = cred[c] /\ \A s \in Socks : SockClient[s] = c => Harmless(reply'[s])
    BY <2>1 DEF Safe, KeptBy
  <2>4. ASSUME NEW s \in Socks, Welcome(s) \/ \E r \in Requests, a \in Agents : Approve(s, r, a)
        PROVE  UNCHANGED <<cred, reply>>
    BY <2>4 DEF Welcome, Approve
  <2>5. ASSUME NEW s \in Socks, Wait(s) PROVE UNCHANGED cred /\ \A x \in Socks :
                  SockClient[x] = c => reply'[x] = reply[x]
    BY <1>0, <2>1, <2>5 DEF Wait, TypeOK, Client
  <2>6. ASSUME NEW s \in Socks, NEW r \in Requests, Unknown(s, r)
        PROVE  UNCHANGED cred /\ \A x \in Socks : SockClient[x] = c => reply'[x] = reply[x]
    BY <1>0, <2>1, <2>6 DEF Unknown, Ask, TypeOK, Client
  <2>7. ASSUME NEW s \in Socks, Disconnect(s)
        PROVE  UNCHANGED cred /\ \A x \in Socks : reply'[x] \in {reply[x], Nothing}
    BY <1>0, <2>7 DEF Disconnect, TypeOK
  <2>8. ASSUME NEW s \in Socks, Deliver(s)
        PROVE  cred'[c] = cred[c] /\ \A x \in Socks : reply'[x] \in {reply[x], Nothing}
    <3>1. CASE SockClient[s] = c
      <4>1. reply[s].kind # "token" /\ reply[s].held = FALSE
        BY <2>2, <2>8, <3>1, HarmlessKeeps DEF Deliver
      <4> QED
        BY <1>0, <2>8, <4>1 DEF Deliver, TypeOK
    <3>2. CASE SockClient[s] # c
      BY <1>0, <2>8, <3>2, SocksAssumption DEF Deliver, TypeOK, Client
    <3> QED
      BY <3>1, <3>2
  <2>9. ASSUME Restart PROVE UNCHANGED cred /\ \A x \in Socks : reply'[x] = Nothing
    BY <2>9 DEF Restart
  <2>10. Harmless(Nothing)
    BY DEF Harmless
  <2> QED
    BY <1>9, <2>2, <2>4, <2>5, <2>6, <2>7, <2>8, <2>9, <2>10
<1>10. ASSUME OneOwner, Rest PROVE OwnerInv'
  <2>1. CASE Empty
    BY <1>7, <1>10, <2>1
  <2>2. ASSUME NEW o \in Agents, owners = {o}, Safe(o) PROVE OwnerInv'
    <3>1. o \in lost => Safe(o)'
      BY <1>6, <1>10 DEF Safe
    <3>2. Safe(o)'
      BY <1>8, <1>9, <1>10, <2>2, <3>1 DEF Safe
    <3> QED
      BY <1>6, <1>10, <2>2, <3>2 DEF OwnerInv, OneOwner
  <2> QED
    BY <1>10, <2>1, <2>2 DEF OneOwner
<1>11. unreadable = TRUE => unreadable' = TRUE
  <2>1. ASSUME NEW s \in Socks,
               \/ Connect(s) \/ Welcome(s) \/ List(s) \/ Wait(s) \/ Turn(s)
               \/ Configure(s) \/ Deliver(s) \/ Disconnect(s)
        PROVE  unreadable' = unreadable
    BY <2>1 DEF Connect, Welcome, List, Wait, Turn, Configure, Deliver, Disconnect
  <2>2. ASSUME NEW s \in Socks, NEW a \in Agents,
               \/ FirstClient(s, a) \/ Revoke(s, a)
               \/ \E r \in Requests : Approve(s, r, a)
        PROVE  unreadable' = unreadable
    BY <2>2 DEF FirstClient, MintOwner, Revoke, Approve
  <2>3. ASSUME NEW s \in Socks, NEW r \in Requests,
               Unknown(s, r) \/ Deny(s, r) \/ Expire(r)
        PROVE  unreadable' = unreadable
    BY <2>3 DEF Unknown, Deny, Expire
  <2>4. ASSUME NEW s \in Socks,
               \/ \E a \in Agents, again \in BOOLEAN : FirstUnreadable(s, a, again)
               \/ \E r \in Requests : UnknownUnreadable(s, r)
        PROVE  unreadable' = TRUE
    BY <2>4 DEF FirstUnreadable, UnknownUnreadable
  <2>5. ASSUME \/ \E r \in Requests : Expire(r)
               \/ \E a \in Agents : TurnEnds(a)
               \/ Restart \/ UNCHANGED vars
        PROVE  unreadable' = unreadable
    BY <2>5 DEF Expire, TurnEnds, Restart, vars
  <2> QED
    BY <2>1, <2>2, <2>3, <2>4, <2>5 DEF Next
<1>12. CASE OneOwner
  BY <1>1, <1>2, <1>3, <1>5, <1>10, <1>12 DEF Next
<1> QED
  BY <1>4, <1>11, <1>12 DEF OwnerInv
----
(* There is one owner, and its key is kept, on its way, or was lost there.  *)
THEOREM OwnerInvariance == Spec => [](RevokeInv /\ OwnerInv)
<1>1. Init => RevokeInv /\ OwnerInv
  BY RevokeInit, OwnerInit
<1>2. RevokeInv /\ OwnerInv /\ [Next]_vars => (RevokeInv /\ OwnerInv)'
  BY RevokeStep, OwnerStep
<1> QED
  BY <1>1, <1>2, PTL DEF Spec

(* The setup phase never reopens and the owner is not locked out: only a    *)
(* lost first answer or an unreadable store breaks it (initialize, revoke,  *)
(* AgentAuth.rpc).                                                          *)
THEOREM OwnerKeepsKey == Spec => []OwnerHoldsKey
<1>1. RevokeInv /\ OwnerInv => OwnerHoldsKey
  BY DEF RevokeInv, OwnerInv, OneOwner, Empty, Safe, SentTo, KeptBy, OwnerHoldsKey
<1> QED
  BY <1>1, OwnerInvariance, PTL
----
(* Where a token can be. Only a request that is closed has one stashed.     *)
Sent(s, a) == reply[s] = Token(a)
Placed(a) == \/ a \in kept \cup lost
             \/ \E r \in Requests : tokens[r] = a
             \/ \E s \in Socks : Sent(s, a)
Alone(a) ==
    /\ a \notin kept \cap lost
    /\ \A r \in Requests : tokens[r] = a =>
         /\ a \notin kept \cup lost
         /\ \A q \in Requests : tokens[q] = a => q = r
         /\ \A s \in Socks : ~ Sent(s, a)
    /\ \A s \in Socks : Sent(s, a) =>
         /\ a \notin kept \cup lost
         /\ \A x \in Socks : Sent(x, a) => x = s
OpenEmpty == \A r \in Requests : pending[r] # "gone" => tokens[r] = NoAgent
HandInv == OpenEmpty /\ \A a \in Agents : (Placed(a) <=> a \in minted) /\ Alone(a)

LEMMA TokensDiffer ==
    /\ \A a, b : Token(a) = Token(b) => a = b
    /\ \A a : Token(a) # Nothing
    /\ \A a, r, h : Token(a) # Required(r, h)
  BY DEF Token, Nothing, Required

(* Only a token's own answer counts as one on its way.                      *)
LEMMA SentIsInFlight ==
    ASSUME TypeOK, NEW s \in Socks
    PROVE  \A a \in Agents : Sent(s, a) <=> a \in InFlight(s)
<1>1. reply[s] \in Replies
  BY DEF TypeOK
<1>2. reply[s].kind = "token" => reply[s] = Token(reply[s].agent)
  BY <1>1 DEF Replies, Token
<1>3. \A a \in Agents : Sent(s, a) => reply[s].kind = "token" /\ reply[s].agent = a
  BY DEF Sent, Token
<1> QED
  BY <1>2, <1>3 DEF InFlight, Sent

(* Steps that move no token.                                                *)
LEMMA HandSame ==
    ASSUME HandInv, OpenEmpty', UNCHANGED <<tokens, minted, kept, lost>>,
           \A s \in Socks, a \in Agents : Sent(s, a)' <=> Sent(s, a)
    PROVE  HandInv'
  BY DEF HandInv, Placed, Alone

LEMMA HandInit == Init => HandInv
  BY TokensDiffer, NoneAssumption DEF Init, HandInv, OpenEmpty, Placed, Alone, Sent

(* A token is minted into an answer.                                        *)
LEMMA HandMint ==
    ASSUME TypeOK, HandInv, NEW s \in Socks, NEW a \in Agents, reply[s] = Nothing,
           a \notin minted, minted' = minted \cup {a}, reply' = [reply EXCEPT ![s] = Token(a)],
           UNCHANGED <<pending, tokens, kept, lost>>
    PROVE  HandInv'
<1>1. \A x \in Socks, b \in Agents : Sent(x, b)' <=> (Sent(x, b) \/ (x = s /\ b = a))
  BY TokensDiffer DEF Sent, TypeOK
<1>2. ~ Placed(a)
  BY DEF HandInv
<1> QED
  BY <1>1, <1>2 DEF HandInv, OpenEmpty, Placed, Alone

LEMMA HandStep == ASSUME TypeOK, HandInv, [Next]_vars PROVE HandInv'
<1> USE DEF disk, pairs, socks, clients, history
<1>1. ASSUME NEW s \in Socks,
             \/ Connect(s) \/ Welcome(s) \/ Turn(s) \/ Configure(s)
             \/ \E a \in Agents : Revoke(s, a)
      PROVE  HandInv'
  <2>1. UNCHANGED <<pending, tokens, reply, minted, kept, lost>>
    BY <1>1 DEF Connect, Welcome, Turn, Configure, Revoke
  <2> QED
    BY <2>1, HandSame DEF HandInv, OpenEmpty, Sent
<1>2. ASSUME NEW s \in Socks, NEW a \in Agents,
             FirstClient(s, a) \/ \E again \in BOOLEAN : FirstUnreadable(s, a, again)
      PROVE  HandInv'
  <2>1. /\ a \notin minted /\ minted' = minted \cup {a} /\ reply[s] = Nothing
        /\ reply' = [reply EXCEPT ![s] = Token(a)]
        /\ UNCHANGED <<pending, tokens, kept, lost>>
    BY <1>2, FreshIsNew DEF FirstClient, FirstUnreadable, MintOwner, Live
  <2> QED
    BY <2>1, HandMint
<1>3. ASSUME NEW s \in Socks, NEW r \in Requests,
             Unknown(s, r) \/ UnknownUnreadable(s, r)
      PROVE  HandInv'
  <2>1. Ask(s, r) /\ reply[s] = Nothing
    BY <1>3 DEF Unknown, UnknownUnreadable, Live
  <2>2. OpenEmpty'
    <3>1. pending[r] = "unused"
      BY <2>1 DEF Ask, Unused
    <3>2. \A q \in Requests : pending'[q] # "gone" => pending[q] # "gone"
      BY <2>1, <3>1 DEF Ask, TypeOK
    <3> QED
      BY <2>1, <3>2 DEF Ask, HandInv, OpenEmpty
  <2>3. \A x \in Socks, b \in Agents : Sent(x, b)' <=> Sent(x, b)
    BY <2>1, TokensDiffer DEF Ask, Sent, TypeOK
  <2>4. UNCHANGED <<tokens, minted, kept, lost>>
    BY <2>1 DEF Ask
  <2> QED
    BY <2>2, <2>3, <2>4, HandSame
<1>4. ASSUME \/ \E r \in Requests : Expire(r)
             \/ \E s \in Socks : List(s)
             \/ \E s \in Socks, r \in Requests : Deny(s, r)
      PROVE  HandInv'
  <2>1. UNCHANGED <<tokens, reply, minted, kept, lost>>
    BY <1>4 DEF Expire, List, Deny
  <2>2. \A q \in Requests : pending'[q] # "gone" => pending[q] # "gone"
    BY <1>4 DEF Expire, List, Deny, TypeOK
  <2> QED
    BY <2>1, <2>2, HandSame DEF HandInv, OpenEmpty, Sent
<1>5. ASSUME NEW s \in Socks, NEW r \in Requests, NEW a \in Agents, Approve(s, r, a)
      PROVE  HandInv'
  <2>1. /\ a \notin minted /\ minted' = minted \cup {a}
        /\ tokens' = [tokens EXCEPT ![r] = a] /\ tokens[r] = NoAgent
        /\ pending' = [pending EXCEPT ![r] = "gone"]
        /\ UNCHANGED <<reply, kept, lost>>
    BY <1>5, FreshIsNew DEF Approve, HandInv, OpenEmpty
  <2>2. ~ Placed(a)
    BY <2>1 DEF HandInv
  <2>3. \A q \in Requests, b \in Agents :
           tokens'[q] = b <=> (tokens[q] = b \/ (q = r /\ b = a))
    BY <2>1, NoneAssumption DEF TypeOK
  <2>4. \A x \in Socks, b \in Agents : Sent(x, b)' <=> Sent(x, b)
    BY <2>1 DEF Sent
  <2>5. OpenEmpty'
    BY <2>1 DEF HandInv, OpenEmpty, TypeOK
  <2> QED
    BY <2>1, <2>2, <2>3, <2>4, <2>5 DEF HandInv, Placed, Alone
<1>6. ASSUME NEW s \in Socks, Wait(s) PROVE HandInv'
  <2>1. PICK r \in Requests, a \in Agents :
           /\ tokens[r] = a /\ reply[s] = Nothing
           /\ reply' = [reply EXCEPT ![s] = Token(a)]
           /\ tokens' = [tokens EXCEPT ![r] = NoAgent]
           /\ UNCHANGED <<pending, minted, kept, lost>>
    BY <1>6 DEF Wait, Live, TypeOK
  <2>2. \A q \in Requests, b \in Agents : tokens'[q] = b <=> (tokens[q] = b /\ q # r)
    BY <2>1, NoneAssumption DEF TypeOK
  <2>3. \A x \in Socks, b \in Agents : Sent(x, b)' <=> (Sent(x, b) \/ (x = s /\ b = a))
    BY <2>1, TokensDiffer DEF Sent, TypeOK
  <2>4. OpenEmpty'
    BY <2>1 DEF HandInv, OpenEmpty, TypeOK
  <2>5. \A b \in Agents \ {a} : (Placed(b)' <=> b \in minted') /\ Alone(b)'
    BY <2>1, <2>2, <2>3 DEF HandInv, Placed, Alone
  <2>6. Alone(a)
    BY DEF HandInv
  <2>7. a \in minted /\ a \notin kept \cup lost
    BY <2>1, <2>6 DEF HandInv, Placed, Alone
  <2>8. \A q \in Requests : tokens'[q] # a
    BY <2>1, <2>2, <2>6 DEF Alone
  <2>9. \A x \in Socks : Sent(x, a)' <=> x = s
    BY <2>1, <2>3, <2>6 DEF Alone
  <2> QED
    BY <2>1, <2>4, <2>5, <2>7, <2>8, <2>9 DEF HandInv, Placed, Alone
<1>7. ASSUME NEW s \in Socks, Deliver(s) \/ Disconnect(s) PROVE HandInv'
  <2>1. /\ reply' = [reply EXCEPT ![s] = Nothing]
        /\ UNCHANGED <<pending, tokens, minted>>
        /\ \/ kept' = kept \cup InFlight(s) /\ lost' = lost
           \/ lost' = lost \cup InFlight(s) /\ kept' = kept
    BY <1>7 DEF Deliver, Disconnect
  <2>2. \A b \in Agents : Sent(s, b) <=> b \in InFlight(s)
    BY SentIsInFlight
  <2>3. \A x \in Socks, b \in Agents : Sent(x, b)' <=> (Sent(x, b) /\ x # s)
    BY <2>1, TokensDiffer DEF Sent, TypeOK
  <2>4. OpenEmpty'
    BY <2>1 DEF HandInv, OpenEmpty
  <2>5. CASE kept' = kept \cup InFlight(s) /\ lost' = lost
    BY <2>1, <2>2, <2>3, <2>4, <2>5 DEF HandInv, Placed, Alone
  <2>6. CASE lost' = lost \cup InFlight(s) /\ kept' = kept
    BY <2>1, <2>2, <2>3, <2>4, <2>6 DEF HandInv, Placed, Alone
  <2> QED
    BY <2>1, <2>5, <2>6
<1>8. ASSUME NEW a \in Agents, TurnEnds(a) PROVE HandInv'
  BY <1>8, HandSame DEF TurnEnds, HandInv, OpenEmpty, Sent
<1>9. CASE Restart
  <2>1. /\ UNCHANGED <<minted, kept>>
        /\ lost' = lost \cup Stashed \cup UNION {InFlight(s) : s \in Socks}
        /\ \A r \in Requests : tokens'[r] = NoAgent
        /\ \A s \in Socks : reply'[s] = Nothing
    BY <1>9 DEF Restart
  <2>2. \A s \in Socks, b \in Agents : ~ Sent(s, b)'
    BY <2>1, TokensDiffer DEF Sent
  <2>3. \A b \in Agents : b \in lost' <=>
           \/ b \in lost \/ (\E r \in Requests : tokens[r] = b)
           \/ \E s \in Socks : Sent(s, b)
    BY <2>1, SentIsInFlight, NoneAssumption DEF Stashed
  <2>4. OpenEmpty'
    BY <2>1 DEF OpenEmpty
  <2> QED
    BY <2>1, <2>2, <2>3, <2>4, NoneAssumption DEF HandInv, Placed, Alone
<1>10. CASE UNCHANGED vars
  BY <1>10, HandSame DEF vars, HandInv, OpenEmpty, Sent
<1> QED
  BY <1>1, <1>2, <1>3, <1>4, <1>5, <1>6, <1>7, <1>8, <1>9, <1>10 DEF Next

(* Every token ever minted is in one place: stashed, in one answer, with a  *)
(* client that has come to keep it, or lost with a connection or with the   *)
(* daemon (pairing/approve, pairing/wait, take_pairing_token, initialize).  *)
THEOREM TokensHandedOnce == Spec => []HandedOnce
<1>1. Init => RevokeInv /\ HandInv
  BY RevokeInit, HandInit
<1>2. RevokeInv /\ HandInv /\ [Next]_vars => (RevokeInv /\ HandInv)'
  BY RevokeStep, HandStep DEF RevokeInv
<1>3. RevokeInv /\ HandInv => HandedOnce
  <2> SUFFICES ASSUME RevokeInv, HandInv, NEW a \in minted
               PROVE  LET Places == {<<"stashed", r>> : r \in {q \in Requests : tokens[q] = a}}
                             \cup {<<"sent", s>> : s \in {x \in Socks : reply[x] = Token(a)}}
                             \cup {<<"client", b>> : b \in kept \cap {a}}
                             \cup {<<"lost", b>> : b \in lost \cap {a}}
                      IN  \E place \in Places : Places = {place}
    BY DEF HandedOnce
  <2> DEFINE Places == {<<"stashed", r>> : r \in {q \in Requests : tokens[q] = a}}
                  \cup {<<"sent", s>> : s \in {x \in Socks : reply[x] = Token(a)}}
                  \cup {<<"client", b>> : b \in kept \cap {a}}
                  \cup {<<"lost", b>> : b \in lost \cap {a}}
  <2>1. Placed(a) /\ Alone(a)
    BY DEF RevokeInv, TypeOK, HandInv
  <2>2. CASE a \in kept
    <3>1. Places = {<<"client", a>>}
      BY <2>1, <2>2 DEF Alone, Sent
    <3> QED
      BY <3>1
  <2>3. CASE a \in lost
    <3>1. Places = {<<"lost", a>>}
      BY <2>1, <2>3 DEF Alone, Sent
    <3> QED
      BY <3>1
  <2>4. ASSUME NEW r \in Requests, tokens[r] = a PROVE \E place \in Places : Places = {place}
    <3>1. Places = {<<"stashed", r>>}
      BY <2>1, <2>4 DEF Alone, Sent
    <3> QED
      BY <3>1
  <2>5. ASSUME NEW s \in Socks, Sent(s, a) PROVE \E place \in Places : Places = {place}
    <3>1. Places = {<<"sent", s>>}
      BY <2>1, <2>5 DEF Alone, Sent
    <3> QED
      BY <3>1
  <2> QED
    BY <2>1, <2>2, <2>3, <2>4, <2>5 DEF Placed
<1> QED
  BY <1>1, <1>2, <1>3, PTL DEF Spec
----
(* AgentDaemon                                                              *)

(* DaemonTypeOK in parts: the values, the flag and the userland's lock.     *)
DaemonTypes ==
    /\ proc \in [Pids -> Procs]
    /\ pidFile \in Pids \cup {NoPid}
    /\ apk \in Versions /\ marker \in Versions \cup {NoVersion}
    /\ lock \in Threads \cup {NoThread}
    /\ starting \in BOOLEAN
    /\ job \in [Threads -> Jobs]
    /\ settled \in BOOLEAN /\ missed \in BOOLEAN /\ raced \in BOOLEAN
FlagInv ==
    /\ starting <=> \E t \in Threads : job[t].pc \in Flagged
    /\ \A t, u \in Threads :
         job[t].pc \in Flagged /\ job[u].pc \in Flagged => t = u
UserlandInv == lock # NoThread => job[lock].pc \in Calls /\ marker = NoVersion

(* A thread that has the userland's answer has it at the installed version: *)
(* from then on it is never extracted again while the app lives.            *)
Refreshed == {"compare", "kill old", "recheck", "kill stale", "spawn", "record", "wait"}
MarkerInv ==
    /\ marker <= apk
    /\ settled => marker = apk
    /\ \A t \in Threads :
         /\ job[t].pc \in Refreshed => marker = apk
         /\ job[t].pc = "refresh" /\ job[t].before = apk => marker = apk

(* Without a race, a daemon lives only where the file or a spawning thread  *)
(* names it, and none does where a thread is about to spawn or to delete.   *)
KnownInv == ~raced =>
    /\ (\A t \in Threads : job[t].pc # "record") => LivePids \subseteq {pidFile}
    /\ \A t \in Threads :
         /\ job[t].pc = "spawn" => LivePids = {}
         /\ job[t].pc = "record" => LivePids \subseteq {job[t].pid}
         /\ job[t].pc = "delete" =>
              /\ LivePids = {}
              /\ \A u \in Threads : job[u].pc \notin {"spawn", "record"}

(* What lives runs the installed version once the userland has it, unless a *)
(* thread is on its way to kill it or nobody looked.                        *)
AllFresh == \A p \in LivePids : proc[p].code = apk
Overdue(t) == \/ job[t].pc = "kill old"
              \/ job[t].pc = "compare" /\ job[t].before # marker
FreshInv == ~raced =>
    /\ \A t \in Threads : job[t].pc = "record" => AllFresh
    /\ ~missed /\ marker = apk /\ (\A t \in Threads : ~Overdue(t)) => AllFresh

DaemonInv == /\ DaemonTypes /\ FlagInv /\ UserlandInv
             /\ MarkerInv /\ KnownInv /\ FreshInv

LEMMA DaemonInvType == DaemonInv => DaemonTypeOK
  BY DEF DaemonInv, DaemonTypes, FlagInv, UserlandInv, DaemonTypeOK

LEMMA DaemonInitInv == DaemonInit => DaemonInv
<1> SUFFICES ASSUME DaemonInit PROVE DaemonInv
  OBVIOUS
<1>1. /\ 0 \in Versions /\ NoVersion \in Int /\ NoVersion < 0
      /\ Idle \in Jobs /\ None \in Procs
  BY BoundAssumption DEF Versions, NoVersion, Idle, Jobs, None, Procs
<1>2. LivePids = {} /\ \A t \in Threads : job[t] = Idle
  BY DEF DaemonInit, LivePids
<1>3. Idle.pc = "idle"
  BY DEF Idle
<1>4. DaemonTypes /\ UserlandInv
  BY <1>1 DEF DaemonInit, DaemonTypes, UserlandInv
<1>5. FlagInv
  BY <1>2, <1>3 DEF DaemonInit, FlagInv, Flagged
<1>6. MarkerInv
  <2>1. marker = NoVersion /\ apk = 0 /\ ~settled
    BY DEF DaemonInit
  <2>2. \A t \in Threads : job[t].pc = "idle"
    BY <1>2, <1>3
  <2>3. marker <= apk
    BY <2>1 DEF NoVersion
  <2>4. ASSUME NEW t \in Threads
        PROVE  job[t].pc \notin Refreshed /\ job[t].pc # "refresh"
    BY <2>2 DEF Refreshed
  <2> QED
    BY <2>1, <2>3, <2>4 DEF MarkerInv
<1>7. KnownInv /\ FreshInv
  BY <1>2, <1>3 DEF KnownInv, FreshInv, AllFresh
<1> QED
  BY <1>4, <1>5, <1>6, <1>7 DEF DaemonInv

Places == Calls \cup Flagged \cup
            {"idle", "probe", "compare", "kill old", "flag", "kill", "delete"}

(* What becomes of a thread's job: it goes on, or it returns.               *)
LEMMA GotoEffect ==
    ASSUME DaemonTypes, NEW t \in Threads, NEW pc \in Places, Goto(t, pc)
    PROVE  /\ job' \in [Threads -> Jobs]
           /\ \A u \in Threads : u # t => job'[u] = job[u]
           /\ job'[t].pc = pc /\ job'[t].op = job[t].op
           /\ job'[t].before = job[t].before /\ job'[t].pid = job[t].pid
<1>1. job[t] \in Jobs /\ job' = [job EXCEPT ![t] = [job[t] EXCEPT !.pc = pc]]
  BY DEF DaemonTypes, Goto
<1>2. [job[t] EXCEPT !.pc = pc] \in Jobs
  BY <1>1 DEF Jobs, Places
<1> QED
  BY <1>1, <1>2 DEF DaemonTypes, Jobs

LEMMA ReturnEffect ==
    ASSUME DaemonTypes, NEW t \in Threads, Return(t)
    PROVE  /\ job' \in [Threads -> Jobs]
           /\ \A u \in Threads : u # t => job'[u] = job[u]
           /\ job'[t].pc = "idle"
<1>1. Idle \in Jobs /\ Idle.pc = "idle"
  BY DEF Idle, Jobs
<1> QED
  BY <1>1 DEF DaemonTypes, Return

(* Killing by the file leaves of what lives only what the file does not     *)
(* name.                                                                    *)
LEMMA KilledEffect ==
    ASSUME DaemonTypes, NEW works \in BOOLEAN, proc' = Killed(works)
    PROVE  /\ proc' \in [Pids -> Procs]
           /\ LivePids' \subseteq LivePids
           /\ ~Survives(works) => LivePids' = LivePids \ {pidFile}
           /\ \A p \in LivePids' : proc'[p] = proc[p]
<1>1. None \in Procs
  BY BoundAssumption DEF None, Procs, Versions
<1> QED
  BY <1>1 DEF DaemonTypes, Killed, Survives, LivePids

(* A step of a thread outside the userland: what it owes of the flag and of *)
(* the marker is owed of this thread alone.                                 *)
LEMMA JobFrame ==
    ASSUME DaemonInv, NEW t \in Threads, UNCHANGED userland, lock # t,
           proc' \in [Pids -> Procs], pidFile' \in Pids \cup {NoPid},
           job' \in [Threads -> Jobs],
           \A u \in Threads : u # t => job'[u] = job[u],
           starting' \in BOOLEAN, settled' \in BOOLEAN,
           missed' \in BOOLEAN, raced' \in BOOLEAN,
           job'[t].pc \in Flagged => starting' /\ (job[t].pc \in Flagged \/ ~starting),
           job'[t].pc \notin Flagged =>
               starting' = (starting /\ job[t].pc \notin Flagged),
           settled' => settled \/ marker = apk,
           job'[t].pc \in Refreshed => marker = apk,
           job'[t].pc = "refresh" /\ job'[t].before = apk => marker = apk
    PROVE  DaemonTypes' /\ FlagInv' /\ UserlandInv' /\ MarkerInv'
<1> USE DEF DaemonInv, userland
<1>1. DaemonTypes' /\ UserlandInv'
  BY DEF DaemonTypes, UserlandInv
<1>2. FlagInv'
  BY DEF FlagInv
<1>3. MarkerInv'
  BY DEF MarkerInv
<1> QED
  BY <1>1, <1>2, <1>3

(* One that touches no process and no file either, and leads neither to a   *)
(* spawn nor to a deletion.                                                 *)
LEMMA JobStepInv ==
    ASSUME DaemonInv, NEW t \in Threads,
           UNCHANGED <<procs, userland, missed>>, lock # t,
           job' \in [Threads -> Jobs],
           \A u \in Threads : u # t => job'[u] = job[u],
           starting' \in BOOLEAN, settled' \in BOOLEAN, raced' \in BOOLEAN,
           job'[t].pc \in Flagged => starting' /\ (job[t].pc \in Flagged \/ ~starting),
           job'[t].pc \notin Flagged =>
               starting' = (starting /\ job[t].pc \notin Flagged),
           settled' => settled \/ marker = apk,
           raced => raced',
           job'[t].pc \in Refreshed => marker = apk,
           job'[t].pc = "refresh" /\ job'[t].before = apk => marker = apk,
           job'[t].pc \notin {"spawn", "record", "delete"},
           job[t].pc = "record" => raced',
           Overdue(t) => Overdue(t)'
    PROVE  DaemonInv'
<1> USE DEF DaemonInv, procs
<1>1. DaemonTypes' /\ FlagInv' /\ UserlandInv' /\ MarkerInv'
  BY JobFrame DEF DaemonTypes
<1>2. LivePids' = LivePids /\ (AllFresh <=> AllFresh')
  BY DEF LivePids, AllFresh, userland
<1>3. KnownInv'
  BY <1>2 DEF KnownInv
<1>4. FreshInv'
  <2>1. \A u \in Threads : Overdue(u) => Overdue(u)'
    BY DEF Overdue, userland
  <2> QED
    BY <1>2, <2>1 DEF FreshInv, userland
<1> QED
  BY <1>1, <1>3, <1>4

LEMMA EnsureQuietInv ==
    ASSUME DaemonInv, NEW t \in Threads,
           \/ Probe(t) \/ Compare(t) \/ FlagTaken(t) \/ FlagFree(t) \/ Recheck(t)
           \/ SpawnFails(t) \/ Unrecorded(t) \/ WaitUp(t) \/ WaitEnds(t)
    PROVE  DaemonInv'
<1> USE DEF DaemonInv, histories, At, Flagged, Refreshed, Overdue
<1>0. /\ DaemonTypes /\ starting \in BOOLEAN /\ settled \in BOOLEAN /\ raced \in BOOLEAN
      /\ lock = t => job[t].pc \in {"refresh", "extract", "terminal"}
      /\ job[t].pc \in Flagged => starting
      /\ job[t].pc \in Refreshed => marker = apk
  BY NoPidAssumption DEF DaemonTypes, UserlandInv, Calls, FlagInv, MarkerInv
<1>1. CASE Probe(t)
  <2>1. /\ job[t] \in Jobs /\ job[t].pc = "probe"
        /\ UNCHANGED <<procs, userland, starting, settled, missed, raced>>
        /\ \/ job' = [job EXCEPT ![t] = [job[t] EXCEPT !.pc = "refresh", !.before = marker]]
           \/ job' = [job EXCEPT ![t] = [job[t] EXCEPT !.pc = "flag"]]
    BY <1>0, <1>1 DEF Probe, DaemonTypes
  <2>2. /\ [job[t] EXCEPT !.pc = "refresh", !.before = marker] \in Jobs
        /\ [job[t] EXCEPT !.pc = "refresh", !.before = marker].pc = "refresh"
        /\ [job[t] EXCEPT !.pc = "refresh", !.before = marker].before = marker
        /\ [job[t] EXCEPT !.pc = "flag"] \in Jobs
        /\ [job[t] EXCEPT !.pc = "flag"].pc = "flag"
    BY <1>0, <2>1 DEF Jobs, Calls, DaemonTypes
  <2>3. /\ job' \in [Threads -> Jobs] /\ \A u \in Threads : u # t => job'[u] = job[u]
        /\ \/ job'[t].pc = "refresh" /\ job'[t].before = marker
           \/ job'[t].pc = "flag"
    <3>1. CASE job' = [job EXCEPT ![t] = [job[t] EXCEPT !.pc = "refresh", !.before = marker]]
      BY <1>0, <2>2, <3>1 DEF DaemonTypes
    <3>2. CASE job' = [job EXCEPT ![t] = [job[t] EXCEPT !.pc = "flag"]]
      BY <1>0, <2>2, <3>2 DEF DaemonTypes
    <3> QED
      BY <2>1, <3>1, <3>2
  <2> QED
    BY <1>0, <2>1, <2>3, JobStepInv
<1>2. CASE Compare(t)
  <2>1. CASE marker = job[t].before
    BY <1>0, <1>2, <2>1, ReturnEffect, JobStepInv DEF Compare
  <2>2. CASE marker # job[t].before
    <3>1. Goto(t, "kill old") /\ "kill old" \in Places
      BY <1>2, <2>2 DEF Compare, Places
    <3> QED
      BY <1>0, <1>2, <2>2, <3>1, GotoEffect, JobStepInv DEF Compare
  <2> QED
    BY <2>1, <2>2
<1>3. CASE FlagTaken(t)
  BY <1>0, <1>3, ReturnEffect, JobStepInv DEF FlagTaken
<1>4. CASE FlagFree(t)
  <2>1. Goto(t, "extract") /\ "extract" \in Places
    BY <1>4 DEF FlagFree, Places
  <2> QED
    BY <1>0, <1>4, <2>1, GotoEffect, JobStepInv DEF FlagFree
<1>5. CASE Recheck(t)
  <2>1. CASE IsUp \/ marker = NoVersion
    BY <1>0, <1>5, <2>1, ReturnEffect, JobStepInv DEF Recheck, Leave
  <2>2. CASE ~(IsUp \/ marker = NoVersion)
    <3>1. Goto(t, "kill stale") /\ "kill stale" \in Places
      BY <1>5, <2>2 DEF Recheck, Places
    <3> QED
      BY <1>0, <1>5, <2>2, <3>1, GotoEffect, JobStepInv DEF Recheck
  <2> QED
    BY <2>1, <2>2
<1>6. CASE SpawnFails(t)
  BY <1>0, <1>6, ReturnEffect, JobStepInv DEF SpawnFails, Leave
<1>7. CASE Unrecorded(t)
  <2>1. Goto(t, "wait") /\ "wait" \in Places
    BY <1>7 DEF Unrecorded, Places
  <2> QED
    BY <1>0, <1>7, <2>1, GotoEffect, JobStepInv DEF Unrecorded
<1>8. CASE WaitUp(t) \/ WaitEnds(t)
  BY <1>0, <1>8, ReturnEffect, JobStepInv DEF WaitUp, WaitEnds, Leave
<1> QED
  BY <1>1, <1>2, <1>3, <1>4, <1>5, <1>6, <1>7, <1>8

LEMMA BeginInv ==
    ASSUME DaemonInv, NEW t \in Threads,
           NEW op \in {"service", "restart", "stop", "pty"}, Begin(t, op)
    PROVE  DaemonInv'
<1> DEFINE first == CASE op = "service" -> "probe"
                      [] op = "pty" -> "terminal"
                      [] OTHER -> "kill"
<1>1. job[t] = Idle /\ job' = [job EXCEPT ![t] = [Idle EXCEPT !.op = op, !.pc = first]]
  BY DEF Begin, DaemonInv, DaemonTypes
<1>2. first \in {"probe", "terminal", "kill"}
  OBVIOUS
<1> HIDE DEF first
<1>3. [Idle EXCEPT !.op = op, !.pc = first] \in Jobs
  BY <1>2 DEF Idle, Jobs, Calls
<1>4. /\ job' \in [Threads -> Jobs] /\ \A u \in Threads : u # t => job'[u] = job[u]
      /\ job'[t].pc = first /\ job[t].pc = "idle"
  BY <1>1, <1>3 DEF DaemonInv, DaemonTypes, Idle
<1>5. lock # t
  BY <1>4, NoPidAssumption DEF DaemonInv, UserlandInv, Calls
<1> QED
  BY <1>2, <1>4, <1>5, JobStepInv
     DEF Begin, DaemonInv, DaemonTypes, histories, Flagged, Refreshed, Overdue

LEMMA CachedInv ==
    ASSUME DaemonInv, NEW t \in Threads, Cached(t)
    PROVE  DaemonInv'
<1> USE DEF At, Flagged, Refreshed, Overdue, Calls
<1>0. /\ DaemonTypes /\ lock = NoThread /\ marker = apk /\ lock # t
      /\ UNCHANGED <<procs, userland, starting, histories>>
      /\ job[t].pc \in Calls /\ AfterCall(t)
      /\ starting \in BOOLEAN /\ settled \in BOOLEAN /\ raced \in BOOLEAN
      /\ job[t].pc \in Flagged => starting
  BY NoPidAssumption DEF Cached, DaemonInv, DaemonTypes, FlagInv
<1>1. CASE job[t].pc = "refresh"
  <2>1. Goto(t, "compare") /\ "compare" \in Places
    BY <1>0, <1>1 DEF AfterCall, Places
  <2> QED
    BY <1>0, <1>1, <2>1, GotoEffect, JobStepInv DEF histories
<1>2. CASE job[t].pc = "extract"
  <2>1. Goto(t, "recheck") /\ "recheck" \in Places
    BY <1>0, <1>2 DEF AfterCall, Places
  <2> QED
    BY <1>0, <1>2, <2>1, GotoEffect, JobStepInv DEF histories
<1>3. CASE job[t].pc = "terminal"
  <2>1. Return(t)
    BY <1>0, <1>3 DEF AfterCall
  <2> QED
    BY <1>0, <1>3, <2>1, ReturnEffect, JobStepInv DEF histories
<1> QED
  BY <1>0, <1>1, <1>2, <1>3

(* Killing by the file: with nothing at record it kills all that lives.     *)
LEMMA KillStaleInv ==
    ASSUME DaemonInv, NEW t \in Threads, NEW works \in BOOLEAN, KillStale(t, works)
    PROVE  DaemonInv'
<1>0. PICK next \in {"flag", "spawn"} :
             next = IF At(t, "kill old") THEN "flag" ELSE "spawn"
  OBVIOUS
<1>1. /\ DaemonTypes /\ raced' \in BOOLEAN /\ (raced => raced')
      /\ missed' \in BOOLEAN /\ (missed => missed')
      /\ UNCHANGED <<pidFile, userland, starting, settled>>
      /\ proc' = Killed(works) /\ Goto(t, next) /\ next \in Places
      /\ job[t].pc \in {"kill old", "kill stale"}
      /\ job[t].pc = "kill old" => next = "flag"
      /\ job[t].pc = "kill stale" => next = "spawn"
      /\ job[t].pc = "kill stale" /\ (Unsafe(t, {"delete"}) \/ Survives(works)) => raced'
      /\ job[t].pc = "kill old" /\ Survives(works) => missed'
  BY <1>0 DEF KillStale, DaemonInv, DaemonTypes, At, Places, Flagged
<1>2. /\ job' \in [Threads -> Jobs] /\ \A u \in Threads : u # t => job'[u] = job[u]
      /\ job'[t].pc = next
  BY <1>1, GotoEffect
<1>3. /\ proc' \in [Pids -> Procs] /\ LivePids' \subseteq LivePids
      /\ ~Survives(works) => LivePids' = LivePids \ {pidFile}
      /\ \A p \in LivePids' : proc'[p] = proc[p]
  BY <1>1, KilledEffect
<1>4. lock # t
  BY <1>1, NoPidAssumption DEF DaemonInv, UserlandInv, Calls
<1>5. DaemonTypes' /\ FlagInv' /\ UserlandInv' /\ MarkerInv'
  <2>1. /\ job[t].pc \in Flagged => starting
        /\ job[t].pc \in Refreshed => marker = apk
    BY DEF DaemonInv, FlagInv, MarkerInv
  <2> QED
    BY <1>1, <1>2, <1>3, <1>4, <2>1, JobFrame DEF DaemonTypes, Flagged, Refreshed
<1>6. job[t].pc = "kill stale" => \A u \in Threads : job[u].pc # "record"
  BY DEF DaemonInv, FlagInv, Flagged
<1>7. ~raced /\ ~Survives(works) /\ (\A u \in Threads : job[u].pc # "record")
        => LivePids' = {}
  BY <1>3 DEF DaemonInv, KnownInv
<1>8. KnownInv'
  <2> SUFFICES ASSUME ~raced' PROVE KnownInv'
    BY DEF KnownInv
  <2>1. /\ ~raced /\ pidFile' = pidFile
        /\ \A u \in Threads : u # t =>
             job'[u].pc = job[u].pc /\ job'[u].pid = job[u].pid
        /\ job[t].pc # "record" /\ job'[t].pc \in {"flag", "spawn"}
        /\ job'[t].pc = "spawn" => job[t].pc = "kill stale"
    BY <1>1, <1>2
  <2>2. ASSUME \A u \in Threads : job'[u].pc # "record"
        PROVE  LivePids' \subseteq {pidFile'}
    <3>1. \A u \in Threads : job[u].pc # "record"
      BY <2>1, <2>2
    <3> QED
      BY <1>3, <2>1, <3>1 DEF DaemonInv, KnownInv
  <2>3. ASSUME NEW u \in Threads, job'[u].pc = "spawn" PROVE LivePids' = {}
    <3>1. CASE u = t
      BY <1>1, <1>6, <1>7, <2>1, <2>3, <3>1
    <3>2. CASE u # t
      BY <1>3, <2>1, <2>3, <3>2 DEF DaemonInv, KnownInv
    <3> QED
      BY <3>1, <3>2
  <2>4. ASSUME NEW u \in Threads, job'[u].pc = "record"
        PROVE  LivePids' \subseteq {job'[u].pid}
    BY <1>3, <2>1, <2>4 DEF DaemonInv, KnownInv
  <2>5. ASSUME NEW u \in Threads, job'[u].pc = "delete"
        PROVE  LivePids' = {} /\ \A v \in Threads : job'[v].pc \notin {"spawn", "record"}
    <3>1. u # t /\ job[u].pc = "delete" /\ Unsafe(t, {"delete"})
      BY <2>1, <2>5 DEF Unsafe
    <3>2. job'[t].pc # "spawn"
      BY <1>1, <2>1, <3>1
    <3> QED
      BY <1>3, <2>1, <3>1, <3>2 DEF DaemonInv, KnownInv
  <2> QED
    BY <2>2, <2>3, <2>4, <2>5 DEF KnownInv
<1>9. FreshInv'
  <2> SUFFICES ASSUME ~raced' PROVE FreshInv'
    BY DEF FreshInv
  <2>1. AllFresh => AllFresh'
    BY <1>1, <1>3 DEF AllFresh, userland
  <2>2. LivePids' = {} => AllFresh'
    BY DEF AllFresh
  <2>3. \A u \in Threads : u # t => Overdue(u)' = Overdue(u)
    BY <1>1, <1>2 DEF Overdue, userland
  <2>4. \A u \in Threads : job'[u].pc = "record" => job[u].pc = "record"
    BY <1>1, <1>2
  <2>5. (\E u \in Threads : job[u].pc = "record") => AllFresh'
    BY <1>1, <2>1 DEF DaemonInv, FreshInv
  <2>6. CASE job[t].pc = "kill old"
    <3>1. ~missed' /\ (\A u \in Threads : job[u].pc # "record") => AllFresh'
      BY <1>1, <1>7, <2>2, <2>6
    <3> QED
      BY <2>4, <2>5, <3>1 DEF FreshInv
  <2>7. CASE job[t].pc = "kill stale"
    <3>1. ~Overdue(t)
      BY <2>7 DEF Overdue
    <3> QED
      BY <1>1, <2>1, <2>3, <2>4, <2>5, <3>1 DEF DaemonInv, FreshInv, userland
  <2> QED
    BY <1>1, <2>6, <2>7
<1> QED
  BY <1>5, <1>8, <1>9 DEF DaemonInv

(* A spawn under the flag: nothing lives, the new daemon is the installed   *)
(* version's.                                                               *)
LEMMA SpawnInv ==
    ASSUME DaemonInv, NEW t \in Threads, NEW p \in Pids, Spawn(t, p)
    PROVE  DaemonInv'
<1> DEFINE new == [state |-> "booting", code |-> marker]
           rec == [job[t] EXCEPT !.pc = "record", !.pid = p]
<1>1. /\ DaemonTypes /\ job[t].pc = "spawn" /\ marker = apk /\ job[t] \in Jobs
      /\ proc' = [proc EXCEPT ![p] = new]
      /\ job' = [job EXCEPT ![t] = rec]
      /\ UNCHANGED <<pidFile, userland, starting, histories>>
  BY DEF Spawn, DaemonInv, DaemonTypes, At, MarkerInv, Refreshed
<1>2. new \in Procs /\ new.code = apk /\ rec \in Jobs /\ rec.pc = "record" /\ rec.pid = p
  BY <1>1 DEF DaemonTypes, Procs, Jobs, Flagged
<1> HIDE DEF new, rec
<1>3. /\ job' \in [Threads -> Jobs] /\ \A u \in Threads : u # t => job'[u] = job[u]
      /\ job'[t].pc = "record" /\ job'[t].pid = p
      /\ proc' \in [Pids -> Procs] /\ LivePids' \subseteq LivePids \cup {p}
      /\ proc'[p].code = apk
  BY <1>1, <1>2 DEF DaemonTypes, LivePids
<1>4. lock # t
  BY <1>1, NoPidAssumption DEF DaemonInv, UserlandInv, Calls
<1>5. DaemonTypes' /\ FlagInv' /\ UserlandInv' /\ MarkerInv'
  <2>1. starting
    BY <1>1 DEF DaemonInv, FlagInv, Flagged
  <2> QED
    BY <1>1, <1>3, <1>4, <2>1, JobFrame DEF DaemonTypes, Flagged, Refreshed, histories
<1>6. ~raced => LivePids' \subseteq {p}
  BY <1>1, <1>3 DEF DaemonInv, KnownInv
<1>7. \A u \in Threads : job'[u].pc \in Flagged => u = t
  BY <1>1, <1>3 DEF DaemonInv, FlagInv, Flagged
<1>8. KnownInv'
  <2> SUFFICES ASSUME ~raced' PROVE KnownInv'
    BY DEF KnownInv
  <2>1. ~raced
    BY <1>1 DEF histories
  <2>2. \A u \in Threads : job'[u].pc # "delete"
    BY <1>1, <1>3, <2>1 DEF DaemonInv, KnownInv
  <2> QED
    BY <1>3, <1>6, <1>7, <2>1, <2>2 DEF KnownInv, Flagged
<1>9. FreshInv'
  BY <1>1, <1>3, <1>6 DEF FreshInv, AllFresh, histories, userland
<1> QED
  BY <1>5, <1>8, <1>9 DEF DaemonInv

(* The new daemon's pid enters the file: what the thread knew, all know.    *)
LEMMA RecordInv ==
    ASSUME DaemonInv, NEW t \in Threads, Record(t)
    PROVE  DaemonInv'
<1>1. /\ DaemonTypes /\ job[t].pc = "record" /\ job[t] \in Jobs
      /\ pidFile' = job[t].pid /\ Goto(t, "wait") /\ "wait" \in Places
      /\ UNCHANGED <<proc, userland, starting, histories>>
  BY DEF Record, DaemonInv, DaemonTypes, At, Places, Flagged
<1>2. /\ job' \in [Threads -> Jobs] /\ \A u \in Threads : u # t => job'[u] = job[u]
      /\ job'[t].pc = "wait" /\ pidFile' \in Pids \cup {NoPid}
  BY <1>1, GotoEffect DEF Jobs
<1>3. lock # t
  BY <1>1, NoPidAssumption DEF DaemonInv, UserlandInv, Calls
<1>4. DaemonTypes' /\ FlagInv' /\ UserlandInv' /\ MarkerInv'
  <2>1. starting /\ marker = apk
    BY <1>1 DEF DaemonInv, FlagInv, Flagged, MarkerInv, Refreshed
  <2> QED
    BY <1>1, <1>2, <1>3, <2>1, JobFrame DEF DaemonTypes, Flagged, Refreshed, histories
<1>5. LivePids' = LivePids /\ (AllFresh' <=> AllFresh)
  BY <1>1 DEF LivePids, AllFresh, userland
<1>6. \A u \in Threads : job'[u].pc \in Flagged => u = t
  BY <1>1, <1>2 DEF DaemonInv, FlagInv, Flagged
<1>7. KnownInv'
  <2> SUFFICES ASSUME ~raced' PROVE KnownInv'
    BY DEF KnownInv
  <2>1. ~raced /\ LivePids' \subseteq {pidFile'}
    BY <1>1, <1>5 DEF DaemonInv, KnownInv, histories
  <2>2. \A u \in Threads : job'[u].pc # "delete"
    BY <1>1, <1>2, <2>1 DEF DaemonInv, KnownInv
  <2> QED
    BY <1>2, <1>6, <2>1, <2>2 DEF KnownInv, Flagged
<1>8. FreshInv'
  <2>1. ~raced => AllFresh
    BY <1>1 DEF DaemonInv, FreshInv
  <2> QED
    BY <1>1, <1>5, <2>1 DEF FreshInv, histories
<1> QED
  BY <1>4, <1>7, <1>8 DEF DaemonInv

(* An extraction begins only where no thread has the userland's answer.     *)
LEMMA ExtractInv ==
    ASSUME DaemonInv, NEW t \in Threads, Extract(t)
    PROVE  DaemonInv'
<1> USE DEF DaemonInv, procs, histories
<1>1. /\ job[t].pc \in Calls /\ lock' = t /\ marker' = NoVersion /\ marker # apk
      /\ UNCHANGED <<procs, apk, starting, job, histories>>
      /\ apk \in Nat /\ NoVersion < apk /\ NoVersion # apk
  BY BoundAssumption DEF Extract, DaemonTypes, Versions, NoVersion
<1>2. DaemonTypes' /\ FlagInv' /\ UserlandInv'
  BY <1>1 DEF DaemonTypes, FlagInv, UserlandInv
<1>3. /\ ~settled
      /\ \A u \in Threads : job[u].pc \notin Refreshed
      /\ \A u \in Threads : ~(job[u].pc = "refresh" /\ job[u].before = apk)
  BY <1>1 DEF MarkerInv
<1>4. MarkerInv'
  <2>1. marker' <= apk'
    BY <1>1 DEF NoVersion
  <2> QED
    BY <1>1, <1>3, <2>1 DEF MarkerInv
<1>5. LivePids' = LivePids /\ (AllFresh' <=> AllFresh)
  BY <1>1 DEF LivePids, AllFresh
<1>6. KnownInv' /\ FreshInv'
  BY <1>1, <1>5 DEF KnownInv, FreshInv
<1> QED
  BY <1>2, <1>4, <1>6

(* A call that ends: where the thread goes from there.                      *)
LEMMA AfterCallEffect ==
    ASSUME DaemonTypes, NEW t \in Threads, job[t].pc \in Calls, AfterCall(t)
    PROVE  /\ job' \in [Threads -> Jobs]
           /\ \A u \in Threads : u # t => job'[u] = job[u]
           /\ job[t].pc = "refresh" =>
                job'[t].pc = "compare" /\ job'[t].before = job[t].before
           /\ job[t].pc = "extract" => job'[t].pc = "recheck"
           /\ job[t].pc = "terminal" => job'[t].pc = "idle"
<1>1. "compare" \in Places /\ "recheck" \in Places
  BY DEF Places, Flagged
<1>2. CASE job[t].pc = "refresh"
  BY <1>1, <1>2, GotoEffect DEF AfterCall, At
<1>3. CASE job[t].pc = "extract"
  BY <1>1, <1>3, GotoEffect DEF AfterCall, At
<1>4. CASE job[t].pc = "terminal"
  BY <1>4, ReturnEffect DEF AfterCall, At
<1> QED
  BY <1>2, <1>3, <1>4 DEF Calls

(* The userland is made. ensure's first call read another version before    *)
(* it, and is overdue from here; any other call misses what lives.          *)
LEMMA ExtractedInv ==
    ASSUME DaemonInv, NEW t \in Threads, Extracted(t)
    PROVE  DaemonInv'
<1> USE DEF DaemonInv, procs
<1>1. /\ lock = t /\ lock' = NoThread /\ marker' = apk /\ AfterCall(t)
      /\ missed' = (missed \/ (job[t].pc # "refresh" /\ LivePids # {}))
      /\ UNCHANGED <<procs, apk, starting, settled, raced>>
  BY DEF Extracted, At
<1>2. job[t].pc \in Calls /\ marker = NoVersion /\ DaemonTypes
  BY <1>1, NoPidAssumption DEF UserlandInv
<1>3. apk \in Versions /\ NoVersion # apk /\ apk <= apk
  BY BoundAssumption DEF DaemonTypes, Versions, NoVersion
<1>4. /\ job' \in [Threads -> Jobs] /\ \A u \in Threads : u # t => job'[u] = job[u]
      /\ job[t].pc = "refresh" => job'[t].pc = "compare" /\ job'[t].before = job[t].before
      /\ job[t].pc = "extract" => job'[t].pc = "recheck"
      /\ job[t].pc = "terminal" => job'[t].pc = "idle"
  BY <1>1, <1>2, AfterCallEffect
<1>5. DaemonTypes'
  BY <1>1, <1>3, <1>4 DEF DaemonTypes
<1>6. FlagInv'
  BY <1>1, <1>2, <1>4 DEF FlagInv, Flagged, Calls
<1>7. UserlandInv' /\ MarkerInv'
  BY <1>1, <1>3 DEF UserlandInv, MarkerInv
<1>8. LivePids' = LivePids /\ (AllFresh' <=> AllFresh)
  BY <1>1 DEF LivePids, AllFresh
<1>9. job'[t].pc \in {"compare", "recheck", "idle"} /\ job[t].pc \notin {"spawn", "record"}
  BY <1>2, <1>4 DEF Calls
<1>10. KnownInv'
  BY <1>1, <1>4, <1>8, <1>9 DEF KnownInv
<1>11. FreshInv'
  <2>1. \A u \in Threads : job[u].pc \notin Refreshed
    BY <1>2, <1>3 DEF MarkerInv
  <2>2. \A u \in Threads : job'[u].pc # "record"
    BY <1>4, <1>9, <2>1 DEF Refreshed
  <2>3. CASE job[t].pc = "refresh"
    <3>1. job[t].before # apk
      BY <1>2, <1>3, <2>3 DEF MarkerInv
    <3>2. Overdue(t)'
      BY <1>1, <1>4, <2>3, <3>1 DEF Overdue
    <3> QED
      BY <2>2, <3>2 DEF FreshInv
  <2>4. CASE job[t].pc # "refresh"
    BY <1>1, <1>8, <2>2, <2>4 DEF FreshInv, AllFresh
  <2> QED
    BY <2>3, <2>4
<1> QED
  BY <1>5, <1>6, <1>7, <1>10, <1>11

(* It throws: the userland is left missing, the flag is cleared with it.    *)
LEMMA ExtractFailsInv ==
    ASSUME DaemonInv, NEW t \in Threads, ExtractFails(t)
    PROVE  DaemonInv'
<1> USE DEF DaemonInv, procs, histories
<1>1. /\ lock = t /\ lock' = NoThread /\ Return(t)
      /\ UNCHANGED <<procs, apk, marker, histories>>
      /\ starting' = (starting /\ job[t].pc # "extract")
  BY DEF ExtractFails, At, Leave, DaemonTypes
<1>2. /\ job[t].pc \in Calls /\ marker = NoVersion /\ NoVersion # apk
      /\ DaemonTypes
  BY <1>1, BoundAssumption, NoPidAssumption
     DEF UserlandInv, DaemonTypes, Versions, NoVersion
<1>3. /\ job' \in [Threads -> Jobs] /\ \A u \in Threads : u # t => job'[u] = job[u]
      /\ job'[t].pc = "idle"
  BY <1>1, <1>2, ReturnEffect
<1>4. DaemonTypes' /\ UserlandInv'
  BY <1>1, <1>3 DEF DaemonTypes, UserlandInv
<1>5. FlagInv'
  <2>1. starting \in BOOLEAN
    BY <1>2 DEF DaemonTypes
  <2> QED
    BY <1>1, <1>2, <1>3, <2>1 DEF FlagInv, Flagged, Calls
<1>6. MarkerInv'
  BY <1>1, <1>3 DEF MarkerInv, Refreshed
<1>7. LivePids' = LivePids
  BY <1>1 DEF LivePids
<1>8. job[t].pc \notin {"spawn", "record"}
  BY <1>2 DEF Calls
<1>9. KnownInv'
  BY <1>1, <1>3, <1>7, <1>8 DEF KnownInv
<1>10. FreshInv'
  <2>1. \A u \in Threads : job'[u].pc # "record"
    BY <1>2, <1>3 DEF MarkerInv, Refreshed
  <2> QED
    BY <1>1, <1>2, <2>1 DEF FreshInv
<1> QED
  BY <1>4, <1>5, <1>6, <1>9, <1>10

(* With every thread gone only what lives can be wrong.                     *)
LEMMA ForgetInv ==
    ASSUME DaemonInv, Forget,
           proc' \in [Pids -> Procs], pidFile' \in Pids \cup {NoPid},
           apk' \in Versions, marker' \in Versions \cup {NoVersion},
           settled' \in BOOLEAN, missed' \in BOOLEAN, raced' \in BOOLEAN,
           marker' <= apk', settled' => marker' = apk',
           ~raced' => LivePids' \subseteq {pidFile'},
           ~raced' /\ ~missed' /\ marker' = apk' => AllFresh'
    PROVE  DaemonInv'
<1>1. /\ job' \in [Threads -> Jobs] /\ starting' = FALSE /\ lock' = NoThread
      /\ \A t \in Threads : job'[t].pc = "idle"
  BY DEF Forget, Idle, Jobs
<1>2. DaemonTypes' /\ UserlandInv'
  BY <1>1 DEF DaemonTypes, UserlandInv
<1>3. FlagInv'
  BY <1>1 DEF FlagInv, Flagged
<1>4. MarkerInv'
  BY <1>1 DEF MarkerInv, Refreshed
<1>5. KnownInv'
  BY <1>1 DEF KnownInv
<1>6. FreshInv'
  BY <1>1 DEF FreshInv
<1> QED
  BY <1>2, <1>3, <1>4, <1>5, <1>6 DEF DaemonInv

LEMMA AppGoneInv ==
    ASSUME DaemonInv, AppDies \/ Update \/ \E t \in Threads : ExtractKills(t)
    PROVE  DaemonInv'
<1>1. /\ Forget /\ UNCHANGED <<procs, marker>> /\ DaemonTypes
      /\ missed' = (missed \/ \E t \in Threads : Overdue(t))
      /\ raced' = (raced \/ \E t \in Threads : job[t].pc = "record")
  BY DEF AppDies, Update, ExtractKills, AppGone, DaemonInv, At, Pending, Overdue
<1>2. LivePids' = LivePids
  BY <1>1 DEF LivePids, procs
<1>3. /\ proc' \in [Pids -> Procs] /\ pidFile' \in Pids \cup {NoPid}
      /\ marker' \in Versions \cup {NoVersion}
      /\ missed' \in BOOLEAN /\ raced' \in BOOLEAN
      /\ ~raced' => LivePids' \subseteq {pidFile'}
  BY <1>1, <1>2 DEF DaemonTypes, procs, DaemonInv, KnownInv
<1>4. /\ apk \in Int /\ marker \in Int /\ marker <= apk
      /\ settled => marker = apk
  BY BoundAssumption DEF DaemonInv, DaemonTypes, Versions, NoVersion, MarkerInv
<1>5. CASE UNCHANGED <<apk, settled>>
  <2>1. ~raced' /\ ~missed' /\ marker' = apk' => AllFresh'
    BY <1>1, <1>2, <1>5 DEF DaemonInv, FreshInv, AllFresh, procs
  <2> QED
    BY <1>1, <1>3, <1>4, <1>5, <2>1, ForgetInv DEF DaemonTypes
<1>6. CASE Update
  <2>1. apk' \in Versions /\ apk' = apk + 1 /\ settled' = FALSE
    BY <1>1, <1>6, BoundAssumption DEF Update, DaemonTypes, Versions
  <2>2. marker' <= apk' /\ marker' # apk'
    BY <1>1, <1>4, <2>1
  <2> QED
    BY <1>1, <1>3, <2>1, <2>2, ForgetInv
<1> QED
  BY <1>5, <1>6 DEF AppDies, ExtractKills

LEMMA RebootInv ==
    ASSUME DaemonInv, Reboot
    PROVE  DaemonInv'
<1>1. /\ Forget /\ UNCHANGED <<pidFile, apk, marker, settled>>
      /\ proc' = [p \in Pids |-> None] /\ missed' = FALSE /\ raced' = FALSE
      /\ DaemonTypes
  BY DEF Reboot, DaemonInv
<1>2. None \in Procs
  BY BoundAssumption DEF None, Procs, Versions
<1>3. LivePids' = {} /\ proc' \in [Pids -> Procs] /\ AllFresh'
  BY <1>1, <1>2 DEF LivePids, AllFresh
<1>4. marker <= apk /\ (settled => marker = apk)
  BY DEF DaemonInv, MarkerInv
<1> QED
  BY <1>1, <1>3, <1>4, ForgetInv DEF DaemonTypes

(* stop kills by the file; a spawn under way is a race.                     *)
LEMMA KillInv ==
    ASSUME DaemonInv, NEW t \in Threads, NEW works \in BOOLEAN, Kill(t, works)
    PROVE  DaemonInv'
<1>1. /\ DaemonTypes /\ raced' \in BOOLEAN /\ (raced => raced')
      /\ UNCHANGED <<pidFile, userland, starting, settled, missed>>
      /\ proc' = Killed(works) /\ Goto(t, "delete") /\ "delete" \in Places
      /\ job[t].pc = "kill"
      /\ Unsafe(t, {"spawn", "record"}) \/ Survives(works) => raced'
  BY DEF Kill, DaemonInv, DaemonTypes, At, Places
<1>2. /\ job' \in [Threads -> Jobs] /\ \A u \in Threads : u # t => job'[u] = job[u]
      /\ job'[t].pc = "delete"
  BY <1>1, GotoEffect
<1>3. /\ proc' \in [Pids -> Procs] /\ LivePids' \subseteq LivePids
      /\ ~Survives(works) => LivePids' = LivePids \ {pidFile}
      /\ \A p \in LivePids' : proc'[p] = proc[p]
  BY <1>1, KilledEffect
<1>4. lock # t
  BY <1>1, NoPidAssumption DEF DaemonInv, UserlandInv, Calls
<1>5. DaemonTypes' /\ FlagInv' /\ UserlandInv' /\ MarkerInv'
  BY <1>1, <1>2, <1>3, <1>4, JobFrame DEF DaemonTypes, Flagged, Refreshed
<1>6. ~raced' => \A u \in Threads : job'[u].pc \notin {"spawn", "record"}
  BY <1>1, <1>2 DEF Unsafe
<1>7. ~raced' => LivePids' = {}
  <2>1. ~raced' => \A u \in Threads : job[u].pc # "record"
    BY <1>1 DEF Unsafe
  <2> QED
    BY <1>1, <1>3, <2>1 DEF DaemonInv, KnownInv
<1>8. KnownInv'
  BY <1>6, <1>7 DEF KnownInv
<1>9. FreshInv'
  BY <1>7 DEF FreshInv, AllFresh
<1> QED
  BY <1>5, <1>8, <1>9 DEF DaemonInv

LEMMA DeleteInv ==
    ASSUME DaemonInv, NEW t \in Threads, Delete(t)
    PROVE  DaemonInv'
<1>1. /\ DaemonTypes /\ job[t].pc = "delete" /\ pidFile' = NoPid
      /\ (Goto(t, "probe") /\ "probe" \in Places) \/ Return(t)
      /\ UNCHANGED <<proc, userland, starting, histories>>
  BY DEF Delete, DaemonInv, At, Places
<1>2. /\ job' \in [Threads -> Jobs] /\ \A u \in Threads : u # t => job'[u] = job[u]
      /\ job'[t].pc \in {"probe", "idle"}
  BY <1>1, GotoEffect, ReturnEffect
<1>3. lock # t
  BY <1>1, NoPidAssumption DEF DaemonInv, UserlandInv, Calls
<1>4. DaemonTypes' /\ FlagInv' /\ UserlandInv' /\ MarkerInv'
  BY <1>1, <1>2, <1>3, JobFrame DEF DaemonTypes, Flagged, Refreshed, histories
<1>5. LivePids' = LivePids
  BY <1>1 DEF LivePids
<1>6. KnownInv' /\ FreshInv'
  <2> SUFFICES ASSUME ~raced' PROVE KnownInv' /\ FreshInv'
    BY DEF KnownInv, FreshInv
  <2>1. LivePids' = {} /\ \A u \in Threads : job'[u].pc \notin {"spawn", "record"}
    BY <1>1, <1>2, <1>5 DEF DaemonInv, KnownInv, histories
  <2> QED
    BY <2>1 DEF KnownInv, FreshInv, AllFresh
<1> QED
  BY <1>4, <1>6 DEF DaemonInv

(* A daemon takes the port or dies: none starts to live, none changes code. *)
LEMMA PhoneInv ==
    ASSUME DaemonInv, NEW p \in Pids, Listen(p) \/ Die(p)
    PROVE  DaemonInv'
<1> USE DEF DaemonInv
<1>1. /\ UNCHANGED <<pidFile, userland, starting, job, histories>>
      /\ proc' \in [Pids -> Procs] /\ LivePids' \subseteq LivePids
      /\ \A q \in LivePids' : proc'[q].code = proc[q].code
  <2>1. CASE Listen(p)
    <3>1. [proc[p] EXCEPT !.state = "up"] \in Procs
      BY DEF DaemonTypes, Procs
    <3>2. proc' = [proc EXCEPT ![p] = [proc[p] EXCEPT !.state = "up"]]
      BY <2>1 DEF Listen
    <3>3. proc[p] # None /\ [proc[p] EXCEPT !.state = "up"].code = proc[p].code
      BY <2>1 DEF Listen, None, DaemonTypes, Procs
    <3> QED
      BY <2>1, <3>1, <3>2, <3>3 DEF Listen, DaemonTypes, LivePids
  <2>2. CASE Die(p)
    <3>1. None \in Procs
      BY BoundAssumption DEF None, Procs, Versions
    <3> QED
      BY <2>2, <3>1 DEF Die, DaemonTypes, LivePids
  <2> QED
    BY <2>1, <2>2
<1> USE DEF userland, histories
<1>2. DaemonTypes' /\ FlagInv' /\ UserlandInv' /\ MarkerInv'
  BY <1>1 DEF DaemonTypes, FlagInv, UserlandInv, MarkerInv
<1>3. KnownInv'
  BY <1>1 DEF KnownInv
<1>4. FreshInv'
  BY <1>1 DEF FreshInv, AllFresh, Overdue
<1> QED
  BY <1>2, <1>3, <1>4

LEMMA DaemonNextInv == DaemonInv /\ [DaemonNext]_daemonVars => DaemonInv'
<1> SUFFICES ASSUME DaemonInv, [DaemonNext]_daemonVars PROVE DaemonInv'
  OBVIOUS
<1>1. ASSUME NEW t \in Threads, Ensure(t) PROVE DaemonInv'
  BY <1>1, EnsureQuietInv, KillStaleInv, RecordInv, SpawnInv DEF Ensure
<1>2. ASSUME NEW t \in Threads, Call(t) PROVE DaemonInv'
  BY <1>2, CachedInv, ExtractInv, ExtractedInv, ExtractFailsInv, AppGoneInv DEF Call
<1>3. ASSUME NEW t \in Threads, Stop(t) PROVE DaemonInv'
  BY <1>3, KillInv, DeleteInv DEF Stop
<1>4. CASE \E t \in Threads, op \in {"service", "restart", "stop", "pty"} : Begin(t, op)
  BY <1>4, BeginInv
<1>5. CASE \E p \in Pids : Listen(p) \/ Die(p)
  BY <1>5, PhoneInv
<1>6. CASE AppDies \/ Update \/ Reboot
  BY <1>6, AppGoneInv, RebootInv
<1>7. CASE UNCHANGED daemonVars
  <2> USE <1>7 DEF daemonVars, procs, userland, histories
  <2>1. DaemonTypes' /\ FlagInv' /\ UserlandInv' /\ MarkerInv'
    BY DEF DaemonInv, DaemonTypes, FlagInv, UserlandInv, MarkerInv
  <2>2. LivePids' = LivePids /\ (AllFresh' <=> AllFresh)
    BY DEF LivePids, AllFresh
  <2>3. KnownInv' /\ FreshInv'
    BY <2>2 DEF DaemonInv, KnownInv, FreshInv, Overdue
  <2> QED
    BY <2>1, <2>3 DEF DaemonInv
<1> QED
  BY <1>1, <1>2, <1>3, <1>4, <1>5, <1>6, <1>7 DEF DaemonNext, Step

(* What the threads have of the userland and the file tells what lives.     *)
THEOREM DaemonInvariance == DaemonSpec => []DaemonInv
<1> QED
  BY DaemonInitInv, DaemonNextInv, PTL DEF DaemonSpec

(* starting is set exactly while one thread is between its two sides, and   *)
(* the userland has a version unless it is being made.                      *)
THEOREM DaemonTypeCorrect == DaemonSpec => []DaemonTypeOK
<1> QED
  BY DaemonInvariance, DaemonInvType, PTL

(* No start, stop, death or update leaves a daemon that stop cannot find,   *)
(* but where a stop overlapped a spawn, a pid was lost, or a kill failed    *)
(* before its file was given up.                                            *)
THEOREM DaemonsKnown == DaemonSpec => []DaemonKnown
<1>1. DaemonInv => DaemonKnown
  <2> SUFFICES ASSUME DaemonInv, ~raced, NEW p \in LivePids, pidFile # p
               PROVE  \E t \in Threads : At(t, "record") /\ job[t].pid = p
    BY DEF DaemonKnown
  <2>1. PICK t \in Threads : job[t].pc = "record"
    BY DEF DaemonInv, KnownInv
  <2> QED
    BY <2>1 DEF DaemonInv, KnownInv, At
<1> QED
  BY <1>1, DaemonInvariance, PTL

(* What answers after an ensure runs the installed version, where ensure    *)
(* itself refreshed the userland and its kill of the old one worked.        *)
THEOREM DaemonsFresh == DaemonSpec => []FreshUnlessMissed
<1>1. DaemonInv => FreshUnlessMissed
  <2> SUFFICES ASSUME DaemonInv, settled, ~missed, ~raced,
                      \A t \in Threads : ~Pending(t)
               PROVE  Fresh
    BY DEF FreshUnlessMissed
  <2>1. AllFresh
    BY DEF DaemonInv, FreshInv, MarkerInv, Overdue, Pending, At
  <2>2. \A p \in Pids : proc[p].state = "up" => p \in LivePids
    BY DEF LivePids, None
  <2> QED
    BY <2>1, <2>2 DEF Fresh, AllFresh
<1> QED
  BY <1>1, DaemonInvariance, PTL
====
