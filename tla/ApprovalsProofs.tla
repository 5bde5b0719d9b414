------------------------- MODULE ApprovalsProofs -------------------------
(* Proofs about Approvals, for every set of threads, agents, connections,   *)
(* labels and cards.                                                        *)
EXTENDS Approvals, FiniteSetTheorems, TLAPS

(* The inductive invariant. A turn has a card exactly from asking to waking *)
(* or unwinding, no two turns share one, and a thread has at most one entry *)
(* in the table: its turn's, undecided, filed under an id of the thread.    *)
CardInv == \A t \in Threads :
    /\ loop[t] \in {"out", "calling"} => card[t] = NoCard
    /\ loop[t] = "waiting" => card[t] \in Cards
    /\ card[t] \in Cards => future[card[t]] # "free"
OwnCard == \A t, u \in Threads : card[t] = card[u] /\ card[t] \in Cards => t = u
EntryInv == \A p \in pending :
    /\ p.fid[1] = p.thread
    /\ card[p.thread] = p.card /\ loop[p.thread] \in {"waiting", "cancelling"}
    /\ future[p.card] \in {"open", "cancelled"}
    /\ p.label \notin policy[p.thread]
OneEntry == \A p, q \in pending : p.thread = q.thread => p = q

(* An own "always" is in the agent's section, and in the policy of every    *)
(* loop that began after it.                                                *)
GrantInv == \A t \in Threads, l \in Labels :
    /\ <<t, l, "own">> \in always => <<TurnAgent[t], t, l>> \in grants
    /\ <<l, "own">> \in promised[t] => l \in policy[t]

IInv == /\ TypeOK /\ IsFiniteSet(pending)
        /\ CardInv /\ OwnCard /\ EntryInv /\ OneEntry /\ GrantInv
        /\ NoOrphanWait /\ EveryClientSeesCard

LEMMA InitIInv == Init => IInv
<1> SUFFICES ASSUME Init PROVE IInv
    OBVIOUS
<1>1. IsFiniteSet(pending)
  BY FS_EmptySet DEF Init
<1>2. TypeOK
  BY DEF Init, TypeOK
<1>3. CardInv /\ OwnCard
  BY CardsAssumption DEF Init, CardInv, OwnCard
<1> QED
  BY <1>1, <1>2, <1>3 DEF Init, IInv, EntryInv, OneEntry, GrantInv, NoOrphanWait,
                          EveryClientSeesCard, Open
----
(* What the operators on futures and entries keep.                          *)
LEMMA EntryType ==
    ASSUME TypeOK, NEW p \in pending
    PROVE  /\ p \in Entries
           /\ p.fid \in Fids /\ p.thread \in Threads
           /\ p.card \in Cards /\ p.label \in Labels
  BY DEF TypeOK, Entries

LEMMA SweptType ==
    ASSUME NEW f \in [Cards -> {"free", "open", "granted", "denied", "cancelled"}]
    PROVE  /\ Swept(f) \in [Cards -> {"free", "open", "granted", "denied", "cancelled"}]
           /\ \A c \in Cards : \/ Swept(f)[c] = f[c]
                               \/ f[c] = "open" /\ Swept(f)[c] = "denied"
           /\ \A p \in Overdue : p.card \in Cards => Swept(f)[p.card] # "open"
  BY DEF Swept

LEMMA CancelledType ==
    ASSUME NEW f \in [Cards -> {"free", "open", "granted", "denied", "cancelled"}],
           NEW ts \in SUBSET Threads
    PROVE  /\ Cancelled(f, ts) \in [Cards -> {"free", "open", "granted", "denied", "cancelled"}]
           /\ \A c \in Cards :
                \/ Cancelled(f, ts)[c] = f[c]
                \/ /\ f[c] = "open" /\ Cancelled(f, ts)[c] = "cancelled"
                   /\ \E t \in ts : card[t] = c
  BY DEF Cancelled

LEMMA FreeType ==
    ASSUME TypeOK, NEW t \in Threads
    PROVE  /\ Free(future, card[t]) \in
                [Cards -> {"free", "open", "granted", "denied", "cancelled"}]
           /\ \A c \in Cards : c # card[t] => Free(future, card[t])[c] = future[c]
  BY DEF Free, TypeOK

LEMMA FiledType ==
    ASSUME TypeOK, NEW ps
    PROVE  Filed(shown, ps) \in SUBSET (Socks \X Cards)
  BY DEF Filed, TypeOK

LEMMA CancelTurnsType ==
    ASSUME TypeOK, NEW ts \in SUBSET Threads, CancelTurns(ts)
    PROVE  /\ loop' \in [Threads -> {"out", "calling", "waiting", "cancelling"}]
           /\ \A t \in Threads :
                loop'[t] = loop[t] \/ (loop[t] # "out" /\ loop'[t] = "cancelling")
  BY DEF CancelTurns, TypeOK

(* A filed card that is open belongs to the turn of its entry alone, and    *)
(* stays in shown while its entry stays filed.                              *)
LEMMA FiledKeeps ==
    ASSUME NEW ps, NEW p \in ps, NEW s, <<s, p.card>> \in shown
    PROVE  <<s, p.card>> \in Filed(shown, ps)
  BY DEF Filed
----
(* Type correctness, one step per action.                                   *)
LEMMA ApproveType ==
    ASSUME TypeOK, NEW p \in pending, NEW decision \in {"granted", "denied"},
           NEW scope, NEW section \in Agents \cup {NoAgent}, NEW by \in {"own", "other"},
           Approve(p, decision, scope, section, by), UNCHANGED conn
    PROVE  TypeOK'
<1>1. p.card \in Cards /\ p.thread \in Threads /\ p.label \in Labels
  BY EntryType
<1>2. shown' \in SUBSET (Socks \X Cards)
  BY FiledType DEF Approve
<1>3. future' \in [Cards -> {"free", "open", "granted", "denied", "cancelled"}]
  BY <1>1 DEF Approve, TypeOK
<1>4. /\ grants' \in SUBSET ((Agents \cup {NoAgent}) \X Threads \X Labels)
      /\ always' \in SUBSET (Threads \X Labels \X {"own", "other"})
  BY <1>1 DEF Approve, TypeOK
<1> QED
  BY <1>2, <1>3, <1>4 DEF Approve, TypeOK

LEMMA LoopStepType ==
    ASSUME TypeOK, IsFiniteSet(pending), NEW t \in Threads, LoopStep(t)
    PROVE  TypeOK'
<1> USE DEF manager, history
<1>1. ASSUME NEW s \in Socks, BeginLoop(t, s) PROVE TypeOK'
  <2>1. GrantsOf(t, s) \in SUBSET Labels
    BY DEF GrantsOf
  <2> QED
    BY <1>1, <2>1 DEF BeginLoop, TypeOK
<1>2. CASE EndLoop(t)
  BY <1>2 DEF EndLoop, TypeOK
<1>3. CASE Resume(t)
  BY <1>3, FreeType DEF Resume, TypeOK
<1>4. CASE Unwind(t)
  BY <1>4, FreeType, FiledType DEF Unwind, TypeOK
<1>5. ASSUME NEW l \in Labels, NEW c \in Cards, Ask(t, l, c) PROVE TypeOK'
  <2> DEFINE entry == [fid |-> NextFid(t), thread |-> t, card |-> c, label |-> l]
  <2>1. NextFid(t) \in Fids
    BY FS_CardinalityType DEF NextFid, Fids
  <2>2. entry \in Entries
    BY <2>1 DEF Entries
  <2>3. pending' \in SUBSET Entries
    BY <1>5, <2>2 DEF Ask, TypeOK
  <2>4. shown' \in SUBSET (Socks \X Cards)
    BY <1>5, FiledType DEF Ask, Open
  <2>5. future' \in [Cards -> {"free", "open", "granted", "denied", "cancelled"}]
    BY <1>5, SweptType DEF Ask, TypeOK
  <2> QED
    BY <1>5, <2>3, <2>4, <2>5 DEF Ask, TypeOK
<1> QED
  BY <1>1, <1>2, <1>3, <1>4, <1>5 DEF LoopStep

LEMMA ClientStepType ==
    ASSUME TypeOK, ClientStep \/ Time
    PROVE  TypeOK'
<1> USE AgentsAssumption
<1>1. ASSUME NEW t \in Threads, Cancel(t) PROVE TypeOK'
  BY <1>1, CancelTurnsType, CancelledType DEF Cancel, TypeOK, history
<1>2. ASSUME NEW t \in Threads, Replace(t) PROVE TypeOK'
  BY <1>2, CancelTurnsType, CancelledType, FiledType DEF Replace, TypeOK, history
<1>3. ASSUME NEW s \in Socks, NEW p \in pending, NEW decision \in {"granted", "denied"},
             NEW scope \in {"turn", "session"},
             Answer(s, p, decision, scope) \/ AnswerMethodless(s, p, decision, scope)
      PROVE  TypeOK'
  BY <1>3, ApproveType DEF Answer, AnswerMethodless, Approve
<1>4. ASSUME NEW s \in Socks, Connect(s) PROVE TypeOK'
  <2>1. Resent(s, pending') \in SUBSET (Socks \X Cards)
    BY <1>4, EntryType DEF Connect, Resent
  <2> QED
    BY <1>4, <2>1, SweptType, FiledType DEF Connect, TypeOK, history
<1>5. ASSUME NEW s \in Socks, Disconnect(s) PROVE TypeOK'
  <2> DEFINE ts == {t \in Threads : TurnAgent[t] = SocketAgent[s] /\ TurnAgent[t] # Owner}
  <2>1. loop' \in [Threads -> {"out", "calling", "waiting", "cancelling"}]
    BY <1>5, CancelTurnsType DEF Disconnect
  <2>2. future' \in [Cards -> {"free", "open", "granted", "denied", "cancelled"}]
    BY <1>5, SweptType, CancelledType DEF Disconnect, TypeOK
  <2> QED
    BY <1>5, <2>1, <2>2, FiledType DEF Disconnect, TypeOK, history
<1>6. ASSUME NEW p \in pending, Expire(p) PROVE TypeOK'
  BY <1>6, EntryType DEF Expire, TypeOK, history
<1> QED
  BY <1>1, <1>2, <1>3, <1>4, <1>5, <1>6 DEF ClientStep, Time
----
(* Steps that file no card and start no wait: they only decide or cancel    *)
(* open futures, cancel turns and take entries away.                        *)
LEMMA ShrinkStep ==
    ASSUME IInv, TypeOK', pending' \subseteq pending, card' = card, policy' = policy,
           \A t \in Threads :
              loop'[t] = loop[t] \/ (loop[t] # "out" /\ loop'[t] = "cancelling"),
           \A c \in Cards :
              \/ future'[c] = future[c]
              \/ future[c] = "open" /\ future'[c] \in {"granted", "denied", "cancelled"},
           \A t \in Threads : loop'[t] = "waiting" => future'[card[t]] # "cancelled",
           \A p \in pending' : future'[p.card] \in {"open", "cancelled"},
           \A p \in pending \ pending' :
              loop'[p.thread] = "waiting" => future'[p.card] # "open",
           \A s \in Open', p \in pending' :
              (s \in Open => <<s, p.card>> \in shown) => <<s, p.card>> \in shown',
           GrantInv'
    PROVE  IInv'
<1>1. IsFiniteSet(pending')
  BY FS_Subset DEF IInv
<1>2. CardInv'
  <2> SUFFICES ASSUME NEW t \in Threads
               PROVE  /\ loop'[t] \in {"out", "calling"} => card'[t] = NoCard
                      /\ loop'[t] = "waiting" => card'[t] \in Cards
                      /\ card'[t] \in Cards => future'[card'[t]] # "free"
    BY DEF CardInv
  <2> QED
    BY DEF IInv, CardInv
<1>3. OwnCard'
  BY DEF IInv, OwnCard
<1>4. EntryInv'
  <2> SUFFICES ASSUME NEW p \in pending'
               PROVE  /\ p.fid[1] = p.thread
                      /\ card'[p.thread] = p.card
                      /\ loop'[p.thread] \in {"waiting", "cancelling"}
                      /\ future'[p.card] \in {"open", "cancelled"}
                      /\ p.label \notin policy'[p.thread]
    BY DEF EntryInv
  <2>1. p \in pending /\ p.thread \in Threads
    BY EntryType DEF IInv
  <2> QED
    BY <2>1 DEF IInv, EntryInv
<1>5. OneEntry'
  BY DEF IInv, OneEntry
<1>6. NoOrphanWait'
  <2> SUFFICES ASSUME NEW t \in Threads, loop'[t] = "waiting"
               PROVE  \/ future'[card[t]] \in {"granted", "denied"}
                      \/ /\ future'[card[t]] = "open"
                         /\ \E p \in pending' : p.card = card[t] /\ p.thread = t
    BY DEF NoOrphanWait
  <2>1. loop[t] = "waiting" /\ card[t] \in Cards
    BY DEF IInv, CardInv
  <2>2. CASE future[card[t]] \in {"granted", "denied"}
    BY <2>1, <2>2
  <2>3. CASE /\ future[card[t]] = "open"
             /\ \E p \in pending : p.card = card[t] /\ p.thread = t
    <3>1. PICK p \in pending : p.card = card[t] /\ p.thread = t
      BY <2>3
    <3> QED
      BY <2>1, <2>3, <3>1
  <2> QED
    BY <2>1, <2>2, <2>3 DEF IInv, NoOrphanWait
<1>7. EveryClientSeesCard'
  <2> SUFFICES ASSUME NEW s \in Open', NEW p \in pending', future'[p.card] = "open"
               PROVE  <<s, p.card>> \in shown'
    BY DEF EveryClientSeesCard
  <2>1. p \in pending /\ p.card \in Cards
    BY EntryType DEF IInv
  <2>2. future[p.card] = "open"
    BY <2>1
  <2> QED
    BY <2>1, <2>2 DEF IInv, EveryClientSeesCard
<1> QED
  BY <1>1, <1>2, <1>3, <1>4, <1>5, <1>6, <1>7 DEF IInv

LEMMA OneEntryPerCard ==
    ASSUME IInv, NEW p \in pending, NEW q \in pending, p.card = q.card
    PROVE  p = q
<1>1. p.thread \in Threads /\ q.thread \in Threads /\ p.card \in Cards
  BY EntryType DEF IInv
<1> QED
  BY <1>1 DEF IInv, EntryInv, OwnCard, OneEntry

LEMMA WaitingNotCancelled ==
    ASSUME IInv, NEW t \in Threads, loop[t] = "waiting"
    PROVE  future[card[t]] \in {"open", "granted", "denied"}
  BY DEF IInv, NoOrphanWait

(* A turn that a cancellation leaves waiting keeps its future.              *)
LEMMA StillWaiting ==
    ASSUME IInv, NEW ts \in SUBSET Threads, CancelTurns(ts),
           NEW f \in [Cards -> {"free", "open", "granted", "denied", "cancelled"}],
           NEW t \in Threads, loop'[t] = "waiting"
    PROVE  /\ t \notin ts /\ loop[t] = "waiting" /\ card[t] \in Cards
           /\ Cancelled(f, ts)[card[t]] = f[card[t]]
<1>1. t \notin ts /\ loop[t] = "waiting"
  BY DEF CancelTurns, IInv, TypeOK
<1>2. card[t] \in Cards
  BY <1>1 DEF IInv, CardInv
<1>3. \A u \in ts : card[u] # card[t]
  BY <1>1, <1>2 DEF IInv, OwnCard
<1> QED
  BY <1>1, <1>2, <1>3, CancelledType

(* A card that a sweep leaves in the table keeps its future.                *)
LEMMA SweptKeeps ==
    ASSUME IInv, NEW q \in pending \ Overdue
    PROVE  Swept(future)[q.card] = future[q.card]
<1>1. q.card \in Cards
  BY EntryType DEF IInv
<1>2. \A p \in Overdue : p.card # q.card
  BY OneEntryPerCard DEF Overdue
<1> QED
  BY <1>1, <1>2 DEF Swept

LEMMA ApproveStep ==
    ASSUME IInv, TypeOK', NEW p \in pending, NEW decision \in {"granted", "denied"},
           NEW scope, NEW section, NEW by, by = "own" => section = TurnAgent[p.thread],
           Approve(p, decision, scope, section, by)
    PROVE  IInv'
<1>1. p.card \in Cards /\ p.thread \in Threads
  BY EntryType DEF IInv
<1>2. \A c \in Cards :
         \/ future'[c] = future[c]
         \/ future[c] = "open" /\ future'[c] \in {"granted", "denied"}
  BY <1>1 DEF Approve, IInv, TypeOK
<1>3. \A t \in Threads : loop'[t] = "waiting" => future'[card[t]] # "cancelled"
  <2> SUFFICES ASSUME NEW t \in Threads, loop'[t] = "waiting"
               PROVE  future'[card[t]] # "cancelled"
    OBVIOUS
  <2>1. card[t] \in Cards /\ future[card[t]] \in {"open", "granted", "denied"}
    BY WaitingNotCancelled DEF Approve, IInv, CardInv
  <2> QED
    BY <1>2, <2>1
<1>4. \A q \in pending' : future'[q.card] \in {"open", "cancelled"}
  <2> SUFFICES ASSUME NEW q \in pending' PROVE future'[q.card] = future[q.card]
    BY DEF Approve, IInv, EntryInv
  <2>1. q \in pending /\ q # p
    BY DEF Approve
  <2>2. q.card # p.card
    BY <2>1, OneEntryPerCard
  <2> QED
    BY <1>1, <2>1, <2>2, EntryType DEF Approve, IInv, TypeOK
<1>5. \A q \in pending \ pending' :
         loop'[q.thread] = "waiting" => future'[q.card] # "open"
  BY <1>1 DEF Approve, IInv, TypeOK
<1>6. \A s \in Open', q \in pending' :
         (s \in Open => <<s, q.card>> \in shown) => <<s, q.card>> \in shown'
  BY FiledKeeps DEF Approve, Open
<1>7. GrantInv'
  <2> SUFFICES ASSUME NEW t \in Threads, NEW l \in Labels
               PROVE  /\ <<t, l, "own">> \in always' => <<TurnAgent[t], t, l>> \in grants'
                      /\ <<l, "own">> \in promised'[t] => l \in policy'[t]
    BY DEF GrantInv
  <2>1. CASE UNCHANGED <<grants, always>>
    BY <2>1 DEF Approve, IInv, GrantInv
  <2>2. CASE /\ grants' = grants \cup {<<section, p.thread, p.label>>}
             /\ always' = always \cup {<<p.thread, p.label, by>>}
    BY <2>2 DEF Approve, IInv, GrantInv
  <2> QED
    BY <2>1, <2>2 DEF Approve
<1> QED
  BY <1>2, <1>3, <1>4, <1>5, <1>6, <1>7, ShrinkStep DEF Approve

(* One step per client action, and the deadlines.                           *)
LEMMA ClientStepInv ==
    ASSUME IInv, TypeOK', ClientStep \/ Time
    PROVE  IInv'
<1> USE DEF history
<1>g. UNCHANGED <<grants, always, promised, policy>> => GrantInv'
  BY DEF IInv, GrantInv
<1>f. TypeOK
  BY DEF IInv
<1>1. ASSUME NEW t \in Threads, Cancel(t) PROVE IInv'
  <2>1. \A u \in Threads : loop'[u] = "waiting" => u # t
    BY <1>1, <1>f, StillWaiting DEF Cancel, TypeOK
  <2>2. \A u \in Threads : loop'[u] = "waiting" => future'[card[u]] # "cancelled"
    BY <1>1, <1>f, StillWaiting, WaitingNotCancelled DEF Cancel, TypeOK
  <2>3. \A c \in Cards :
           \/ future'[c] = future[c]
           \/ future[c] = "open" /\ future'[c] \in {"granted", "denied", "cancelled"}
    BY <1>1, <1>f, CancelledType DEF Cancel, TypeOK
  <2>4. \A q \in pending' : future'[q.card] \in {"open", "cancelled"}
    BY <1>1, <1>f, EntryType, CancelledType DEF Cancel, TypeOK, IInv, EntryInv
  <2>5. \A s \in Open', q \in pending' :
           (s \in Open => <<s, q.card>> \in shown) => <<s, q.card>> \in shown'
    BY <1>1 DEF Cancel, Open
  <2>6. \A u \in Threads :
           loop'[u] = loop[u] \/ (loop[u] # "out" /\ loop'[u] = "cancelling")
    BY <1>1, <1>f, CancelTurnsType DEF Cancel
  <2> QED
    BY <1>1, <1>g, <2>2, <2>3, <2>4, <2>5, <2>6, ShrinkStep DEF Cancel
<1>2. ASSUME NEW t \in Threads, Replace(t) PROVE IInv'
  <2>1. \A u \in Threads : loop'[u] = "waiting" => u # t
    BY <1>2, <1>f, StillWaiting DEF Replace, TypeOK
  <2>2. \A u \in Threads : loop'[u] = "waiting" => future'[card[u]] # "cancelled"
    BY <1>2, <1>f, StillWaiting, WaitingNotCancelled DEF Replace, TypeOK
  <2>3. \A c \in Cards :
           \/ future'[c] = future[c]
           \/ future[c] = "open" /\ future'[c] \in {"granted", "denied", "cancelled"}
    BY <1>2, <1>f, CancelledType DEF Replace, TypeOK
  <2>4. \A q \in pending' : future'[q.card] \in {"open", "cancelled"}
    BY <1>2, <1>f, EntryType, CancelledType DEF Replace, TypeOK, IInv, EntryInv
  <2>5. \A s \in Open', q \in pending' :
           (s \in Open => <<s, q.card>> \in shown) => <<s, q.card>> \in shown'
    BY <1>2, FiledKeeps DEF Replace, Open
  <2>6. \A u \in Threads :
           loop'[u] = loop[u] \/ (loop[u] # "out" /\ loop'[u] = "cancelling")
    BY <1>2, <1>f, CancelTurnsType DEF Replace
  <2>7. \A p \in pending \ pending' : loop'[p.thread] # "waiting"
    BY <1>2, <1>f, <2>1, EntryType DEF Replace, EntriesOf
  <2> QED
    BY <1>2, <1>g, <2>2, <2>3, <2>4, <2>5, <2>6, <2>7, ShrinkStep DEF Replace
<1>3. ASSUME NEW s \in Socks, NEW p \in pending, NEW decision \in {"granted", "denied"},
             NEW scope \in {"turn", "session"},
             Answer(s, p, decision, scope) \/ AnswerMethodless(s, p, decision, scope)
      PROVE  IInv'
  BY <1>3, ApproveStep DEF Answer, AnswerMethodless
<1>4. ASSUME NEW s \in Socks, Connect(s) PROVE IInv'
  <2>1. \A c \in Cards :
           \/ future'[c] = future[c]
           \/ future[c] = "open" /\ future'[c] = "denied"
    BY <1>4, <1>f, SweptType DEF Connect, TypeOK
  <2>2. \A t \in Threads : loop'[t] = "waiting" => future'[card[t]] # "cancelled"
    BY <1>4, <2>1, WaitingNotCancelled DEF Connect, IInv, CardInv
  <2>3. \A q \in pending' : future'[q.card] \in {"open", "cancelled"}
    BY <1>4, <1>f, SweptKeeps DEF Connect, IInv, EntryInv
  <2>4. \A q \in pending \ pending' : future'[q.card] # "open"
    BY <1>4, <1>f, SweptType, EntryType DEF Connect, TypeOK, Overdue
  <2>5. \A u \in Open', q \in pending' :
           (u \in Open => <<u, q.card>> \in shown) => <<u, q.card>> \in shown'
    <3>1. Open' \subseteq Open \cup {s}
      BY <1>4, <1>f DEF Connect, Open, TypeOK
    <3> QED
      BY <1>4, <3>1, FiledKeeps DEF Connect, Resent
  <2> QED
    BY <1>4, <1>g, <2>1, <2>2, <2>3, <2>4, <2>5, ShrinkStep DEF Connect
<1>5. ASSUME NEW s \in Socks, Disconnect(s) PROVE IInv'
  <2> DEFINE ts == {t \in Threads : TurnAgent[t] = SocketAgent[s] /\ TurnAgent[t] # Owner}
  <2>1. /\ Swept(future) \in [Cards -> {"free", "open", "granted", "denied", "cancelled"}]
        /\ CancelTurns(ts) /\ future' = Cancelled(Swept(future), ts)
    BY <1>5, <1>f, SweptType DEF Disconnect, TypeOK
  <2>2. \A c \in Cards :
           \/ future'[c] = future[c]
           \/ future[c] = "open" /\ future'[c] \in {"granted", "denied", "cancelled"}
    BY <2>1, <1>f, SweptType, CancelledType DEF TypeOK
  <2>3. \A t \in Threads : loop'[t] = "waiting" => future'[card[t]] # "cancelled"
    <3> SUFFICES ASSUME NEW t \in Threads, loop'[t] = "waiting"
                 PROVE  future'[card[t]] # "cancelled"
      OBVIOUS
    <3>1. /\ loop[t] = "waiting" /\ card[t] \in Cards
          /\ future'[card[t]] = Swept(future)[card[t]]
      BY <2>1, StillWaiting
    <3> QED
      BY <1>f, <3>1, SweptType, WaitingNotCancelled DEF TypeOK
  <2>4. \A q \in pending' : future'[q.card] \in {"open", "cancelled"}
    <3> SUFFICES ASSUME NEW q \in pending'
                 PROVE  future'[q.card] \in {"open", "cancelled"}
      OBVIOUS
    <3>1. /\ q.card \in Cards /\ future[q.card] \in {"open", "cancelled"}
          /\ Swept(future)[q.card] = future[q.card]
      BY <1>5, <1>f, SweptKeeps, EntryType DEF Disconnect, IInv, EntryInv
    <3> QED
      BY <2>1, <3>1, CancelledType
  <2>5. \A q \in pending \ pending' : future'[q.card] # "open"
    <3> SUFFICES ASSUME NEW q \in pending \ pending'
                 PROVE  future'[q.card] # "open"
      OBVIOUS
    <3>1. q.card \in Cards /\ Swept(future)[q.card] # "open"
      BY <1>5, <1>f, SweptType, EntryType DEF Disconnect, TypeOK, Overdue
    <3> QED
      BY <2>1, <3>1, CancelledType
  <2>6. \A u \in Open', q \in pending' :
           (u \in Open => <<u, q.card>> \in shown) => <<u, q.card>> \in shown'
    <3>1. Open' \subseteq Open \ {s}
      BY <1>5, <1>f DEF Disconnect, Open, TypeOK
    <3> QED
      BY <1>5, <3>1, FiledKeeps DEF Disconnect
  <2>7. \A t \in Threads :
           loop'[t] = loop[t] \/ (loop[t] # "out" /\ loop'[t] = "cancelling")
    BY <1>f, <2>1, CancelTurnsType
  <2> QED
    BY <1>5, <1>g, <2>2, <2>3, <2>4, <2>5, <2>6, <2>7, ShrinkStep DEF Disconnect
<1>6. ASSUME NEW p \in pending, Expire(p) PROVE IInv'
  <2>1. \A t \in Threads : loop'[t] = "waiting" => future'[card[t]] # "cancelled"
    BY <1>6, WaitingNotCancelled DEF Expire
  <2>2. \A q \in pending' : future'[q.card] \in {"open", "cancelled"}
    BY <1>6 DEF Expire, IInv, EntryInv
  <2> QED
    BY <1>6, <1>g, <2>1, <2>2, ShrinkStep DEF Expire, Open
<1> QED
  BY <1>1, <1>2, <1>3, <1>4, <1>5, <1>6 DEF ClientStep, Time
----
(* The steps of the loop. A turn that comes to its tool calls has no entry, *)
(* and its policy covers what its agent was promised.                       *)
LEMMA BeginLoopStep ==
    ASSUME IInv, TypeOK', NEW t \in Threads, NEW s \in Socks, BeginLoop(t, s)
    PROVE  IInv'
<1> USE DEF manager
<1>f. TypeOK /\ policy' = [policy EXCEPT ![t] = GrantsOf(t, s)]
  BY DEF IInv, BeginLoop
<1>1. /\ loop' = [loop EXCEPT ![t] = "calling"]
      /\ loop[t] = "out" /\ card[t] = NoCard
  BY DEF BeginLoop, IInv, CardInv
<1>2. \A p \in pending : p.thread # t /\ p.thread \in Threads
  BY <1>1, EntryType DEF IInv, EntryInv
<1>3. CardInv' /\ OwnCard' /\ OneEntry' /\ IsFiniteSet(pending')
  BY <1>1, <1>f, CardsAssumption DEF BeginLoop, IInv, CardInv, OwnCard, OneEntry, TypeOK
<1>4. EntryInv'
  BY <1>1, <1>2, <1>f DEF BeginLoop, IInv, EntryInv, TypeOK
<1>5. GrantInv'
  <2> SUFFICES ASSUME NEW u \in Threads, NEW l \in Labels
               PROVE  /\ <<u, l, "own">> \in always => <<TurnAgent[u], u, l>> \in grants
                      /\ <<l, "own">> \in promised'[u] => l \in policy'[u]
    BY DEF GrantInv, BeginLoop
  <2>1. CASE u # t
    BY <1>f, <2>1 DEF BeginLoop, IInv, GrantInv, TypeOK
  <2>2. CASE u = t
    <3>1. <<l, "own">> \in promised'[u] => s \in Open /\ <<u, l, "own">> \in always
      BY <1>f, <2>2 DEF BeginLoop, TypeOK
    <3>2. policy'[u] = {k \in Labels : s \in Open /\ <<TurnAgent[t], t, k>> \in grants}
      BY <1>f, <2>2 DEF GrantsOf, TypeOK
    <3> QED
      BY <2>2, <3>1, <3>2 DEF IInv, GrantInv
  <2> QED
    BY <2>1, <2>2
<1>6. NoOrphanWait'
  BY <1>1, <1>f DEF BeginLoop, IInv, NoOrphanWait, TypeOK
<1>7. EveryClientSeesCard'
  BY DEF BeginLoop, IInv, EveryClientSeesCard, Open
<1> QED
  BY <1>3, <1>4, <1>5, <1>6, <1>7 DEF IInv

LEMMA EndLoopStep ==
    ASSUME IInv, TypeOK', NEW t \in Threads, EndLoop(t)
    PROVE  IInv'
<1> USE DEF manager, history
<1>f. TypeOK
  BY DEF IInv
<1>1. /\ loop' = [loop EXCEPT ![t] = "out"]
      /\ loop[t] = "calling" /\ card[t] = NoCard
  BY DEF EndLoop, IInv, CardInv
<1>2. \A p \in pending : p.thread # t /\ p.thread \in Threads
  BY <1>1, EntryType DEF IInv, EntryInv
<1>3. CardInv' /\ OwnCard' /\ OneEntry' /\ IsFiniteSet(pending') /\ GrantInv'
  BY <1>1, <1>f, CardsAssumption
     DEF EndLoop, IInv, CardInv, OwnCard, OneEntry, GrantInv, TypeOK
<1>4. EntryInv'
  BY <1>1, <1>2, <1>f DEF EndLoop, IInv, EntryInv, TypeOK
<1>6. NoOrphanWait'
  BY <1>1, <1>f DEF EndLoop, IInv, NoOrphanWait, TypeOK
<1>7. EveryClientSeesCard'
  BY DEF EndLoop, IInv, EveryClientSeesCard, Open
<1> QED
  BY <1>3, <1>4, <1>6, <1>7 DEF IInv

(* The end of a wait, by waking or unwinding: the thread has no entry left, *)
(* and its card, which no other turn has, is free again.                    *)
LEMMA LeaveStep ==
    ASSUME IInv, TypeOK', NEW t \in Threads, NEW where \in {"calling", "out"},
           loop' = [loop EXCEPT ![t] = where], card' = [card EXCEPT ![t] = NoCard],
           future' = Free(future, card[t]),
           pending' \subseteq pending, EntriesOf(t)' = {},
           \A p \in pending \ pending' : p.thread = t,
           policy' = policy, GrantInv', conn' = conn,
           \A s \in Socks, p \in pending' :
              <<s, p.card>> \in shown => <<s, p.card>> \in shown'
    PROVE  IInv'
<1>f. TypeOK
  BY DEF IInv
<1>1. \A u \in Threads \ {t} : /\ loop'[u] = loop[u] /\ card'[u] = card[u]
                               /\ card[u] \in Cards => future'[card[u]] = future[card[u]]
  BY <1>f, FreeType DEF IInv, OwnCard, TypeOK
<1>2. loop'[t] = where /\ card'[t] = NoCard
  BY <1>f DEF TypeOK
<1>3. \A p \in pending' : p \in pending /\ p.thread \in Threads \ {t}
  BY <1>f, EntryType DEF EntriesOf
<1>4. CardInv' /\ OwnCard'
  BY <1>1, <1>2, CardsAssumption DEF IInv, CardInv, OwnCard
<1>5. EntryInv'
  <2> SUFFICES ASSUME NEW p \in pending'
               PROVE  /\ p.fid[1] = p.thread
                      /\ card'[p.thread] = p.card
                      /\ loop'[p.thread] \in {"waiting", "cancelling"}
                      /\ future'[p.card] \in {"open", "cancelled"}
                      /\ p.label \notin policy[p.thread]
    BY DEF EntryInv
  <2>1. p \in pending /\ p.thread \in Threads \ {t} /\ p.card \in Cards
    BY <1>3, <1>f, EntryType
  <2> QED
    BY <1>1, <2>1 DEF IInv, EntryInv
<1>6. OneEntry' /\ IsFiniteSet(pending')
  BY FS_Subset DEF IInv, OneEntry
<1>7. NoOrphanWait'
  <2> SUFFICES ASSUME NEW u \in Threads, loop'[u] = "waiting"
               PROVE  \/ future'[card'[u]] \in {"granted", "denied"}
                      \/ /\ future'[card'[u]] = "open"
                         /\ \E p \in pending' : p.card = card'[u] /\ p.thread = u
    BY DEF NoOrphanWait
  <2>1. u # t /\ loop[u] = "waiting" /\ card[u] \in Cards
    BY <1>1, <1>2 DEF IInv, CardInv
  <2> QED
    BY <1>1, <2>1 DEF IInv, NoOrphanWait
<1>8. EveryClientSeesCard'
  <2> SUFFICES ASSUME NEW s \in Open, NEW p \in pending', future'[p.card] = "open"
               PROVE  <<s, p.card>> \in shown'
    BY DEF EveryClientSeesCard, Open
  <2>1. p \in pending /\ p.thread \in Threads \ {t} /\ p.card = card[p.thread]
    BY <1>3 DEF IInv, EntryInv
  <2>2. future[p.card] = "open"
    BY <1>1, <1>f, <2>1, EntryType
  <2> QED
    BY <2>1, <2>2 DEF IInv, EveryClientSeesCard, Open
<1> QED
  BY <1>4, <1>5, <1>6, <1>7, <1>8 DEF IInv

LEMMA ResumeStep ==
    ASSUME IInv, TypeOK', NEW t \in Threads, Resume(t)
    PROVE  IInv'
<1> USE DEF history
<1>1. EntriesOf(t)' = {}
  BY DEF Resume, EntriesOf, IInv, EntryInv
<1>2. GrantInv'
  BY DEF Resume, IInv, GrantInv
<1> QED
  BY <1>1, <1>2, LeaveStep DEF Resume

LEMMA UnwindStep ==
    ASSUME IInv, TypeOK', NEW t \in Threads, Unwind(t)
    PROVE  IInv'
<1> USE DEF history
<1>1. EntriesOf(t)' = {}
  BY DEF Unwind, EntriesOf
<1>2. GrantInv'
  BY DEF Unwind, IInv, GrantInv
<1>3. \A s \in Socks, p \in pending' :
         <<s, p.card>> \in shown => <<s, p.card>> \in shown'
  BY FiledKeeps DEF Unwind
<1> QED
  BY <1>1, <1>2, <1>3, LeaveStep DEF Unwind, EntriesOf

(* The new card takes no other's place: ids begin with the thread, and the  *)
(* thread has no entry when its turn asks.                                  *)
LEMMA AskStep ==
    ASSUME IInv, TypeOK', NEW t \in Threads, NEW l \in Labels, NEW c \in Cards,
           Ask(t, l, c)
    PROVE  IInv'
<1> DEFINE entry == [fid |-> NextFid(t), thread |-> t, card |-> c, label |-> l]
<1> USE DEF history
<1>f. TypeOK
  BY DEF IInv
<1>1. \A p \in pending : p.thread \in Threads \ {t} /\ p.fid # entry.fid
  <2> SUFFICES ASSUME NEW p \in pending
               PROVE  p.thread \in Threads \ {t} /\ p.fid # entry.fid
    OBVIOUS
  <2>1. p.thread \in Threads /\ p.thread # t
    BY <1>f, EntryType DEF Ask, IInv, EntryInv
  <2>2. p.fid[1] = p.thread /\ entry.fid[1] = t
    BY DEF IInv, EntryInv, NextFid
  <2> QED
    BY <2>1, <2>2
<1>2. pending' = (pending \ Overdue) \cup {entry}
  BY <1>1 DEF Ask
<1>3. /\ loop' = [loop EXCEPT ![t] = "waiting"] /\ card' = [card EXCEPT ![t] = c]
      /\ future' = [Swept(future) EXCEPT ![c] = "open"]
      /\ loop[t] = "calling" /\ l \notin policy[t] /\ future[c] = "free"
      /\ policy' = policy
  BY DEF Ask
<1>4. \A u \in Threads : card[u] # c
  BY <1>3 DEF IInv, CardInv
<1>5. /\ loop'[t] = "waiting" /\ card'[t] = c /\ future'[c] = "open"
      /\ \A u \in Threads \ {t} : loop'[u] = loop[u] /\ card'[u] = card[u]
  BY <1>f, <1>3, SweptType DEF TypeOK
<1>6. \A d \in Cards \ {c} : future'[d] = Swept(future)[d]
  BY <1>f, <1>3, SweptType DEF TypeOK
<1>7. \A p \in pending \ Overdue :
         /\ p.card \in Cards \ {c} /\ p.card = card[p.thread]
         /\ future'[p.card] = future[p.card]
  BY <1>1, <1>4, <1>6, <1>f, EntryType, SweptKeeps DEF IInv, EntryInv
<1>8. CardInv' /\ OwnCard'
  <2>1. \A u \in Threads : card'[u] \in Cards => future'[card'[u]] # "free"
    BY <1>f, <1>4, <1>5, <1>6, SweptType DEF IInv, CardInv, TypeOK
  <2> QED
    BY <2>1, <1>4, <1>5 DEF IInv, CardInv, OwnCard
<1>9. EntryInv'
  <2> SUFFICES ASSUME NEW p \in pending'
               PROVE  /\ p.fid[1] = p.thread
                      /\ card'[p.thread] = p.card
                      /\ loop'[p.thread] \in {"waiting", "cancelling"}
                      /\ future'[p.card] \in {"open", "cancelled"}
                      /\ p.label \notin policy'[p.thread]
    BY DEF EntryInv
  <2>1. CASE p \in pending \ Overdue
    BY <1>1, <1>3, <1>5, <1>7, <2>1 DEF IInv, EntryInv
  <2>2. CASE p = entry
    BY <1>3, <1>5, <2>2 DEF NextFid
  <2> QED
    BY <1>2, <2>1, <2>2
<1>10. OneEntry'
  BY <1>1, <1>2 DEF IInv, OneEntry
<1>11. IsFiniteSet(pending')
  <2>1. IsFiniteSet(pending \ Overdue)
    BY FS_Subset DEF IInv
  <2> QED
    BY <1>2, <2>1, FS_AddElement
<1>12. NoOrphanWait'
  <2> SUFFICES ASSUME NEW u \in Threads, loop'[u] = "waiting"
               PROVE  \/ future'[card'[u]] \in {"granted", "denied"}
                      \/ /\ future'[card'[u]] = "open"
                         /\ \E p \in pending' : p.card = card'[u] /\ p.thread = u
    BY DEF NoOrphanWait
  <2>1. CASE u = t
    <3>1. entry \in pending' /\ entry.card = c /\ entry.thread = t
      BY <1>2
    <3>2. future'[card'[u]] = "open" /\ entry.card = card'[u] /\ entry.thread = u
      BY <1>5, <2>1, <3>1
    <3> HIDE DEF entry
    <3> QED
      BY <3>1, <3>2
  <2>2. CASE u # t
    <3>1. /\ loop[u] = "waiting" /\ card'[u] = card[u]
          /\ card[u] \in Cards \ {c} /\ future'[card[u]] = Swept(future)[card[u]]
      BY <1>4, <1>5, <1>6, <2>2 DEF IInv, CardInv
    <3>2. CASE future[card[u]] \in {"granted", "denied"}
      BY <1>f, <3>1, <3>2, SweptType DEF TypeOK
    <3>3. ASSUME future[card[u]] = "open",
                 NEW p \in pending, p.card = card[u], p.thread = u
          PROVE  \/ future'[card[u]] = "denied"
                 \/ future'[card[u]] = "open" /\ p \in pending'
      <4>1. CASE p \in Overdue
        BY <1>f, <3>1, <3>3, <4>1, SweptType DEF TypeOK
      <4>2. CASE p \notin Overdue
        BY <1>2, <1>7, <3>3, <4>2
      <4> QED
        BY <4>1, <4>2
    <3> QED
      BY <3>1, <3>2, <3>3 DEF IInv, NoOrphanWait
  <2> QED
    BY <2>1, <2>2
<1>13. EveryClientSeesCard'
  <2> SUFFICES ASSUME NEW s \in Open, NEW p \in pending', future'[p.card] = "open"
               PROVE  <<s, p.card>> \in shown'
    BY DEF EveryClientSeesCard, Open, Ask
  <2>1. CASE p = entry
    BY <2>1 DEF Ask
  <2>2. CASE p \in pending \ Overdue /\ p # entry
    <3>1. <<s, p.card>> \in shown
      BY <1>7, <2>2 DEF IInv, EveryClientSeesCard
    <3> QED
      BY <2>2, <3>1, FiledKeeps DEF Ask
  <2> QED
    BY <1>2, <2>1, <2>2
<1>14. GrantInv'
  BY DEF Ask, IInv, GrantInv
<1> QED
  BY <1>8, <1>9, <1>10, <1>11, <1>12, <1>13, <1>14 DEF IInv
----
(* NoPhantomCard is the part of the invariant about entries.                *)
LEMMA NextIInv == IInv /\ [Next]_vars => IInv'
<1> SUFFICES ASSUME IInv, [Next]_vars PROVE IInv'
    OBVIOUS
<1>1. CASE UNCHANGED vars
  BY <1>1 DEF vars, manager, history, IInv, TypeOK, CardInv, OwnCard, EntryInv, OneEntry,
       GrantInv, NoOrphanWait, EveryClientSeesCard, Open
<1>2. ASSUME NEW t \in Threads, LoopStep(t) PROVE IInv'
  <2>1. TypeOK'
    BY <1>2, LoopStepType DEF IInv
  <2> QED
    BY <1>2, <2>1, BeginLoopStep, EndLoopStep, ResumeStep, UnwindStep, AskStep DEF LoopStep
<1>3. CASE ClientStep \/ Time
  BY <1>3, ClientStepType, ClientStepInv DEF IInv
<1> QED
  BY <1>1, <1>2, <1>3 DEF Next

(* Every reachable state of the approval table and its turns satisfies the  *)
(* inductive invariant.                                                     *)
THEOREM Invariance == Spec => []IInv
  BY InitIInv, NextIInv, PTL DEF Spec

(* Every variable keeps its type.                                           *)
THEOREM TypeCorrect == Spec => []TypeOK
<1>1. IInv => TypeOK
  BY DEF IInv
<1> QED
  BY <1>1, Invariance, PTL

(* run_tool_loop never waits on a future that nothing can resolve.          *)
THEOREM WaitsAreFiled == Spec => []NoOrphanWait
<1>1. IInv => NoOrphanWait
  BY DEF IInv
<1> QED
  BY <1>1, Invariance, PTL

(* ApprovalManager.pending only holds cards of turns that are still there.  *)
THEOREM FiledCardsAwaited == Spec => []NoPhantomCard
<1>1. IInv => NoPhantomCard
  BY DEF IInv, EntryInv, NoPhantomCard
<1> QED
  BY <1>1, Invariance, PTL

(* Every open connection was sent every card that can still be answered.    *)
THEOREM CardsReachClients == Spec => []EveryClientSeesCard
<1>1. IInv => EveryClientSeesCard
  BY DEF IInv
<1> QED
  BY <1>1, Invariance, PTL

(* What a turn's own agent always allowed is not asked for in later loops.  *)
THEOREM OwnGrantsHold == Spec => []OwnGrantHonoured
<1>1. IInv => OwnGrantHonoured
  <2> SUFFICES ASSUME IInv, NEW p \in pending
               PROVE  <<p.label, "own">> \notin promised[p.thread]
    BY DEF OwnGrantHonoured
  <2> QED
    BY EntryType DEF IInv, EntryInv, GrantInv
<1> QED
  BY <1>1, Invariance, PTL
====
