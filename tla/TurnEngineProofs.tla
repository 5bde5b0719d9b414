------------------------- MODULE TurnEngineProofs -------------------------
(* Proofs about TurnEngine, for every set of threads, agents, connections,  *)
(* requests and messages and every cap.                                     *)
EXTENDS TurnEngine, SequenceTheorems, FiniteSetTheorems, WellFoundedInduction, TLAPS

(* Type correctness, one step per action.                                   *)
LEMMA InitType == Init => TypeOK
<1> SUFFICES ASSUME Init PROVE TypeOK
    OBVIOUS
<1> USE OwnerAssumption, SocketAssumption, StoredAssumption, NonEmptyAssumption
<1>1. \A a \in Callers : NewState(a) \in States
  BY DEF NewState, States
<1>2. disk \in [Threads -> States \cup {NoFile}]
  BY <1>1 DEF Init, Callers
<1>3. snap \in [Requests -> States]
  BY <1>1 DEF Init, Callers
<1>4. (CHOOSE t \in Threads : TRUE) \in Threads /\ (CHOOSE s \in Socks : TRUE) \in Socks
  OBVIOUS
<1> QED
  BY <1>2, <1>3, <1>4 DEF Init, TypeOK, Places, Callers

(* What an action writes when it rebuilds or loads a thread's state.        *)
LEMMA LoadedType ==
    ASSUME TypeOK, NEW t \in Threads, NEW a \in Callers
    PROVE  /\ Loaded(t, a) \in States
           /\ Materialized(t, a) \in States \cup {NoFile}
           /\ ~Unknown(t) => Materialized(t, a) \in States
<1>1. NewState(a) \in States
  BY DEF NewState, States
<1>2. Loaded(t, a) \in States
  BY <1>1 DEF Loaded, TypeOK
<1>3. Len(audited[t]) \in Nat /\ audited[t] \in Seq(Requests)
  BY DEF TypeOK
<1>4. [agent |-> a, turns |-> Len(audited[t]), log |-> audited[t], notes |-> {}] \in States
  BY <1>3 DEF States
<1>5. disk[t] \in States \cup {NoFile}
  BY DEF TypeOK
<1> QED
  BY <1>2, <1>4, <1>5 DEF Materialized, Unknown

LEMMA CancelledType == \A p \in Places : Cancelled(p) \in Places
  BY DEF Cancelled, Places

LEMMA TurnAgentType ==
    ASSUME TypeOK, NEW r \in Requests
    PROVE  TurnAgent(r) \in Callers /\ TurnId(r) \in TurnIds
<1>1. snap[r] \in States /\ caller[r] \in Callers /\ thread[r] \in Threads
  BY DEF TypeOK
<1> QED
  BY <1>1 DEF TurnAgent, TurnId, TurnIds, States

LEMMA ReleaseType ==
    ASSUME TypeOK, NEW r \in Requests, Release(r)
    PROVE  /\ holder' \in [Threads -> Requests \cup {None}]
           /\ RUNNING' \in SUBSET Requests
           /\ agent_turns' \in [Agents -> SUBSET TurnIds]
<1>1. holder' \in [Threads -> Requests \cup {None}] /\ RUNNING' \in SUBSET Requests
  BY DEF Release, TypeOK
<1>2. agent_turns' \in [Agents -> SUBSET TurnIds]
  <2>1. \A a \in Agents : agent_turns[a] \in SUBSET TurnIds
    BY DEF TypeOK
  <2> QED
    BY <2>1 DEF Release
<1> QED
  BY <1>1, <1>2

LEMMA TakesLockType ==
    ASSUME TypeOK, NEW r \in Requests, TakesLock(r)
    PROVE  waiters' \in [Threads -> Seq(Requests)]
<1> DEFINE t == thread[r]
<1>1. PICK i \in 1..Len(waiters[t]) :
        waiters' = [waiters EXCEPT ![t] = SubSeq(@, i + 1, Len(@))]
  BY DEF TakesLock
<1>2. t \in Threads /\ waiters[t] \in Seq(Requests) /\ Len(waiters[t]) \in Nat
  BY DEF TypeOK
<1>3. \A j \in (i + 1)..Len(waiters[t]) : waiters[t][j] \in Requests
  BY <1>2, ElementOfSeq
<1>4. SubSeq(waiters[t], i + 1, Len(waiters[t])) \in Seq(Requests)
  BY <1>2, <1>3, SubSeqProperties, i + 1 \in Int, Len(waiters[t]) \in Int
<1> QED
  BY <1>1, <1>2, <1>4 DEF TypeOK

LEMMA NamedType ==
    ASSUME TypeOK, NEW t \in Threads
    PROVE  Named(t) \in Callers
  BY DEF Named, TypeOK, States, Callers

LEMMA TellType ==
    ASSUME TypeOK, NEW t, NEW named \in Callers, Tell(t, named)
    PROVE  thread_agents' \in [Threads -> Callers]
  BY DEF Tell, Addressee, TypeOK

LEMMA SlottedType ==
    ASSUME TypeOK, NEW r \in Requests, agent_turns' = Slotted(r)
    PROVE  agent_turns' \in [Agents -> SUBSET TurnIds]
<1>1. Base(r) \in States /\ thread[r] \in Threads
  BY LoadedType DEF Base, TypeOK
<1>2. <<thread[r], Base(r).turns>> \in TurnIds
  BY <1>1 DEF TurnIds, States
<1>3. CASE Capped(r)
  <2>1. LiveTurns(Payer(r)) \cup {<<thread[r], Base(r).turns>>} \in SUBSET TurnIds
    BY <1>2, <1>3 DEF Capped, LiveTurns, TypeOK
  <2> QED
    BY <1>3, <2>1 DEF Slotted, TypeOK
<1>4. CASE ~Capped(r)
  BY <1>4 DEF Slotted, TypeOK
<1> QED
  BY <1>3, <1>4

LEMMA BroadcastType ==
    ASSUME TypeOK, NEW t \in Threads, Broadcast(t)
    PROVE  TypeOK'
  BY NamedType, TellType DEF Broadcast, TypeOK, request, slots, files, steers

LEMMA RecordType ==
    ASSUME TypeOK, NEW r \in Requests, Record(r)
    PROVE  /\ disk' \in [Threads -> States \cup {NoFile}]
           /\ audited' \in [Threads -> Seq(Requests)]
           /\ recorded' \in SUBSET Requests
<1>1. snap[r] \in States /\ thread[r] \in Threads /\ audited[thread[r]] \in Seq(Requests)
  BY DEF TypeOK
<1>2. Append(audited[thread[r]], r) \in Seq(Requests)
  BY <1>1, AppendProperties
<1>3. Append(snap[r].log, r) \in Seq(Requests)
  BY <1>1, AppendProperties DEF States
<1>4. AfterTurn(snap[r], r) \in States
  BY <1>1, <1>3 DEF AfterTurn, States
<1> QED
  BY <1>1, <1>2, <1>4 DEF Record, TypeOK

LEMMA CloseType ==
    ASSUME TypeOK, NEW r \in Requests, NEW named \in Callers, Close(r, named)
    PROVE  /\ thread_agents' \in [Threads -> Callers]
           /\ pc' \in [Requests -> Places]
           /\ holder' \in [Threads -> Requests \cup {None}]
           /\ RUNNING' \in SUBSET Requests
           /\ agent_turns' \in [Agents -> SUBSET TurnIds]
<1>0. thread_agents' \in [Threads -> Callers]
  BY TellType DEF Close
<1>1. CASE UNCHANGED <<holder, slots>>
  BY <1>0, <1>1 DEF Close, TypeOK, slots, Places
<1>2. CASE Release(r)
  BY <1>0, <1>2, ReleaseType DEF Close, TypeOK, Places
<1> QED
  BY <1>1, <1>2 DEF Close

LEMMA ClientStepType ==
    ASSUME TypeOK, ClientStep
    PROVE  TypeOK'
<1> USE SocketAssumption DEF request, slots, files, steers
<1>1. ASSUME NEW r \in Requests, NEW s \in Socks, NEW t \in Threads, Submit(r, s, t)
      PROVE  TypeOK'
  <2>1. Append(waiters[t], r) \in Seq(Requests)
    BY AppendProperties DEF TypeOK
  <2> QED
    BY <1>1, <2>1 DEF Submit, TypeOK, Places, Callers
<1>2. ASSUME NEW r \in Requests, NEW s \in Socks, NEW t \in Threads, SteerStart(r, s, t)
      PROVE  TypeOK'
  <2>1. Append(waiters[t], r) \in Seq(Requests)
    BY AppendProperties DEF TypeOK
  <2>2. Materialized(t, SocketAgent[s]) \in States \cup {NoFile}
    BY LoadedType DEF Callers
  <2> QED
    BY <1>2, <2>1, <2>2 DEF SteerStart, TypeOK, Places, Callers
<1>3. ASSUME NEW r \in Requests, NEW s \in Socks, NEW t \in Threads, SteerReplace(r, s, t)
      PROVE  TypeOK'
  <2>1. PICK v \in Requests :
          /\ pc' = [pc EXCEPT ![v] = Cancelled(@), ![r] = "steering"]
          /\ victim' = [victim EXCEPT ![r] = v]
    BY <1>3 DEF SteerReplace, RunningOn, TypeOK
  <2>2. Cancelled(pc[v]) \in Places
    BY CancelledType DEF TypeOK
  <2> QED
    BY <1>3, <2>1, <2>2 DEF SteerReplace, TypeOK, Places
<1>4. ASSUME NEW s \in Socks, NEW m \in Msgs, NEW t \in Threads, SteerQueue(s, m, t)
      PROVE  TypeOK'
  <2>1. PICK r \in Requests :
          /\ pending_steer' = pending_steer \cup {<<TurnId(r), m>>}
          /\ addressee' = [addressee EXCEPT ![m] = r]
    BY <1>4 DEF SteerQueue, RunningOn, TypeOK
  <2>2. TurnId(r) \in TurnIds
    BY TurnAgentType
  <2> QED
    BY <1>4, <2>1, <2>2 DEF SteerQueue, TypeOK
<1>5. ASSUME NEW s \in Socks, NEW m \in Msgs, NEW t \in Threads, SteerNote(s, m, t)
      PROVE  TypeOK'
  <2> DEFINE state == Materialized(t, SocketAgent[s])
  <2>1. state \in States
    BY <1>5, LoadedType DEF Callers, SteerNote
  <2>2. [state EXCEPT !.notes = @ \cup {m}] \in States
    BY <2>1 DEF States
  <2>3. disk' \in [Threads -> States \cup {NoFile}]
    BY <1>5, <2>2 DEF SteerNote, TypeOK
  <2>4. UNCHANGED <<pc, request, snap, holder, waiters, slots, audited, recorded,
                    pending_steer, addressee, appliedBy, thread_agents, up>>
        /\ noted' = noted \cup {m}
    BY <1>5 DEF SteerNote
  <2> QED
    BY <2>3, <2>4 DEF TypeOK
<1>6. ASSUME NEW s \in Socks, NEW r \in Requests, Cancel(s, r)
      PROVE  TypeOK'
  <2>1. Cancelled(pc[r]) \in Places
    BY CancelledType DEF TypeOK
  <2> QED
    BY <1>6, <2>1 DEF Cancel, TypeOK
<1>7. ASSUME NEW s \in Socks, Disconnect(s)
      PROVE  TypeOK'
  <2>1. LiveTurns(SocketAgent[s]) \subseteq TurnIds
    BY DEF LiveTurns, TypeOK
  <2>2. \A r \in Requests : Cancelled(pc[r]) \in Places
    BY CancelledType DEF TypeOK
  <2>3. pc' \in [Requests -> Places]
    BY <1>7, <2>2 DEF Disconnect, TypeOK, Places
  <2> QED
    BY <1>7, <2>1, <2>3 DEF Disconnect, TypeOK
<1> QED
  BY <1>1, <1>2, <1>3, <1>4, <1>5, <1>6, <1>7 DEF ClientStep

LEMMA RequestStepType ==
    ASSUME TypeOK, NEW r \in Requests, HandlerStep(r) \/ TurnStep(r)
    PROVE  TypeOK'
<1> USE SocketAssumption, OwnerAssumption DEF request, slots, files, steers
<1> DEFINE t == thread[r]
<1>0. t \in Threads /\ caller[r] \in Callers /\ snap[r] \in States
  BY DEF TypeOK
<1>1. CASE RefuseForeign(r)
  BY <1>1, TakesLockType DEF RefuseForeign, TypeOK, Places
<1>2. CASE RefuseQuota(r)
  <2>1. Payer(r) \in Agents /\ LiveTurns(Payer(r)) \subseteq TurnIds
    BY <1>2 DEF RefuseQuota, AtCap, Capped, LiveTurns, TypeOK
  <2> QED
    BY <1>2, <2>1, TakesLockType DEF RefuseQuota, TypeOK, Places
<1>3. CASE Start(r)
  <2>1. Base(r) \in States
    BY <1>0, LoadedType DEF Base
  <2>3. agent_turns' \in [Agents -> SUBSET TurnIds]
    BY <1>3, SlottedType DEF Start
  <2>4. waiters' \in [Threads -> Seq(Requests)]
    BY <1>3, TakesLockType DEF Start
  <2>5. /\ holder' \in [Threads -> Requests \cup {None}]
        /\ snap' \in [Requests -> States]
    BY <1>3, <1>0, <2>1 DEF Start, TypeOK
  <2>6. pc' \in [Requests -> Places] /\ RUNNING' \in SUBSET Requests
    BY <1>3 DEF Start, TypeOK, Places
  <2>7. thread_agents' \in [Threads -> Callers]
    BY <1>0, <1>3, NamedType, TellType DEF Start
  <2> QED
    BY <1>3, <2>3, <2>4, <2>5, <2>6, <2>7 DEF Start, TypeOK
<1>4. CASE Launch(r)
  BY <1>4 DEF Launch, TypeOK, Places
<1>5. CASE LaunchFails(r)
  BY <1>5, ReleaseType DEF LaunchFails, TypeOK, Places
<1>6. CASE SteerResume(r)
  <2>1. Append(waiters[t], r) \in Seq(Requests)
    BY <1>0, AppendProperties DEF TypeOK
  <2>2. sock[r] \in Socks /\ SocketAgent[sock[r]] \in Callers
    BY DEF TypeOK, Callers
  <2>3. Materialized(t, SocketAgent[sock[r]]) \in States \cup {NoFile}
    BY <1>0, <2>2, LoadedType
  <2>4. caller' \in [Requests -> Callers]
    BY <1>6, <2>2 DEF SteerResume, TypeOK, Callers
  <2>5. pc' \in [Requests -> Places] /\ pending_steer' \in SUBSET (TurnIds \X Msgs)
    BY <1>6 DEF SteerResume, TypeOK, Places
  <2>6. /\ disk' \in [Threads -> States \cup {NoFile}]
        /\ waiters' \in [Threads -> Seq(Requests)]
    BY <1>0, <1>6, <2>1, <2>3 DEF SteerResume, TypeOK
  <2> QED
    BY <1>6, <2>4, <2>5, <2>6 DEF SteerResume, TypeOK
<1>7. CASE Begin(r)
  BY <1>7 DEF Begin, TypeOK, Places
<1>8. CASE FoldSteer(r)
  BY <1>8 DEF FoldSteer, TypeOK
<1>9. CASE Finish(r)
  <2>1. snap[r].agent \in Callers
    BY <1>0 DEF States
  <2> QED
    BY <1>9, <2>1, RecordType, CloseType DEF Finish, TypeOK
<1>10. CASE Truncate(r)
  <2>1. snap[r].agent \in Callers
    BY <1>0 DEF States
  <2> QED
    BY <1>10, <2>1, RecordType, CloseType DEF Truncate, TypeOK
<1>11. CASE Fail(r)
  <2>1. Append(audited[t], r) \in Seq(Requests)
    BY <1>0, AppendProperties DEF TypeOK
  <2> QED
    BY <1>11, <1>0, <2>1, NamedType, CloseType DEF Fail, TypeOK
<1>12. CASE Crash(r)
  BY <1>12, <1>0, NamedType, CloseType DEF Crash, TypeOK
<1>13. CASE Settle(r)
  BY <1>13, ReleaseType DEF Settle, TypeOK, Places
<1>14. CASE StartRaises(r)
  <2>1. Base(r) \in States
    BY <1>0, LoadedType DEF Base
  <2>2. agent_turns' \in [Agents -> SUBSET TurnIds]
    BY <1>14, SlottedType DEF StartRaises, TypeOK
  <2> QED
    BY <1>14, <1>0, <2>1, <2>2, TakesLockType DEF StartRaises, TypeOK, Places
<1>15. CASE StartFails(r)
  <2>1. agent_turns' \in [Agents -> SUBSET TurnIds]
    BY <1>15 DEF StartFails, LiveTurns, TypeOK
  <2>2. thread_agents' \in [Threads -> Callers]
    BY <1>0, <1>15, NamedType, TellType DEF StartFails
  <2> QED
    BY <1>15, <2>1, <2>2, TakesLockType DEF StartFails, TypeOK, Places
<1> QED
  BY <1>1, <1>2, <1>3, <1>4, <1>5, <1>6, <1>7, <1>8, <1>9, <1>10, <1>11, <1>12, <1>13,
     <1>14, <1>15 DEF HandlerStep, TurnStep

(* Every variable keeps its type, in every reachable state.                 *)
THEOREM TypeCorrect == Spec => []TypeOK
<1>1. TypeOK /\ [Next]_vars => TypeOK'
  <2> SUFFICES ASSUME TypeOK, [Next]_vars PROVE TypeOK'
    OBVIOUS
  <2>1. CASE UNCHANGED vars
    BY <2>1 DEF vars, TypeOK
  <2>2. CASE Next
    BY <2>2, ClientStepType, RequestStepType, BroadcastType DEF Next
  <2> QED
    BY <2>1, <2>2
<1> QED
  BY InitType, <1>1, PTL DEF Spec
----
(* The inductive invariant behind the per-thread lock. Alone, NoLostTurn    *)
(* says nothing of the state a turn carries from its start to its save:     *)
(* the invariant adds that this snapshot holds every turn saved so far,     *)
(* and that its counter is beyond theirs.                                   *)
Unsaved    == {"starting", "spawned", "running"}
PastPlaces == {"completing", "cancelling", "done"}
Past(t)    == {r \in Requests : thread[r] = t /\ pc[r] \in PastPlaces}

LockInv   == \A r \in Requests : pc[r] \in Critical => holder[thread[r]] = r
SavedInv  == \A r \in recorded : pc[r] \in PastPlaces
AuditInv  == \A t \in Threads : Range(audited[t]) \subseteq Past(t)
DiskInv   == \A t \in Threads : disk[t] # NoFile => Range(disk[t].log) \subseteq Past(t)
SnapInv   == \A q \in Requests : pc[q] \in Unsaved =>
                /\ Range(snap[q].log) \subseteq Past(thread[q])
                /\ \A r \in recorded : thread[r] = thread[q] =>
                     r \in Range(snap[q].log) /\ snap[r].turns < snap[q].turns
KeptInv   == \A r \in recorded :
                /\ disk[thread[r]] # NoFile
                /\ r \in Range(disk[thread[r]].log)
                /\ snap[r].turns < disk[thread[r]].turns

IInv == /\ TypeOK
        /\ LockInv /\ SavedInv /\ AuditInv /\ DiskInv /\ SnapInv /\ KeptInv
        /\ RecordedIdsUnique

LEMMA RangeAppend ==
    ASSUME NEW S, NEW s \in Seq(S), NEW e \in S
    PROVE  Range(Append(s, e)) = Range(s) \cup {e}
<1> DEFINE u == Append(s, e)
<1>1. /\ u \in Seq(S) /\ Len(u) = Len(s) + 1 /\ Len(s) \in Nat
      /\ \A i \in 1..Len(s) : u[i] = s[i]
      /\ u[Len(s) + 1] = e
  BY AppendProperties
<1>2. Range(u) = {u[i] : i \in 1..Len(u)} /\ Range(s) = {s[i] : i \in 1..Len(s)}
  BY <1>1, RangeEquality
<1> HIDE DEF u
<1>3. Range(u) \subseteq Range(s) \cup {e}
  <2> SUFFICES ASSUME NEW i \in 1..Len(u) PROVE u[i] \in Range(s) \cup {e}
    BY <1>2
  <2> QED
    BY <1>1, <1>2
<1>4. Range(s) \cup {e} \subseteq Range(u)
  <2>1. \A i \in 1..Len(s) : i \in 1..Len(u)
    BY <1>1
  <2>2. Len(s) + 1 \in 1..Len(u)
    BY <1>1
  <2> QED
    BY <1>1, <1>2, <2>1, <2>2
<1> QED
  BY <1>3, <1>4 DEF u

LEMMA RangeEmpty == Range(<<>>) = {}
  BY DEF Range

(* A request's turn that has ended never leaves its thread's past.          *)
LEMMA PastGrows ==
    ASSUME NEW t \in Threads,
           \A r \in Requests : pc[r] \in PastPlaces =>
               pc'[r] \in PastPlaces /\ thread'[r] = thread[r]
    PROVE  Past(t) \subseteq Past(t)'
  BY DEF Past

(* materialize_state leaves an existing history alone, and rebuilds a       *)
(* missing one from the audited turns.                                      *)
FilesKept ==
    \A t \in Threads :
        /\ disk[t] # NoFile => /\ disk'[t] # NoFile
                               /\ disk'[t].log = disk[t].log
                               /\ disk'[t].turns = disk[t].turns
        /\ disk[t] = NoFile /\ disk'[t] # NoFile => disk'[t].log = audited[t]

(* A step that saves no turn, loads nothing and lets no task into the       *)
(* critical section keeps the invariant.                                    *)
LEMMA QuietStep ==
    ASSUME IInv, TypeOK', FilesKept,
           UNCHANGED <<audited, recorded>>,
           \A r \in Requests :
             r \in recorded \/ pc'[r] \in Unsaved => snap'[r] = snap[r],
           \A r \in Requests :
             /\ pc'[r] \in Critical => thread'[r] = thread[r] /\ holder'[thread[r]] = r
             /\ pc'[r] \in Unsaved => pc[r] \in Unsaved
             /\ pc[r] \in PastPlaces => pc'[r] \in PastPlaces
             /\ pc[r] \in PastPlaces => thread'[r] = thread[r]
    PROVE  IInv'
<1> USE DEF IInv
<1>1. \A t \in Threads : Past(t) \subseteq Past(t)'
  BY PastGrows
<1>2. \A r \in recorded : /\ r \in Requests /\ thread[r] \in Threads
                           /\ thread'[r] = thread[r] /\ snap'[r] = snap[r]
  BY DEF SavedInv, TypeOK
<1>3. LockInv'
  BY DEF LockInv
<1>4. SavedInv'
  BY <1>2 DEF SavedInv
<1>5. AuditInv' /\ DiskInv'
  BY <1>1 DEF AuditInv, DiskInv, FilesKept
<1>6. SnapInv'
  <2> SUFFICES ASSUME NEW q \in Requests, pc'[q] \in Unsaved
               PROVE  /\ Range(snap[q].log) \subseteq Past(thread[q])'
                      /\ \A r \in recorded : thread'[r] = thread'[q] =>
                           r \in Range(snap[q].log) /\ snap[r].turns < snap[q].turns
    BY <1>2 DEF SnapInv
  <2>1. pc[q] \in Unsaved /\ thread'[q] = thread[q] /\ thread[q] \in Threads
    BY DEF Unsaved, Critical, TypeOK
  <2> QED
    BY <1>1, <1>2, <2>1 DEF SnapInv
<1>7. KeptInv' /\ RecordedIdsUnique'
  BY <1>2 DEF KeptInv, RecordedIdsUnique, TurnId, FilesKept
<1> QED
  BY <1>3, <1>4, <1>5, <1>6, <1>7

LEMMA MaterializeKeepsFiles ==
    ASSUME TypeOK, NEW t \in Threads, NEW a,
           disk' = [disk EXCEPT ![t] = Materialized(t, a)]
    PROVE  FilesKept
  BY DEF FilesKept, Materialized, TypeOK

(* Releasing r's lock takes it from no other task.                          *)
LEMMA ReleaseOwn ==
    ASSUME IInv, NEW r \in Requests, pc[r] \in Critical, Release(r)
    PROVE  \A q \in Requests : pc[q] \in Critical /\ q # r =>
               holder'[thread[q]] = q
  BY DEF IInv, LockInv, Release, TypeOK

LEMMA ClientStepIInv ==
    ASSUME IInv, ClientStep
    PROVE  IInv'
<1> USE DEF request, slots, files, steers, Critical, Unsaved, PastPlaces
<1>0. TypeOK /\ TypeOK' /\ LockInv
  BY ClientStepType DEF IInv
<1>1. ASSUME NEW r \in Requests, NEW s \in Socks, NEW t \in Threads, Submit(r, s, t)
      PROVE  IInv'
  BY <1>0, <1>1, QuietStep DEF Submit, TypeOK, LockInv, FilesKept
<1>2. ASSUME NEW r \in Requests, NEW s \in Socks, NEW t \in Threads, SteerStart(r, s, t)
      PROVE  IInv'
  <2>1. FilesKept
    BY <1>0, <1>2, MaterializeKeepsFiles DEF SteerStart
  <2> QED
    BY <1>0, <1>2, <2>1, QuietStep DEF SteerStart, TypeOK, LockInv
<1>3. ASSUME NEW r \in Requests, NEW s \in Socks, NEW t \in Threads, SteerReplace(r, s, t)
      PROVE  IInv'
  <2>1. PICK v \in Requests : pc' = [pc EXCEPT ![v] = Cancelled(@), ![r] = "steering"]
    BY <1>0, <1>3 DEF SteerReplace, RunningOn, TypeOK
  <2>2. \A q \in Requests : thread'[q] # thread[q] => q = r
    BY <1>0, <1>3 DEF SteerReplace, TypeOK
  <2>3. pc[r] = "idle" /\ UNCHANGED <<holder, snap, files>>
    BY <1>3 DEF SteerReplace
  <2>4. FilesKept
    BY <2>3 DEF FilesKept
  <2> QED
    BY <1>0, <2>1, <2>2, <2>3, <2>4, QuietStep DEF Cancelled, TypeOK, LockInv
<1>4. ASSUME NEW s \in Socks, NEW m \in Msgs, NEW t \in Threads, SteerQueue(s, m, t)
      PROVE  IInv'
  BY <1>0, <1>4, QuietStep DEF SteerQueue, LockInv, FilesKept
<1>5. ASSUME NEW s \in Socks, NEW m \in Msgs, NEW t \in Threads, SteerNote(s, m, t)
      PROVE  IInv'
  <2> DEFINE state == Materialized(t, SocketAgent[s])
  <2>1. state \in States
    BY <1>0, <1>5, LoadedType, SocketAssumption DEF Callers, SteerNote
  <2>2. disk' = [disk EXCEPT ![t] = [state EXCEPT !.notes = @ \cup {m}]]
    BY <1>5 DEF SteerNote
  <2>3. [state EXCEPT !.notes = @ \cup {m}] \in States
    BY <2>1 DEF States
  <2>4. [state EXCEPT !.notes = @ \cup {m}] # NoFile
    BY <2>3, StoredAssumption DEF States, Callers
  <2>5. /\ disk[t] # NoFile => state = disk[t]
        /\ disk[t] = NoFile => state.log = audited[t]
    BY <1>5 DEF Materialized, SteerNote, Unknown
  <2> HIDE DEF state
  <2>6. FilesKept
    BY <1>0, <2>1, <2>2, <2>4, <2>5 DEF FilesKept, TypeOK, States
  <2>7. UNCHANGED <<pc, thread, holder, snap, audited, recorded>>
    BY <1>5 DEF SteerNote
  <2> QED
    BY <1>0, <2>6, <2>7, QuietStep DEF LockInv
<1>6. ASSUME NEW s \in Socks, NEW r \in Requests, Cancel(s, r)
      PROVE  IInv'
  BY <1>0, <1>6, QuietStep DEF Cancel, Cancelled, TypeOK, LockInv, FilesKept
<1>7. ASSUME NEW s \in Socks, Disconnect(s)
      PROVE  IInv'
  <2>1. \A r \in Requests : pc'[r] # pc[r] =>
          \/ pc'[r] = Cancelled(pc[r])
          \/ pc[r] = "waiting" /\ pc'[r] = "done"
          \/ pc[r] = "starting" /\ pc'[r] = "dead"
    BY <1>7 DEF Disconnect
  <2>2. UNCHANGED <<thread, holder, snap, disk, audited, recorded>>
    BY <1>7 DEF Disconnect
  <2>3. FilesKept
    BY <2>2 DEF FilesKept
  <2> QED
    BY <1>0, <2>1, <2>2, <2>3, QuietStep DEF Cancelled, LockInv
<1> QED
  BY <1>1, <1>2, <1>3, <1>4, <1>5, <1>6, <1>7 DEF ClientStep

(* A turn takes the lock: what it loads holds every saved turn.             *)
LEMMA StartIInv ==
    ASSUME IInv, TypeOK', NEW r \in Requests, Start(r)
    PROVE  IInv'
<1> USE DEF request, slots, files, steers, Critical, Unsaved, PastPlaces, IInv
<1> DEFINE t == thread[r]
<1>1. /\ pc[r] = "waiting" /\ holder[t] = None
      /\ holder' = [holder EXCEPT ![t] = r]
      /\ snap' = [snap EXCEPT ![r] = Base(r)]
      /\ UNCHANGED <<thread, disk, audited, recorded>>
      /\ t \in Threads /\ caller[r] \in Callers
  BY DEF Start, TakesLock, TypeOK
<1>2. /\ pc'[r] \in {"starting", "spawned"}
      /\ \A q \in Requests : q # r => pc'[q] = pc[q]
  BY DEF Start, TypeOK
<1>3. \A q \in Requests : q # r => snap'[q] = snap[q]
  BY <1>1 DEF TypeOK
<1>4. snap'[r] = Base(r)
  BY <1>1 DEF TypeOK
<1>5. r \notin recorded
  BY <1>1 DEF SavedInv
<1>6. \A u \in Threads : Past(u) \subseteq Past(u)'
  BY <1>1, <1>2, PastGrows
<1>7. LockInv'
  BY <1>1, <1>2, NoneAssumption DEF LockInv, TypeOK
<1>8. SavedInv' /\ AuditInv' /\ DiskInv'
  BY <1>1, <1>2, <1>5, <1>6 DEF SavedInv, AuditInv, DiskInv, TypeOK
<1>9. KeptInv' /\ RecordedIdsUnique'
  BY <1>1, <1>3, <1>5 DEF KeptInv, RecordedIdsUnique, TurnId, TypeOK
<1>10. SnapInv'
  <2> SUFFICES ASSUME NEW q \in Requests, pc'[q] \in Unsaved
               PROVE  /\ Range(snap'[q].log) \subseteq Past(thread[q])'
                      /\ \A p \in recorded : thread[p] = thread[q] =>
                           p \in Range(snap'[q].log) /\ snap'[p].turns < snap'[q].turns
    BY <1>1 DEF SnapInv
  <2>1. \A p \in recorded : p # r /\ p \in Requests
    BY <1>5 DEF TypeOK
  <2>2. CASE q # r
    <3>1. pc[q] \in Unsaved /\ thread[q] \in Threads
      BY <1>2, <2>2 DEF TypeOK
    <3>2. Range(snap[q].log) \subseteq Past(thread[q])'
      BY <1>1, <1>6, <3>1 DEF SnapInv
    <3>3. snap'[q] = snap[q] /\ \A p \in recorded : snap'[p] = snap[p]
      BY <1>3, <2>1, <2>2
    <3> QED
      BY <3>1, <3>2, <3>3 DEF SnapInv
  <2>3. CASE q = r /\ disk[t] = NoFile
    <3>1. snap'[r].log = <<>>
      BY <1>4, <2>3 DEF Base, Loaded, NewState
    <3>2. \A p \in recorded : thread[p] # t
      BY <2>3 DEF KeptInv
    <3> QED
      BY <2>3, <3>1, <3>2, RangeEmpty
  <2>4. CASE q = r /\ disk[t] # NoFile
    <3>1. snap'[r] = disk[t]
      BY <1>4, <2>4 DEF Base, Loaded
    <3>2. Range(disk[t].log) \subseteq Past(t)'
      BY <1>1, <1>6, <2>4 DEF DiskInv
    <3> QED
      BY <1>1, <1>3, <2>1, <2>4, <3>1, <3>2 DEF KeptInv
  <2> QED
    BY <2>2, <2>3, <2>4
<1> QED
  BY <1>7, <1>8, <1>9, <1>10

(* A turn's end leaves the other tasks' locks and places alone.             *)
LEMMA CloseOwn ==
    ASSUME IInv, NEW r \in Requests, NEW heard, pc[r] = "running", Close(r, heard)
    PROVE  /\ pc'[r] \in {"completing", "done"}
           /\ \A q \in Requests : q # r => pc'[q] = pc[q]
           /\ \A q \in Requests : pc'[q] \in Critical => holder'[thread[q]] = q
<1>1. /\ pc'[r] \in {"completing", "done"}
      /\ \A q \in Requests : q # r => pc'[q] = pc[q]
  BY DEF Close, IInv, TypeOK
<1>2. CASE UNCHANGED <<holder, slots>>
  BY <1>1, <1>2 DEF IInv, LockInv, Critical
<1>3. CASE Release(r) /\ pc'[r] = "done"
  BY <1>1, <1>3, ReleaseOwn DEF Critical
<1>4. UNCHANGED <<holder, slots>> \/ (Release(r) /\ pc'[r] = "done")
  BY DEF Close, IInv, TypeOK
<1> QED
  BY <1>1, <1>2, <1>3, <1>4

(* A turn that ends without saving.                                         *)
LEMMA FailIInv ==
    ASSUME IInv, TypeOK', NEW r \in Requests, Fail(r)
    PROVE  IInv'
<1> USE DEF request, slots, files, steers, Critical, Unsaved, PastPlaces, IInv
<1> DEFINE t == thread[r]
<1>1. /\ pc[r] = "running" /\ t \in Threads
      /\ audited' = [audited EXCEPT ![t] = Append(@, r)]
      /\ UNCHANGED <<thread, snap, disk, recorded>>
  BY DEF Fail, TypeOK
<1>2. /\ pc'[r] \in {"completing", "done"}
      /\ \A q \in Requests : q # r => pc'[q] = pc[q]
      /\ \A q \in Requests : pc'[q] \in Critical => holder'[thread[q]] = q
  BY <1>1, CloseOwn DEF Fail
<1>3. \A u \in Threads : Past(u) \subseteq Past(u)'
  BY <1>1, <1>2, PastGrows
<1>4. AuditInv'
  <2>1. Range(Append(audited[t], r)) = Range(audited[t]) \cup {r}
    BY <1>1, RangeAppend DEF TypeOK
  <2>2. r \in Past(t)'
    BY <1>1, <1>2 DEF Past
  <2> QED
    BY <1>1, <1>3, <2>1, <2>2 DEF AuditInv, TypeOK
<1>5. LockInv' /\ SavedInv' /\ DiskInv'
  BY <1>1, <1>2, <1>3 DEF LockInv, SavedInv, DiskInv, TypeOK
<1>6. SnapInv'
  BY <1>1, <1>2, <1>3 DEF SnapInv, TypeOK
<1>7. KeptInv' /\ RecordedIdsUnique'
  BY <1>1 DEF KeptInv, RecordedIdsUnique, TurnId
<1> QED
  BY <1>4, <1>5, <1>6, <1>7

(* A turn that saves: no other turn of the thread holds a state loaded      *)
(* before, and this one's snapshot held every earlier turn.                 *)
LEMMA RecordIInv ==
    ASSUME IInv, TypeOK', NEW r \in Requests, pc[r] = "running",
           NEW heard, Record(r), Close(r, heard), UNCHANGED <<thread, snap>>
    PROVE  IInv'
<1> USE DEF Critical, Unsaved, PastPlaces, IInv
<1> DEFINE t == thread[r]
<1>1. /\ t \in Threads /\ snap[r] \in States
      /\ audited' = [audited EXCEPT ![t] = Append(@, r)]
      /\ recorded' = recorded \cup {r}
      /\ disk' = [disk EXCEPT ![t] = AfterTurn(snap[r], r)]
  BY DEF Record, TypeOK
<1>2. /\ pc'[r] \in {"completing", "done"}
      /\ \A q \in Requests : q # r => pc'[q] = pc[q]
      /\ \A q \in Requests : pc'[q] \in Critical => holder'[thread[q]] = q
  BY CloseOwn
<1>3. \A u \in Threads : Past(u) \subseteq Past(u)'
  BY <1>2, PastGrows
<1>4. r \in Past(t)'
  BY <1>2 DEF Past
<1>5. AfterTurn(snap[r], r) \in States /\ AfterTurn(snap[r], r) # NoFile
  <2>1. Append(snap[r].log, r) \in Seq(Requests)
    BY <1>1, AppendProperties DEF States
  <2>2. AfterTurn(snap[r], r) \in States
    BY <1>1, <2>1 DEF AfterTurn, States
  <2> QED
    BY <2>2, StoredAssumption DEF States, Callers
<1>6. /\ Range(AfterTurn(snap[r], r).log) = Range(snap[r].log) \cup {r}
      /\ AfterTurn(snap[r], r).turns = snap[r].turns + 1
      /\ snap[r].turns \in Nat
  BY <1>1, RangeAppend DEF AfterTurn, States
<1>7. \A q \in Requests : pc'[q] \in Unsaved => q # r /\ pc[q] \in Unsaved /\ thread[q] # t
  BY <1>2 DEF LockInv
<1>8. LockInv' /\ SavedInv'
  BY <1>1, <1>2 DEF LockInv, SavedInv, TypeOK
<1>9. AuditInv'
  <2>1. Range(Append(audited[t], r)) = Range(audited[t]) \cup {r}
    BY <1>1, RangeAppend DEF TypeOK
  <2> QED
    BY <1>1, <1>3, <1>4, <2>1 DEF AuditInv, TypeOK
<1>10. DiskInv'
  BY <1>1, <1>3, <1>4, <1>6 DEF DiskInv, SnapInv, TypeOK
<1>11. SnapInv'
  BY <1>1, <1>3, <1>7 DEF SnapInv, TypeOK
<1>12. KeptInv'
  <2> SUFFICES ASSUME NEW p \in recorded'
               PROVE  /\ disk'[thread[p]] # NoFile
                      /\ p \in Range(disk'[thread[p]].log)
                      /\ snap[p].turns < disk'[thread[p]].turns
    BY DEF KeptInv
  <2>1. p \in Requests /\ thread[p] \in Threads /\ snap[p].turns \in Nat
    BY DEF TypeOK, States
  <2>2. CASE thread[p] # t
    BY <1>1, <2>1, <2>2 DEF KeptInv, TypeOK
  <2>3. CASE thread[p] = t
    <3>1. disk'[t] = AfterTurn(snap[r], r)
      BY <1>1 DEF TypeOK
    <3>2. p = r \/ (p \in Range(snap[r].log) /\ snap[p].turns < snap[r].turns)
      BY <1>1, <2>3 DEF SnapInv
    <3> QED
      BY <1>5, <1>6, <2>1, <2>3, <3>1, <3>2
  <2> QED
    BY <2>2, <2>3
<1>13. RecordedIdsUnique'
  <2>1. \A p \in recorded : p # r => TurnId(p) # TurnId(r)
    <3> SUFFICES ASSUME NEW p \in recorded, thread[p] = t PROVE snap[p].turns # snap[r].turns
      BY DEF TurnId
    <3>1. snap[p].turns < snap[r].turns /\ snap[p].turns \in Nat
      BY DEF SnapInv, TypeOK, States
    <3> QED
      BY <1>6, <3>1
  <2>2. \A p \in Requests : TurnId(p)' = TurnId(p)
    BY DEF TurnId
  <2> QED
    BY <1>1, <2>1, <2>2 DEF RecordedIdsUnique, TypeOK
<1> QED
  BY <1>8, <1>9, <1>10, <1>11, <1>12, <1>13

LEMMA RequestStepIInv ==
    ASSUME IInv, NEW r \in Requests, HandlerStep(r) \/ TurnStep(r)
    PROVE  IInv'
<1> USE DEF request, slots, files, steers, Critical, Unsaved, PastPlaces
<1>0. TypeOK /\ TypeOK' /\ LockInv
  BY RequestStepType DEF IInv
<1>1. CASE RefuseForeign(r)
  BY <1>0, <1>1, QuietStep DEF RefuseForeign, TakesLock, TypeOK, LockInv, FilesKept
<1>2. CASE RefuseQuota(r)
  BY <1>0, <1>2, QuietStep DEF RefuseQuota, TakesLock, TypeOK, LockInv, FilesKept
<1>3. CASE Start(r)
  BY <1>0, <1>3, StartIInv
<1>4. CASE Launch(r)
  BY <1>0, <1>4, QuietStep DEF Launch, TypeOK, LockInv, FilesKept
<1>5. CASE LaunchFails(r)
  BY <1>0, <1>5, QuietStep, ReleaseOwn DEF LaunchFails, TypeOK, FilesKept
<1>6. CASE SteerResume(r)
  <2>1. thread[r] \in Threads
    BY <1>0 DEF TypeOK
  <2>2. FilesKept
    BY <1>0, <1>6, <2>1, MaterializeKeepsFiles DEF SteerResume
  <2> QED
    BY <1>0, <1>6, <2>2, QuietStep DEF SteerResume, TypeOK, LockInv
<1>7. CASE Begin(r)
  BY <1>0, <1>7, QuietStep DEF Begin, TypeOK, LockInv, FilesKept
<1>8. CASE FoldSteer(r)
  BY <1>0, <1>8, QuietStep DEF FoldSteer, LockInv, FilesKept
<1>9. CASE Finish(r)
  BY <1>0, <1>9, RecordIInv DEF Finish
<1>10. CASE Truncate(r)
  BY <1>0, <1>10, RecordIInv DEF Truncate
<1>11. CASE Fail(r)
  BY <1>0, <1>11, FailIInv
<1>12. CASE Crash(r)
  <2>1. pc[r] = "running" /\ Close(r, Named(thread[r]))
        /\ UNCHANGED <<thread, snap, disk, audited, recorded>>
    BY <1>12 DEF Crash
  <2>2. FilesKept
    BY <2>1 DEF FilesKept
  <2> QED
    BY <1>0, <2>1, <2>2, CloseOwn, QuietStep
<1>13. CASE Settle(r)
  BY <1>0, <1>13, QuietStep, ReleaseOwn DEF Settle, TypeOK, FilesKept
<1>14. CASE StartRaises(r)
  <2>1. /\ pc[r] = "waiting" /\ holder[thread[r]] = None
        /\ pc' = [pc EXCEPT ![r] = "dead"]
        /\ holder' = [holder EXCEPT ![thread[r]] = r]
        /\ snap' = [snap EXCEPT ![r] = Base(r)]
        /\ UNCHANGED <<thread, disk, audited, recorded>>
    BY <1>14 DEF StartRaises, TakesLock
  <2>2. FilesKept
    BY <2>1 DEF FilesKept
  <2>3. ASSUME NEW q \in Requests
        PROVE  /\ pc'[q] \in Critical => pc[q] \in Critical
               /\ pc'[q] \in Unsaved => pc[q] \in Unsaved
               /\ pc[q] \in PastPlaces => pc'[q] \in PastPlaces
    BY <1>0, <2>1 DEF TypeOK
  <2>4. ASSUME NEW q \in Requests, pc'[q] \in Critical
        PROVE  holder'[thread[q]] = q
    <3>1. holder[thread[q]] = q
      BY <1>0, <2>3, <2>4 DEF LockInv
    <3> QED
      BY <1>0, <2>1, <3>1, NoneAssumption DEF TypeOK
  <2>5. ASSUME NEW q \in Requests, q \in recorded \/ pc'[q] \in Unsaved
        PROVE  snap'[q] = snap[q]
    <3>1. q # r
      BY <1>0, <2>1, <2>5 DEF IInv, SavedInv, TypeOK
    <3> QED
      BY <1>0, <2>1, <3>1 DEF TypeOK
  <2> QED
    BY <1>0, <2>1, <2>2, <2>3, <2>4, <2>5, QuietStep
<1>15. CASE StartFails(r)
  BY <1>0, <1>15, QuietStep DEF StartFails, TakesLock, TypeOK, LockInv, FilesKept
<1> QED
  BY <1>1, <1>2, <1>3, <1>4, <1>5, <1>6, <1>7, <1>8, <1>9, <1>10, <1>11, <1>12, <1>13,
     <1>14, <1>15 DEF HandlerStep, TurnStep

LEMMA BroadcastIInv ==
    ASSUME IInv, NEW t \in Threads, Broadcast(t)
    PROVE  IInv'
<1>1. TypeOK /\ TypeOK' /\ LockInv
  BY BroadcastType DEF IInv
<1> QED
  BY <1>1, QuietStep
     DEF Broadcast, LockInv, FilesKept, request, slots, files, steers

LEMMA InitIInv == Init => IInv
<1> SUFFICES ASSUME Init PROVE IInv
    OBVIOUS
<1>1. /\ \A r \in Requests : pc[r] = "idle"
      /\ recorded = {}
      /\ \A t \in Threads : audited[t] = <<>>
      /\ \A t \in Threads : disk[t] # NoFile => disk[t].log = <<>>
  BY DEF Init, NewState
<1> QED
  BY <1>1, InitType, RangeEmpty
     DEF IInv, LockInv, SavedInv, AuditInv, DiskInv, SnapInv, KeptInv,
         RecordedIdsUnique, Critical, Unsaved

THEOREM Invariance == Spec => []IInv
<1>1. IInv /\ [Next]_vars => IInv'
  <2> SUFFICES ASSUME IInv, [Next]_vars PROVE IInv'
    OBVIOUS
  <2>1. CASE UNCHANGED vars
    BY <2>1, QuietStep
       DEF vars, request, slots, files, steers, IInv, TypeOK, LockInv, FilesKept
  <2>2. CASE Next
    BY <2>2, ClientStepIInv, RequestStepIInv, BroadcastIInv DEF Next
  <2> QED
    BY <2>1, <2>2
<1> QED
  BY InitIInv, <1>1, PTL DEF Spec

(* Two tasks are never between loading and saving the same thread's state.  *)
THEOREM OneTurnPerThread == Spec => []MutualExclusion
<1>1. IInv => MutualExclusion
  BY DEF IInv, LockInv, MutualExclusion
<1> QED
  BY Invariance, <1>1, PTL

(* No saved turn is ever lost from its thread's history.                    *)
THEOREM SavedTurnsKept == Spec => []NoLostTurn
<1>1. IInv => NoLostTurn
  BY DEF IInv, KeptInv, NoLostTurn
<1> QED
  BY Invariance, <1>1, PTL

(* Two saved turns never share a turn id.                                   *)
THEOREM SavedIdsUnique == Spec => []RecordedIdsUnique
<1>1. IInv => RecordedIdsUnique
  BY DEF IInv
<1> QED
  BY Invariance, <1>1, PTL
----
(* The engine implements ThreadLog.                                         *)
SavedBy == [t \in Threads |-> SavedTurns(t)]

SavedOfThread == \A t \in Threads : SavedTurns(t) = {r \in recorded : thread[r] = t}

LEMMA SavedTurnsOfThread == IInv => SavedOfThread
<1> SUFFICES ASSUME IInv, NEW t \in Threads
             PROVE  SavedTurns(t) = {r \in recorded : thread[r] = t}
    BY DEF SavedOfThread
<1>1. CASE disk[t] = NoFile
  BY <1>1 DEF IInv, KeptInv, SavedTurns
<1>2. CASE disk[t] # NoFile
  BY <1>2 DEF IInv, KeptInv, DiskInv, Past, SavedTurns
<1> QED
  BY <1>1, <1>2

LEMMA SavedByUnchanged ==
    ASSUME IInv, IInv', UNCHANGED recorded, \A r \in recorded : thread'[r] = thread[r]
    PROVE  UNCHANGED SavedBy
<1>1. SavedOfThread /\ SavedOfThread'
  BY SavedTurnsOfThread, PTL
<1>2. \A r \in recorded : r \in recorded'
  OBVIOUS
<1>3. \A t \in Threads : SavedTurns(t)' = SavedTurns(t)
  BY <1>1, <1>2 DEF SavedOfThread
<1> QED
  BY <1>3 DEF SavedBy

(* Every step but a save is, to the abstract log, a begin, an end or none.  *)
LEMMA UnsavedStepRefines ==
    ASSUME IInv, IInv', UNCHANGED recorded,
           \A r \in recorded : thread'[r] = thread[r],
           \/ UNCHANGED holder
           \/ \E r \in Requests : pc[r] \in Critical /\ Release(r)
           \/ \E r \in Requests :
                /\ pc[r] = "waiting" /\ holder[thread[r]] = None
                /\ holder' = [holder EXCEPT ![thread[r]] = r]
    PROVE  [Log!Next]_<<holder, SavedBy>>
<1>1. UNCHANGED SavedBy
  BY SavedByUnchanged
<1>2. CASE UNCHANGED holder
  BY <1>1, <1>2
<1>3. ASSUME NEW r \in Requests, pc[r] \in Critical, Release(r)
      PROVE  Log!Next
  <2>1. thread[r] \in Threads /\ holder[thread[r]] = r
    BY <1>3 DEF IInv, TypeOK, LockInv
  <2>2. Log!End(thread[r])
    BY <1>1, <1>3, <2>1, NoneAssumption DEF Log!End, Release, SavedBy
  <2> QED
    BY <2>1, <2>2 DEF Log!Next
<1>4. ASSUME NEW r \in Requests, pc[r] = "waiting", holder[thread[r]] = None,
             holder' = [holder EXCEPT ![thread[r]] = r]
      PROVE  Log!Next
  <2>1. thread[r] \in Threads /\ r \notin recorded
    BY <1>4 DEF IInv, TypeOK, SavedInv, PastPlaces
  <2>2. r \notin SavedTurns(thread[r])
    BY <2>1, SavedTurnsOfThread DEF SavedOfThread
  <2>3. Log!Begin(thread[r], r)
    BY <1>1, <1>4, <2>1, <2>2 DEF Log!Begin, SavedBy
  <2> QED
    BY <2>1, <2>3 DEF Log!Next
<1> QED
  BY <1>2, <1>3, <1>4

LEMMA SavingStepRefines ==
    ASSUME IInv, IInv', NEW r \in Requests, Finish(r) \/ Truncate(r)
    PROVE  Log!Next
<1> DEFINE t == thread[r]
<1>1. /\ pc[r] = "running" /\ t \in Threads /\ holder[t] = r /\ r \notin recorded
      /\ recorded' = recorded \cup {r} /\ thread' = thread
  BY DEF Finish, Truncate, Record, request, IInv, TypeOK, LockInv, SavedInv,
         Critical, PastPlaces
<1>2. holder' = holder \/ holder' = [holder EXCEPT ![t] = None]
  BY DEF Finish, Truncate, Close, Release
<1>3. \A u \in Threads : SavedTurns(u) = {q \in recorded : thread[q] = u}
  BY SavedTurnsOfThread DEF SavedOfThread
<1>4. \A u \in Threads : SavedTurns(u)' = {q \in recorded' : thread'[q] = u}
  <2>1. SavedOfThread'
    BY SavedTurnsOfThread, PTL
  <2> QED
    BY <2>1 DEF SavedOfThread
<1>5. SavedBy' = [SavedBy EXCEPT ![t] = @ \cup {r}]
  <2>1. \A u \in Threads : u # t => SavedTurns(u)' = SavedTurns(u)
    BY <1>1, <1>3, <1>4
  <2>2. SavedTurns(t)' = SavedTurns(t) \cup {r}
    BY <1>1, <1>3, <1>4
  <2> QED
    BY <1>1, <2>1, <2>2 DEF SavedBy
<1>6. r \in Requests \ SavedTurns(t)
  BY <1>1, <1>3
<1>7. Log!Save(t)
  BY <1>1, <1>2, <1>5, <1>6 DEF Log!Save, SavedBy
<1> QED
  BY <1>1, <1>7 DEF Log!Next

(* A step never moves a saved turn to another thread.                       *)
LEMMA SavedThreadsFixed ==
    ASSUME IInv, [Next]_vars
    PROVE  \A r \in recorded : thread'[r] = thread[r]
<1> USE DEF request, IInv, TypeOK, SavedInv, PastPlaces
<1>1. CASE UNCHANGED vars
  BY <1>1 DEF vars
<1>2. CASE ClientStep
  <2>1. UNCHANGED thread \/ \E r \in Requests, t \in Threads :
          pc[r] = "idle" /\ thread' = [thread EXCEPT ![r] = t]
    BY <1>2 DEF ClientStep, Submit, SteerStart, SteerReplace, SteerQueue,
                SteerNote, Cancel, Disconnect
  <2> QED
    BY <2>1
<1>3. CASE \E r \in Requests : HandlerStep(r) \/ TurnStep(r)
  BY <1>3 DEF HandlerStep, TurnStep, RefuseForeign, RefuseQuota, Start, StartFails,
              StartRaises, Launch, LaunchFails, SteerResume, Begin, FoldSteer, Finish, Truncate,
              Fail, Crash, Settle
<1>4. CASE \E t \in Threads : Broadcast(t)
  BY <1>4 DEF Broadcast
<1> QED
  BY <1>1, <1>2, <1>3, <1>4 DEF Next

LEMMA StepRefines ==
    ASSUME IInv, IInv', [Next]_vars
    PROVE  [Log!Next]_<<holder, SavedBy>>
<1> USE SavedThreadsFixed DEF files, slots, Critical
<1>1. CASE UNCHANGED vars
  BY <1>1, UnsavedStepRefines DEF vars
<1>2. CASE ClientStep
  <2>1. UNCHANGED <<holder, recorded>>
    BY <1>2 DEF ClientStep, Submit, SteerStart, SteerReplace, SteerQueue, SteerNote,
                Cancel, Disconnect
  <2> QED
    BY <2>1, UnsavedStepRefines
<1>3. ASSUME NEW r \in Requests, HandlerStep(r) \/ TurnStep(r)
      PROVE  [Log!Next]_<<holder, SavedBy>>
  <2>1. CASE RefuseForeign(r) \/ RefuseQuota(r) \/ StartFails(r) \/ Launch(r)
             \/ SteerResume(r) \/ Begin(r) \/ FoldSteer(r)
    <3>1. UNCHANGED <<holder, recorded>>
      BY <2>1 DEF RefuseForeign, RefuseQuota, StartFails, Launch, SteerResume, Begin,
                  FoldSteer
    <3> QED
      BY <3>1, UnsavedStepRefines
  <2>2. CASE Start(r) \/ StartRaises(r)
    <3>1. /\ pc[r] = "waiting" /\ holder[thread[r]] = None
          /\ holder' = [holder EXCEPT ![thread[r]] = r]
          /\ UNCHANGED recorded
      BY <2>2 DEF Start, StartRaises, TakesLock
    <3> QED
      BY <3>1, UnsavedStepRefines
  <2>3. CASE LaunchFails(r) \/ Settle(r)
    <3>1. pc[r] \in Critical /\ Release(r) /\ UNCHANGED recorded
      BY <2>3 DEF LaunchFails, Settle
    <3> QED
      BY <3>1, UnsavedStepRefines
  <2>4. CASE Fail(r) \/ Crash(r)
    <3>1. pc[r] \in Critical /\ (UNCHANGED holder \/ Release(r)) /\ UNCHANGED recorded
      BY <2>4 DEF Fail, Crash, Close
    <3> QED
      BY <3>1, UnsavedStepRefines
  <2>5. CASE Finish(r) \/ Truncate(r)
    BY <2>5, SavingStepRefines
  <2> QED
    BY <1>3, <2>1, <2>2, <2>3, <2>4, <2>5 DEF HandlerStep, TurnStep
<1>4. CASE \E t \in Threads : Broadcast(t)
  <2>1. UNCHANGED <<holder, recorded>>
    BY <1>4 DEF Broadcast
  <2> QED
    BY <2>1, UnsavedStepRefines
<1> QED
  BY <1>1, <1>2, <1>3, <1>4 DEF Next

(* The engine with its locks, files and task table implements the log with  *)
(* one writer at a time.                                                    *)
THEOREM ImplementsThreadLog == Spec => ThreadLogSpec
<1>1. Init => Log!Init
  <2> SUFFICES ASSUME Init PROVE Log!Init
    OBVIOUS
  <2>1. \A t \in Threads : SavedTurns(t) = {}
    BY DEF Init, SavedTurns
  <2> QED
    BY <2>1 DEF Init, Log!Init
<1>2. IInv /\ IInv' /\ [Next]_vars => [Log!Next]_(Log!vars)
  BY StepRefines DEF Log!vars, SavedBy
<1> QED
  BY Invariance, <1>1, <1>2, PTL DEF Spec, ThreadLogSpec, Log!Spec
----
(* The invariant behind the slots and the steering messages. A slot that is *)
(* taken belongs to the turn that holds the lock of the slot's thread; what *)
(* is queued under a turn id was typed at the turn of that id, and a turn   *)
(* that folded what was typed at another one ran when that one had ended.   *)
Ended == {"done", "dead"}
Begun == Critical \cup Ended

RunningInv == \A r \in RUNNING : pc[r] \in InTask \cup {"dead"}
Occupies(q, a, id) ==
    /\ holder[id[1]] = q /\ pc[q] \in Critical \cup {"dead"}
    /\ TurnId(q) = id /\ TurnAgent(q) = a
SlotInv == \A a \in Agents : \A id \in agent_turns[a] :
    \E q \in Requests : Occupies(q, a, id)
QueuedFor(m, a) ==
    /\ a # None => pc[a] \in Begun
    /\ \A id \in TurnIds : <<id, m>> \in pending_steer =>
         a # None /\ TurnId(a) = id
QueueInv == \A m \in Msgs : QueuedFor(m, addressee[m])
FoldedBy(a, b) ==
    /\ a # None
    /\ pc[b] \in Begun
    /\ TurnId(b) = TurnId(a)
    /\ b # a => pc[a] \in Ended /\ a \notin recorded
FoldInv == \A m \in Msgs :
    appliedBy[m] # None => FoldedBy(addressee[m], appliedBy[m])

TurnInv == RunningInv /\ SlotInv /\ QueueInv /\ FoldInv

(* A turn that has begun keeps its thread, its state and its caller, and so *)
(* its id and the agent it is charged to; one that has ended stays so.      *)
TurnsFixed == \A r \in Requests : pc[r] \in Begun =>
    /\ pc'[r] \in Begun
    /\ pc[r] \in Ended => pc'[r] = pc[r]
    /\ thread'[r] = thread[r] /\ snap'[r] = snap[r] /\ caller'[r] = caller[r]

LEMMA ClientStepFixes == ASSUME TypeOK, ClientStep PROVE TurnsFixed
<1> USE DEF request, slots, files, steers, Critical, InTask, Begun, Ended
<1>1. ASSUME NEW r \in Requests, NEW s \in Socks, NEW t \in Threads,
             Submit(r, s, t) \/ SteerStart(r, s, t)
      PROVE  TurnsFixed
  BY <1>1 DEF TurnsFixed, Submit, SteerStart, TypeOK
<1>2. ASSUME NEW r \in Requests, NEW s \in Socks, NEW t \in Threads, SteerReplace(r, s, t)
      PROVE  TurnsFixed
  <2>1. PICK v \in Requests : pc' = [pc EXCEPT ![v] = Cancelled(@), ![r] = "steering"]
    BY <1>2 DEF SteerReplace, RunningOn, TypeOK
  <2>2. /\ pc[r] = "idle" /\ thread' = [thread EXCEPT ![r] = t]
        /\ UNCHANGED <<caller, snap>>
    BY <1>2 DEF SteerReplace
  <2> QED
    BY <2>1, <2>2 DEF TurnsFixed, Cancelled, TypeOK
<1>3. ASSUME NEW s \in Socks, NEW m \in Msgs, NEW t \in Threads,
             SteerQueue(s, m, t) \/ SteerNote(s, m, t)
      PROVE  TurnsFixed
  <2>1. UNCHANGED <<pc, thread, snap, caller>>
    BY <1>3 DEF SteerQueue, SteerNote
  <2> QED
    BY <2>1 DEF TurnsFixed
<1>4. ASSUME NEW s \in Socks, NEW r \in Requests, Cancel(s, r)
      PROVE  TurnsFixed
  BY <1>4 DEF TurnsFixed, Cancel, Cancelled, TypeOK
<1>5. ASSUME NEW s \in Socks, Disconnect(s)
      PROVE  TurnsFixed
  <2>1. UNCHANGED <<thread, snap, caller>>
    BY <1>5 DEF Disconnect
  <2>2. \A r \in Requests :
          \/ pc'[r] = pc[r] \/ pc'[r] = Cancelled(pc[r])
          \/ pc[r] = "waiting" \/ (pc[r] = "starting" /\ pc'[r] = "dead")
    BY <1>5 DEF Disconnect
  <2> QED
    BY <2>1, <2>2 DEF TurnsFixed, Cancelled
<1> QED
  BY <1>1, <1>2, <1>3, <1>4, <1>5 DEF ClientStep

LEMMA RequestStepFixes ==
    ASSUME TypeOK, NEW r \in Requests, HandlerStep(r) \/ TurnStep(r)
    PROVE  TurnsFixed
<1> USE DEF request, slots, files, steers, Critical, InTask, Begun, Ended
<1>1. CASE RefuseForeign(r) \/ RefuseQuota(r) \/ StartFails(r)
  BY <1>1 DEF TurnsFixed, RefuseForeign, RefuseQuota, StartFails, TakesLock, TypeOK
<1>2. CASE Start(r) \/ StartRaises(r)
  <2>1. /\ pc[r] = "waiting" /\ snap' = [snap EXCEPT ![r] = Base(r)]
        /\ UNCHANGED <<thread, caller>>
        /\ \A q \in Requests : q # r => pc'[q] = pc[q]
    BY <1>2 DEF Start, StartRaises, TakesLock, TypeOK
  <2> QED
    BY <2>1 DEF TurnsFixed, TypeOK
<1>3. CASE Launch(r) \/ LaunchFails(r) \/ Begin(r) \/ FoldSteer(r) \/ Settle(r)
  BY <1>3 DEF TurnsFixed, Launch, LaunchFails, Begin, FoldSteer, Settle, TypeOK
<1>4. CASE SteerResume(r)
  <2>1. /\ pc[r] = "steering" /\ pc' = [pc EXCEPT ![r] = "waiting"]
        /\ UNCHANGED <<thread, snap>>
        /\ \A q \in Requests : q # r => caller'[q] = caller[q]
    BY <1>4 DEF SteerResume, TypeOK
  <2> QED
    BY <2>1 DEF TurnsFixed, TypeOK
<1>5. CASE Finish(r) \/ Truncate(r) \/ Fail(r) \/ Crash(r)
  <2>1. /\ pc[r] = "running" /\ UNCHANGED <<thread, snap, caller>>
        /\ \/ pc' = [pc EXCEPT ![r] = "completing"]
           \/ pc' = [pc EXCEPT ![r] = "done"]
    BY <1>5 DEF Finish, Truncate, Fail, Crash, Close
  <2> QED
    BY <2>1 DEF TurnsFixed, TypeOK
<1> QED
  BY <1>1, <1>2, <1>3, <1>4, <1>5 DEF HandlerStep, TurnStep

LEMMA StepFixes == ASSUME TypeOK, [Next]_vars PROVE TurnsFixed
<1>1. CASE UNCHANGED vars
  BY <1>1 DEF vars, TurnsFixed
<1>2. CASE ClientStep \/ \E r \in Requests : HandlerStep(r) \/ TurnStep(r)
  BY <1>2, ClientStepFixes, RequestStepFixes
<1>3. CASE \E t \in Threads : Broadcast(t)
  BY <1>3 DEF Broadcast, TurnsFixed, request
<1> QED
  BY <1>1, <1>2, <1>3 DEF Next

(* What a step does to the lock table, the task table and the slots.        *)
Released(r) ==
    /\ pc[r] \in Critical /\ pc' = [pc EXCEPT ![r] = "done"] /\ Release(r)
SlotsShrink ==
    /\ UNCHANGED holder
    /\ \A a \in Agents : agent_turns'[a] \subseteq agent_turns[a]
    /\ \A r \in Requests : pc[r] \in Critical \cup {"dead"} =>
         pc'[r] \in Critical \cup {"dead"}
    /\ \A r \in RUNNING' : r \in RUNNING \/ pc'[r] \in InTask
    /\ \A r \in RUNNING : pc[r] \in InTask => pc'[r] \in InTask \cup {"dead"}
    /\ RUNNING' = RUNNING \/ \E r \in Requests : RUNNING' = RUNNING \cup {r}

LEMMA StepShape ==
    ASSUME TypeOK, RunningInv, [Next]_vars
    PROVE  \/ SlotsShrink
           \/ \E r \in Requests : Released(r) \/ Start(r) \/ StartRaises(r)
<1> USE DEF request, slots, Critical, InTask
<1>1. CASE UNCHANGED vars
  BY <1>1 DEF vars, SlotsShrink, RunningInv
<1>2. CASE ClientStep
  <2>1. UNCHANGED <<holder, RUNNING>>
    BY <1>2 DEF ClientStep, Submit, SteerStart, SteerReplace, SteerQueue, SteerNote,
                Cancel, Disconnect
  <2>2. \A a \in Agents : agent_turns'[a] \subseteq agent_turns[a]
    <3>1. CASE UNCHANGED agent_turns
      BY <3>1
    <3>2. ASSUME NEW s \in Socks, Disconnect(s)
          PROVE  \A a \in Agents : agent_turns'[a] \subseteq agent_turns[a]
      BY <3>2 DEF Disconnect, LiveTurns, TypeOK
    <3> QED
      BY <1>2, <3>1, <3>2 DEF ClientStep, Submit, SteerStart, SteerReplace, SteerQueue,
                              SteerNote, Cancel
  <2>3. \A r \in Requests :
          /\ pc[r] \in Critical \cup {"dead"} => pc'[r] \in Critical \cup {"dead"}
          /\ pc[r] \in InTask => pc'[r] \in InTask \cup {"dead"}
    <3>1. ASSUME NEW r \in Requests, NEW s \in Socks, NEW t \in Threads,
                 Submit(r, s, t) \/ SteerStart(r, s, t)
          PROVE  \A q \in Requests : pc'[q] = pc[q] \/ pc[q] = "idle"
      BY <3>1 DEF Submit, SteerStart, TypeOK
    <3>2. ASSUME NEW r \in Requests, NEW s \in Socks, NEW t \in Threads,
                 SteerReplace(r, s, t)
          PROVE  \A q \in Requests :
                   pc'[q] = pc[q] \/ pc[q] = "idle" \/ pc'[q] = Cancelled(pc[q])
      BY <3>2 DEF SteerReplace, TypeOK
    <3>3. ASSUME NEW s \in Socks, NEW m \in Msgs, NEW t \in Threads,
                 SteerQueue(s, m, t) \/ SteerNote(s, m, t)
          PROVE  pc' = pc
      BY <3>3 DEF SteerQueue, SteerNote
    <3>4. ASSUME NEW s \in Socks, NEW r \in Requests, Cancel(s, r)
          PROVE  \A q \in Requests : pc'[q] = pc[q] \/ pc'[q] = Cancelled(pc[q])
      BY <3>4 DEF Cancel, TypeOK
    <3>5. ASSUME NEW s \in Socks, Disconnect(s)
          PROVE  \A q \in Requests :
                   \/ pc'[q] = pc[q] \/ pc'[q] = Cancelled(pc[q])
                   \/ pc[q] = "waiting" \/ (pc[q] = "starting" /\ pc'[q] = "dead")
      BY <3>5 DEF Disconnect
    <3>6. \A q \in Requests :
             \/ pc'[q] = pc[q] \/ pc'[q] = Cancelled(pc[q])
             \/ pc[q] \in {"idle", "waiting"} \/ (pc[q] = "starting" /\ pc'[q] = "dead")
      BY <1>2, <3>1, <3>2, <3>3, <3>4, <3>5 DEF ClientStep
    <3> QED
      BY <3>6 DEF Cancelled
  <2> QED
    BY <2>1, <2>2, <2>3 DEF SlotsShrink, RunningInv, TypeOK
<1>3. ASSUME NEW r \in Requests, HandlerStep(r) \/ TurnStep(r)
      PROVE  SlotsShrink \/ Released(r) \/ Start(r) \/ StartRaises(r)
  <2>1. CASE RefuseForeign(r) \/ SteerResume(r) \/ FoldSteer(r)
    <3>1. /\ UNCHANGED <<holder, RUNNING, agent_turns>>
          /\ \/ UNCHANGED pc
             \/ /\ pc[r] \notin Critical \cup {"dead"}
                /\ \A q \in Requests : q # r => pc'[q] = pc[q]
      BY <2>1 DEF RefuseForeign, SteerResume, FoldSteer, TakesLock, TypeOK
    <3> QED
      BY <3>1 DEF SlotsShrink, TypeOK
  <2>2. CASE RefuseQuota(r) \/ StartFails(r)
    <3>1. /\ UNCHANGED <<holder, RUNNING>> /\ pc[r] = "waiting"
          /\ \A q \in Requests : q # r => pc'[q] = pc[q]
      BY <2>2 DEF RefuseQuota, StartFails, TakesLock, TypeOK
    <3>2. \A a \in Agents : LiveTurns(a) \subseteq agent_turns[a]
      BY DEF LiveTurns
    <3>3. CASE RefuseQuota(r)
      <4>1. agent_turns' = [agent_turns EXCEPT ![Payer(r)] = LiveTurns(Payer(r))]
        BY <3>3 DEF RefuseQuota
      <4>2. \A a \in Agents : agent_turns'[a] \in {agent_turns[a], LiveTurns(a)}
        BY <4>1 DEF TypeOK
      <4> QED
        BY <3>1, <3>2, <4>2 DEF SlotsShrink, TypeOK
    <3>4. CASE StartFails(r)
      <4>1. \A a \in Agents : \/ agent_turns'[a] = agent_turns[a]
                             \/ agent_turns'[a] \subseteq LiveTurns(a)
        BY <3>4 DEF StartFails
      <4> QED
        BY <3>1, <3>2, <4>1 DEF SlotsShrink, TypeOK
    <3> QED
      BY <2>2, <3>3, <3>4
  <2>3. CASE Launch(r) \/ Begin(r)
    <3>1. /\ UNCHANGED <<holder, agent_turns>> /\ pc[r] \in Critical
          /\ pc' = [pc EXCEPT ![r] = pc'[r]] /\ pc'[r] \in InTask
          /\ RUNNING' = RUNNING \/ RUNNING' = RUNNING \cup {r}
      BY <2>3 DEF Launch, Begin, TypeOK
    <3> QED
      BY <3>1 DEF SlotsShrink, TypeOK
  <2>4. CASE LaunchFails(r) \/ Settle(r)
    BY <2>4 DEF LaunchFails, Settle, Released
  <2>5. CASE Finish(r) \/ Truncate(r) \/ Fail(r) \/ Crash(r)
    <3>1. /\ pc[r] = "running"
          /\ \/ pc' = [pc EXCEPT ![r] = "completing"] /\ UNCHANGED <<holder, slots>>
             \/ pc' = [pc EXCEPT ![r] = "done"] /\ Release(r)
      BY <2>5 DEF Finish, Truncate, Fail, Crash, Close
    <3> QED
      BY <3>1 DEF SlotsShrink, Released, TypeOK
  <2> QED
    BY <1>3, <2>1, <2>2, <2>3, <2>4, <2>5 DEF HandlerStep, TurnStep
<1>4. CASE \E t \in Threads : Broadcast(t)
  BY <1>4 DEF Broadcast, SlotsShrink, RunningInv
<1> QED
  BY <1>1, <1>2, <1>3, <1>4 DEF Next

(* What a turn keeps as long as it has begun, its id and its payer with it. *)
LEMMA IdFixed ==
    ASSUME TypeOK, [Next]_vars, NEW q \in Requests, pc[q] \in Begun
    PROVE  /\ pc'[q] \in Begun
           /\ pc[q] \in Ended => pc'[q] = pc[q]
           /\ thread'[q] = thread[q] /\ snap'[q] = snap[q]
           /\ TurnId(q)' = TurnId(q) /\ TurnAgent(q)' = TurnAgent(q)
  BY StepFixes DEF TurnsFixed, TurnId, TurnAgent

LEMMA RunningStep ==
    ASSUME TypeOK, RunningInv, [Next]_vars
    PROVE  RunningInv'
<1> USE DEF RunningInv
<1>1. CASE SlotsShrink
  <2>1. \A r \in Requests : pc[r] = "dead" => pc'[r] = "dead"
    BY StepFixes DEF TurnsFixed, Begun, Ended
  <2> QED
    BY <1>1, <2>1 DEF SlotsShrink, TypeOK
<1>2. ASSUME NEW r \in Requests, Released(r) PROVE RunningInv'
  BY <1>2 DEF Released, Release, TypeOK
<1>3. ASSUME NEW r \in Requests, Start(r) PROVE RunningInv'
  <2>1. /\ RUNNING' \subseteq RUNNING \cup {r}
        /\ r \in RUNNING' \ RUNNING => pc'[r] = "spawned"
        /\ pc[r] = "waiting" /\ \A q \in Requests : q # r => pc'[q] = pc[q]
    BY <1>3 DEF Start, TakesLock, TypeOK
  <2> QED
    BY <2>1 DEF InTask, Critical, TypeOK
<1>4. ASSUME NEW r \in Requests, StartRaises(r) PROVE RunningInv'
  BY <1>4 DEF StartRaises, slots, TypeOK
<1> QED
  BY <1>1, <1>2, <1>3, <1>4, StepShape

(* A lock that is free leaves no slot of its thread; a lock is given back   *)
(* together with the slot of the turn that held it.                         *)
LEMMA SlotStep ==
    ASSUME IInv, RunningInv, SlotInv, [Next]_vars
    PROVE  SlotInv'
<1>0. TypeOK /\ LockInv
  BY DEF IInv
<1>1. ASSUME NEW q \in Requests, NEW a \in Agents, NEW id, Occupies(q, a, id),
             holder'[id[1]] = q, pc'[q] \in Critical \cup {"dead"}
      PROVE  Occupies(q, a, id)'
  <2>1. TurnId(q)' = TurnId(q) /\ TurnAgent(q)' = TurnAgent(q)
    BY <1>0, <1>1, IdFixed DEF Occupies, Begun, Ended
  <2> QED
    BY <1>1, <2>1 DEF Occupies
<1>2. CASE SlotsShrink
  <2> SUFFICES ASSUME NEW a \in Agents, NEW id \in agent_turns'[a]
               PROVE  \E q \in Requests : Occupies(q, a, id)'
    BY DEF SlotInv
  <2>1. PICK q \in Requests : Occupies(q, a, id)
    BY <1>2 DEF SlotsShrink, SlotInv
  <2>2. holder'[id[1]] = q /\ pc'[q] \in Critical \cup {"dead"}
    BY <1>2, <2>1 DEF SlotsShrink, Occupies
  <2> QED
    BY <1>1, <2>1, <2>2
<1>3. ASSUME NEW r \in Requests, Released(r) PROVE SlotInv'
  <2>1. /\ holder[thread[r]] = r /\ thread[r] \in Threads
        /\ holder' = [holder EXCEPT ![thread[r]] = None]
        /\ \A q \in Requests : q # r => pc'[q] = pc[q]
    BY <1>0, <1>3 DEF LockInv, Released, Release, TypeOK
  <2> SUFFICES ASSUME NEW a \in Agents, NEW id \in agent_turns'[a]
               PROVE  \E q \in Requests : Occupies(q, a, id)'
    BY DEF SlotInv
  <2>2. id \in agent_turns[a] /\ (a = TurnAgent(r) => id # TurnId(r))
    BY <1>3 DEF Released, Release
  <2>3. PICK q \in Requests : Occupies(q, a, id)
    BY <2>2 DEF SlotInv
  <2>4. q # r
    BY <2>2, <2>3 DEF Occupies
  <2>5. holder'[id[1]] = q
    BY <1>0, <2>1, <2>3, <2>4 DEF Occupies, TypeOK
  <2>6. pc'[q] \in Critical \cup {"dead"}
    BY <2>1, <2>3, <2>4 DEF Occupies
  <2> QED
    BY <1>1, <2>3, <2>5, <2>6
<1>4. ASSUME NEW r \in Requests, pc[r] = "waiting", holder[thread[r]] = None,
             holder' = [holder EXCEPT ![thread[r]] = r],
             \A q \in Requests : q # r => pc'[q] = pc[q],
             NEW a \in Agents, NEW id \in agent_turns[a]
      PROVE  \E q \in Requests : Occupies(q, a, id)'
  <2>1. PICK q \in Requests : Occupies(q, a, id)
    BY DEF SlotInv
  <2>2. q # r /\ id[1] # thread[r]
    BY <1>4, <2>1, NoneAssumption DEF Occupies, Critical
  <2>3. holder'[id[1]] = q /\ pc'[q] \in Critical \cup {"dead"}
    BY <1>0, <1>4, <2>1, <2>2 DEF Occupies, TypeOK
  <2> QED
    BY <1>1, <2>1, <2>3
<1>5. ASSUME NEW r \in Requests, Start(r) \/ StartRaises(r) PROVE SlotInv'
  <2> DEFINE t == thread[r]
  <2>1. /\ t \in Threads /\ holder[t] = None /\ pc[r] = "waiting"
        /\ holder' = [holder EXCEPT ![t] = r]
        /\ snap' = [snap EXCEPT ![r] = Base(r)]
        /\ thread' = thread /\ caller' = caller
        /\ agent_turns' \in {agent_turns, Slotted(r)}
    BY <1>0, <1>5 DEF Start, StartRaises, TakesLock, request, TypeOK
  <2>2. /\ pc'[r] \in Critical \cup {"dead"}
        /\ \A q \in Requests : q # r => pc'[q] = pc[q]
    BY <1>0, <1>5 DEF Start, StartRaises, Critical, TypeOK
  <2>3. snap'[r] = Base(r)
    BY <1>0, <2>1 DEF TypeOK
  <2> SUFFICES ASSUME NEW a \in Agents, NEW id \in agent_turns'[a]
               PROVE  \E q \in Requests : Occupies(q, a, id)'
    BY DEF SlotInv
  <2>4. CASE id \in agent_turns[a]
    BY <1>4, <2>1, <2>2, <2>4
  <2>5. CASE id \notin agent_turns[a]
    <3>1. a = Payer(r) /\ id = <<t, Base(r).turns>>
      BY <1>0, <2>1, <2>5 DEF Slotted, LiveTurns, TypeOK
    <3>2. holder'[id[1]] = r
      BY <1>0, <2>1, <3>1 DEF TypeOK
    <3>3. TurnId(r)' = id
      BY <2>1, <2>3, <3>1 DEF TurnId
    <3>4. TurnAgent(r)' = a
      BY <2>1, <2>3, <3>1 DEF TurnAgent, Payer
    <3> QED
      BY <2>2, <3>2, <3>3, <3>4 DEF Occupies
  <2> QED
    BY <2>4, <2>5
<1> QED
  BY <1>0, <1>2, <1>3, <1>5, StepShape

(* What a step does to the messages.                                        *)
LEMMA SteerShape ==
    ASSUME TypeOK, [Next]_vars
    PROVE  \/ /\ pending_steer' \subseteq pending_steer
              /\ UNCHANGED <<addressee, appliedBy>>
           \/ \E s \in Socks, m \in Msgs, t \in Threads : SteerQueue(s, m, t)
           \/ \E r \in Requests : FoldSteer(r)
<1> USE DEF steers
<1>1. CASE UNCHANGED vars
  BY <1>1 DEF vars
<1>2. CASE ClientStep
  BY <1>2 DEF ClientStep, Submit, SteerStart, SteerReplace, SteerNote, Cancel, Disconnect
<1>3. ASSUME NEW r \in Requests, HandlerStep(r) \/ TurnStep(r)
      PROVE  \/ /\ pending_steer' \subseteq pending_steer
                /\ UNCHANGED <<addressee, appliedBy>>
             \/ FoldSteer(r)
  BY <1>3 DEF HandlerStep, TurnStep, RefuseForeign, RefuseQuota, Start, StartFails,
              StartRaises, Launch, LaunchFails, SteerResume, Begin, Finish, Truncate,
              Fail, Crash, Settle
<1>4. CASE \E t \in Threads : Broadcast(t)
  BY <1>4 DEF Broadcast
<1> QED
  BY <1>1, <1>2, <1>3, <1>4 DEF Next

(* A turn that a step saves is running until then.                          *)
LEMMA SavedWasRunning ==
    ASSUME TypeOK, [Next]_vars
    PROVE  \A r \in recorded' : r \in recorded \/ (r \in Requests /\ pc[r] = "running")
<1> USE DEF files
<1>1. CASE UNCHANGED vars
  BY <1>1 DEF vars
<1>2. CASE ClientStep
  BY <1>2 DEF ClientStep, Submit, SteerStart, SteerReplace, SteerQueue, SteerNote,
              Cancel, Disconnect
<1>3. ASSUME NEW r \in Requests, HandlerStep(r) \/ TurnStep(r)
      PROVE  \/ recorded' = recorded
             \/ pc[r] = "running" /\ recorded' = recorded \cup {r}
  BY <1>3 DEF HandlerStep, TurnStep, RefuseForeign, RefuseQuota, Start, StartFails,
              StartRaises, Launch, LaunchFails, SteerResume, Begin, FoldSteer, Finish, Truncate,
              Record, Fail, Crash, Settle
<1>4. CASE \E t \in Threads : Broadcast(t)
  BY <1>4 DEF Broadcast
<1> QED
  BY <1>1, <1>2, <1>3, <1>4 DEF Next

LEMMA QueueStep ==
    ASSUME IInv, RunningInv, QueueInv, [Next]_vars
    PROVE  QueueInv'
<1>0. TypeOK
  BY DEF IInv
<1>1. ASSUME NEW m \in Msgs, NEW a \in Requests \cup {None}, QueuedFor(m, a),
             \A id \in TurnIds : <<id, m>> \in pending_steer' => <<id, m>> \in pending_steer
      PROVE  QueuedFor(m, a)'
  <2>1. a # None => a \in Requests /\ pc[a] \in Begun
    BY <1>1 DEF QueuedFor
  <2>2. a # None => pc'[a] \in Begun /\ TurnId(a)' = TurnId(a)
    BY <1>0, <2>1, IdFixed
  <2> QED
    BY <1>1, <2>2 DEF QueuedFor
<1>2. ASSUME NEW m \in Msgs
      PROVE  addressee[m] \in Requests \cup {None} /\ QueuedFor(m, addressee[m])
  BY <1>0 DEF TypeOK, QueueInv
<1>3. CASE pending_steer' \subseteq pending_steer /\ addressee' = addressee
  <2> SUFFICES ASSUME NEW m \in Msgs PROVE QueuedFor(m, addressee[m])'
    BY DEF QueueInv
  <2>1. PICK a \in Requests \cup {None} : a = addressee[m]
    BY <1>2
  <2>2. QueuedFor(m, a)'
    BY <1>1, <1>2, <1>3, <2>1
  <2> QED
    BY <1>3, <2>1, <2>2
<1>4. ASSUME NEW s \in Socks, NEW n \in Msgs, NEW t \in Threads, SteerQueue(s, n, t)
      PROVE  QueueInv'
  <2>1. PICK r \in Requests :
          /\ r \in RUNNING /\ pc[r] # "dead"
          /\ pending_steer' = pending_steer \cup {<<TurnId(r), n>>}
          /\ addressee' = [addressee EXCEPT ![n] = r]
    BY <1>0, <1>4 DEF SteerQueue, RunningOn, Alive, TypeOK
  <2>2. addressee[n] = None
    BY <1>4 DEF SteerQueue, Unsent
  <2>3. pc[r] \in Begun
    BY <2>1 DEF RunningInv, InTask, Critical, Begun
  <2>4. pc'[r] \in Begun /\ TurnId(r)' = TurnId(r)
    BY <1>0, <2>3, IdFixed
  <2> SUFFICES ASSUME NEW m \in Msgs PROVE QueuedFor(m, addressee[m])'
    BY DEF QueueInv
  <2>5. CASE m = n
    <3>1. \A id \in TurnIds : <<id, n>> \notin pending_steer
      BY <1>2, <2>2 DEF QueuedFor
    <3>2. addressee'[n] = r /\ r # None
      BY <1>0, <2>1, NoneAssumption DEF TypeOK
    <3>3. QueuedFor(n, r)'
      BY <2>1, <2>4, <3>1, <3>2 DEF QueuedFor
    <3> QED
      BY <2>5, <3>2, <3>3
  <2>6. CASE m # n
    <3>1. PICK a \in Requests \cup {None} : a = addressee[m]
      BY <1>2
    <3>2. addressee'[m] = a
      BY <1>0, <2>1, <2>6, <3>1 DEF TypeOK
    <3>3. QueuedFor(m, a)'
      BY <1>1, <1>2, <2>1, <2>6, <3>1
    <3> QED
      BY <3>2, <3>3
  <2> QED
    BY <2>5, <2>6
<1>5. ASSUME NEW r \in Requests, FoldSteer(r) PROVE QueueInv'
  <2>1. pending_steer' \subseteq pending_steer /\ addressee' = addressee
    BY <1>5 DEF FoldSteer
  <2> QED
    BY <1>3, <2>1
<1> QED
  BY <1>0, <1>3, <1>4, <1>5, SteerShape

(* The turn that folds a message typed at another one has the id of that    *)
(* one and its lock: the other has ended, and has not been saved, because   *)
(* the counter of a turn that runs is beyond those of all saved turns.      *)
LEMMA FoldStep ==
    ASSUME IInv, QueueInv, FoldInv, [Next]_vars
    PROVE  FoldInv'
<1>0. TypeOK /\ LockInv /\ SnapInv
  BY DEF IInv
<1>1. ASSUME NEW a \in Requests, NEW b \in Requests, pc[a] \in Begun, FoldedBy(a, b)
      PROVE  FoldedBy(a, b)'
  <2>1. /\ pc'[b] \in Begun /\ TurnId(b)' = TurnId(b) /\ TurnId(a)' = TurnId(a)
        /\ pc[a] \in Ended => pc'[a] = pc[a]
    BY <1>0, <1>1, IdFixed DEF FoldedBy
  <2>2. b # a => a \notin recorded'
    BY <1>0, <1>1, SavedWasRunning DEF FoldedBy, Ended
  <2> QED
    BY <1>1, <2>1, <2>2 DEF FoldedBy
<1>2. ASSUME NEW m \in Msgs, addressee'[m] = addressee[m], appliedBy'[m] = appliedBy[m],
             appliedBy[m] # None
      PROVE  FoldedBy(addressee[m], appliedBy[m])'
  <2>1. FoldedBy(addressee[m], appliedBy[m]) /\ QueuedFor(m, addressee[m])
    BY <1>2 DEF FoldInv, QueueInv
  <2>2. PICK a \in Requests, b \in Requests : a = addressee[m] /\ b = appliedBy[m]
    BY <1>0, <1>2, <2>1 DEF FoldedBy, TypeOK
  <2>3. FoldedBy(a, b)'
    BY <1>1, <2>1, <2>2 DEF FoldedBy, QueuedFor
  <2> QED
    BY <1>2, <2>2, <2>3
<1>3. CASE addressee' = addressee /\ appliedBy' = appliedBy
  BY <1>2, <1>3 DEF FoldInv
<1>4. ASSUME NEW s \in Socks, NEW n \in Msgs, NEW t \in Threads, SteerQueue(s, n, t)
      PROVE  FoldInv'
  <2>1. appliedBy' = appliedBy /\ addressee[n] = None
    BY <1>4 DEF SteerQueue, Unsent
  <2>2. \A m \in Msgs : m # n => addressee'[m] = addressee[m]
    BY <1>0, <1>4 DEF SteerQueue, TypeOK
  <2>3. appliedBy[n] = None
    BY <2>1 DEF FoldInv, FoldedBy
  <2> QED
    BY <1>2, <2>1, <2>2, <2>3 DEF FoldInv
<1>5. ASSUME NEW r \in Requests, FoldSteer(r) PROVE FoldInv'
  <2> DEFINE ms == Queued(TurnId(r))
  <2>1. /\ pc[r] = "running" /\ addressee' = addressee
        /\ appliedBy' = [m \in Msgs |-> IF m \in ms THEN r ELSE appliedBy[m]]
    BY <1>5 DEF FoldSteer
  <2> HIDE DEF ms
  <2> SUFFICES ASSUME NEW m \in Msgs, appliedBy'[m] # None
               PROVE  FoldedBy(addressee[m], appliedBy[m])'
    BY DEF FoldInv
  <2>2. CASE m \in ms
    <3>1. PICK a \in Requests :
            a = addressee[m] /\ a # None /\ pc[a] \in Begun /\ TurnId(a) = TurnId(r)
      BY <1>0, <2>2, TurnAgentType DEF ms, Queued, QueueInv, QueuedFor, TypeOK
    <3>2. thread[a] = thread[r] /\ snap[a].turns = snap[r].turns
      BY <3>1 DEF TurnId
    <3>3. r # a => pc[a] \notin Critical
      BY <1>0, <2>1, <3>1, <3>2 DEF LockInv, Critical
    <3>4. a \notin recorded
      <4> SUFFICES ASSUME a \in recorded PROVE FALSE
        OBVIOUS
      <4>1. snap[a].turns < snap[r].turns
        BY <1>0, <2>1, <3>2 DEF SnapInv, Unsaved
      <4>2. snap[a].turns \in Nat
        BY <1>0, <3>1 DEF TypeOK, States
      <4> QED
        BY <3>2, <4>1, <4>2
    <3>5. FoldedBy(a, r)
      BY <2>1, <3>1, <3>3, <3>4 DEF FoldedBy, Begun, Critical
    <3>6. FoldedBy(a, r)'
      BY <1>1, <3>1, <3>5
    <3> QED
      BY <2>1, <2>2, <3>1, <3>6
  <2>3. CASE m \notin ms
    BY <1>2, <2>1, <2>3
  <2> QED
    BY <2>2, <2>3
<1> QED
  BY <1>0, <1>3, <1>4, <1>5, SteerShape

THEOREM TurnInvariance == Spec => []TurnInv
<1>1. Init => TurnInv
  BY NoneAssumption DEF Init, TurnInv, RunningInv, SlotInv, QueueInv, QueuedFor, FoldInv
<1>2. IInv /\ TurnInv /\ [Next]_vars => TurnInv'
  BY RunningStep, SlotStep, QueueStep, FoldStep DEF TurnInv, IInv
<1> QED
  BY <1>1, <1>2, Invariance, PTL DEF Spec

(* A steering message is folded into at most one turn, on its own thread,   *)
(* and into another turn than its own only if that one was never saved.     *)
THEOREM SteersStayWithTheirTurn == Spec => []SteerNeverResurfaces
<1>1. TurnInv => SteerNeverResurfaces
  BY DEF TurnInv, FoldInv, FoldedBy, SteerNeverResurfaces, TurnId
<1> QED
  BY <1>1, TurnInvariance, PTL

(* The table of tasks is finite, however many requests there may be.        *)
LEMMA FewRunning == Spec => []IsFiniteSet(RUNNING)
<1>1. Init => IsFiniteSet(RUNNING)
  BY FS_EmptySet DEF Init
<1>2. TypeOK /\ RunningInv /\ IsFiniteSet(RUNNING) /\ [Next]_vars => IsFiniteSet(RUNNING)'
  <2> SUFFICES ASSUME TypeOK, RunningInv, IsFiniteSet(RUNNING), [Next]_vars
               PROVE  IsFiniteSet(RUNNING')
    OBVIOUS
  <2>1. RUNNING' \subseteq RUNNING \/ \E r \in Requests : RUNNING' \subseteq RUNNING \cup {r}
    BY StepShape DEF SlotsShrink, Released, Release, Start, StartRaises, slots
  <2> QED
    BY <2>1, FS_AddElement, FS_Subset
<1>3. TurnInv => RunningInv
  BY DEF TurnInv
<1> QED
  BY <1>1, <1>2, <1>3, TypeCorrect, TurnInvariance, PTL DEF Spec

(* Distinct ids belong to distinct turns: there are at least as many of     *)
(* these as there are ids.                                                  *)
LEMMA IdsCounted ==
    ASSUME NEW S, IsFiniteSet(S), NEW I, \A id \in I : \E q \in S : TurnId(q) = id
    PROVE  /\ Cardinality(I) <= Cardinality(S)
           /\ Cardinality(I) \in Nat /\ Cardinality(S) \in Nat
<1> DEFINE T == {TurnId(q) : q \in S}
           f == [q \in S |-> TurnId(q)]
<1>1. f \in Surjection(S, T)
  BY DEF Surjection
<1>2. IsFiniteSet(T) /\ Cardinality(T) <= Cardinality(S)
  BY <1>1, FS_Surjection
<1>3. I \subseteq T
  OBVIOUS
<1>4. /\ Cardinality(I) <= Cardinality(T)
      /\ Cardinality(I) \in Nat /\ Cardinality(T) \in Nat /\ Cardinality(S) \in Nat
  BY <1>2, <1>3, FS_Subset, FS_CardinalityType
<1> QED
  BY <1>2, <1>4

(* A start is refused for quota only while that many turns charged to the   *)
(* agent are registered and not finished: what is left of ended turns in    *)
(* the slots is not counted, and no slot of an agent is another's turn.     *)
THEOREM QuotaRefusals == Spec => QuotaRefusalJustified
<1>1. ASSUME IInv, TurnInv, IsFiniteSet(RUNNING), NEW r \in Requests, AtCap(r)
      PROVE  LET a == Payer(r)
             IN  Cardinality({q \in RUNNING : Alive(q) /\ TurnAgent(q) = a}) >= Cap[a]
  <2> DEFINE a == Payer(r)
             Q == {q \in RUNNING : Alive(q) /\ TurnAgent(q) = a}
             L == LiveTurns(a)
  <2>1. a \in Agents /\ Cap[a] \in Nat /\ Cardinality(L) >= Cap[a]
    BY <1>1, CapAssumption DEF AtCap, Capped
  <2> HIDE DEF a
  <2>2. \A id \in L : \E q \in Q : TurnId(q) = id
    <3> SUFFICES ASSUME NEW id \in L PROVE \E q \in Q : TurnId(q) = id
      OBVIOUS
    <3>1. id \in agent_turns[a]
      BY DEF LiveTurns
    <3>2. PICK q \in RUNNING : Alive(q) /\ TurnId(q) = id
      BY DEF LiveTurns
    <3>3. q \in Requests /\ pc[q] \in Critical
      BY <1>1, <3>2 DEF TurnInv, RunningInv, Alive, InTask, IInv, TypeOK
    <3>4. holder[id[1]] = q
      BY <1>1, <3>2, <3>3 DEF IInv, LockInv, TurnId
    <3>5. PICK p \in Requests : Occupies(p, a, id)
      BY <1>1, <2>1, <3>1 DEF TurnInv, SlotInv
    <3>6. TurnAgent(q) = a
      BY <3>4, <3>5 DEF Occupies
    <3> QED
      BY <3>2, <3>6
  <2>3. IsFiniteSet(Q)
    BY <1>1, FS_Subset
  <2> HIDE DEF Q, L
  <2>4. /\ Cardinality(L) <= Cardinality(Q)
        /\ Cardinality(L) \in Nat /\ Cardinality(Q) \in Nat
    BY <2>2, <2>3, IdsCounted
  <2>5. Cardinality(Q) >= Cap[a]
    BY <2>1, <2>4
  <2> QED
    BY <2>5 DEF a, Q
<1>2. ASSUME TypeOK, [Next]_vars, NEW r \in Requests, pc[r] = "waiting", pc'[r] = "overQuota"
      PROVE  AtCap(r)
  <2>1. CASE UNCHANGED vars
    BY <1>2, <2>1 DEF vars
  <2>2. CASE ClientStep
    <3>1. ASSUME NEW q \in Requests, NEW s \in Socks, NEW t \in Threads,
                 Submit(q, s, t) \/ SteerStart(q, s, t) \/ SteerReplace(q, s, t)
          PROVE  pc'[r] \in {pc[r], Cancelled(pc[r]), "waiting", "steering"}
      <4>1. CASE Submit(q, s, t) \/ SteerStart(q, s, t)
        BY <1>2, <4>1 DEF Submit, SteerStart, TypeOK
      <4>2. CASE SteerReplace(q, s, t)
        <5>1. PICK v \in RUNNING : pc' = [pc EXCEPT ![v] = Cancelled(@), ![q] = "steering"]
          BY <4>2 DEF SteerReplace, RunningOn
        <5>2. pc'[r] \in {pc[r], Cancelled(pc[r]), "steering"}
          BY <1>2, <5>1 DEF TypeOK
        <5> QED
          BY <5>2
      <4> QED
        BY <3>1, <4>1, <4>2
    <3>2. ASSUME NEW s \in Socks, NEW m \in Msgs, NEW t \in Threads,
                 SteerQueue(s, m, t) \/ SteerNote(s, m, t)
          PROVE  pc'[r] = pc[r]
      BY <3>2 DEF SteerQueue, SteerNote
    <3>3. ASSUME NEW s \in Socks, NEW q \in Requests, Cancel(s, q)
          PROVE  pc'[r] \in {pc[r], Cancelled(pc[r])}
      BY <1>2, <3>3 DEF Cancel, TypeOK
    <3>4. ASSUME NEW s \in Socks, Disconnect(s)
          PROVE  pc'[r] \in {pc[r], Cancelled(pc[r]), "done", "dead"}
      BY <3>4 DEF Disconnect
    <3>5. Cancelled(pc[r]) = "waiting"
      BY <1>2 DEF Cancelled
    <3> QED
      BY <1>2, <2>2, <3>1, <3>2, <3>3, <3>4, <3>5 DEF ClientStep
  <2>3. ASSUME NEW q \in Requests, HandlerStep(q) \/ TurnStep(q) PROVE AtCap(r)
    <3>1. CASE RefuseQuota(q)
      BY <1>2, <3>1 DEF RefuseQuota, TypeOK
    <3>2. CASE RefuseForeign(q) \/ Start(q) \/ StartFails(q) \/ StartRaises(q) \/ Launch(q)
               \/ LaunchFails(q) \/ SteerResume(q)
      BY <1>2, <3>2 DEF RefuseForeign, Start, StartFails, StartRaises, Launch, LaunchFails,
                        SteerResume, TypeOK
    <3>3. CASE TurnStep(q)
      BY <1>2, <3>3 DEF TurnStep, Begin, FoldSteer, Finish, Truncate, Fail, Crash, Settle,
                        Close, TypeOK
    <3> QED
      BY <2>3, <3>1, <3>2, <3>3 DEF HandlerStep
  <2>4. CASE \E t \in Threads : Broadcast(t)
    BY <1>2, <2>4 DEF Broadcast
  <2> QED
    BY <1>2, <2>1, <2>2, <2>3, <2>4 DEF Next
<1>3. /\ IInv /\ TurnInv /\ IsFiniteSet(RUNNING) /\ [Next]_vars
      => [\A r \in Requests :
           pc[r] = "waiting" /\ pc'[r] = "overQuota" =>
             LET a == Payer(r)
             IN  Cardinality({q \in RUNNING : Alive(q) /\ TurnAgent(q) = a}) >= Cap[a]]_vars
  BY <1>1, <1>2 DEF IInv
<1> QED
  BY <1>3, Invariance, TurnInvariance, FewRunning, PTL DEF Spec, QuotaRefusalJustified
----
(* NobodyStranded. A lock is held by a turn of its thread that is under way *)
(* or died; a waiting handler stands in its thread's queue, which holds     *)
(* nobody else's; who replaces a turn waits for one that was told to end.   *)
HeldInv == \A t \in Threads : holder[t] # None =>
    thread[holder[t]] = t /\ pc[holder[t]] \in Critical \cup {"dead"}
QueuedInv == \A r \in Requests : pc[r] = "waiting" =>
    \E i \in 1..Len(waiters[thread[r]]) : waiters[thread[r]][i] = r
Arrived(q) == pc[q] \notin {"idle", "steering"}
PlacedInv == \A t \in Threads : \A i \in 1..Len(waiters[t]) :
    Arrived(waiters[t][i]) /\ thread[waiters[t][i]] = t
Ending == {"cancelling", "done", "dead"}
EndingInv == \A r \in Requests : pc[r] = "steering" =>
    victim[r] \in Requests /\ pc[victim[r]] \in Ending
WaitInv == HeldInv /\ QueuedInv /\ PlacedInv /\ EndingInv

(* A lock changes hands only where a turn starts, dies or gives it back.     *)
LEMMA HeldStep ==
    ASSUME TypeOK, RunningInv, HeldInv, [Next]_vars
    PROVE  HeldInv'
<1> USE DEF HeldInv
<1>1. TurnsFixed
  BY StepFixes
<1>2. CASE SlotsShrink
  BY <1>1, <1>2 DEF SlotsShrink, TurnsFixed, Begun, Ended, TypeOK
<1>3. ASSUME NEW r \in Requests, Released(r) PROVE HeldInv'
  <2> SUFFICES ASSUME NEW t \in Threads, holder'[t] # None
               PROVE  thread'[holder'[t]] = t /\ pc'[holder'[t]] \in Critical \cup {"dead"}
    OBVIOUS
  <2>1. t # thread[r] /\ holder'[t] = holder[t]
    BY <1>3 DEF Released, Release, TypeOK
  <2>2. holder[t] \in Requests /\ holder[t] # r
    BY <2>1 DEF TypeOK
  <2> QED
    BY <1>1, <1>3, <2>1, <2>2 DEF Released, TurnsFixed, Begun, Ended, TypeOK
<1>4. ASSUME NEW r \in Requests, Start(r) \/ StartRaises(r) PROVE HeldInv'
  <2>1. /\ holder' = [holder EXCEPT ![thread[r]] = r] /\ thread' = thread
        /\ pc'[r] \in Critical \cup {"dead"} /\ pc[r] = "waiting"
        /\ \A q \in Requests : q # r => pc'[q] = pc[q]
    BY <1>4 DEF Start, StartRaises, TakesLock, request, Critical, TypeOK
  <2> SUFFICES ASSUME NEW t \in Threads, holder'[t] # None
               PROVE  thread'[holder'[t]] = t /\ pc'[holder'[t]] \in Critical \cup {"dead"}
    OBVIOUS
  <2>2. CASE t = thread[r]
    BY <2>1, <2>2 DEF TypeOK
  <2>3. CASE t # thread[r]
    <3>1. holder'[t] = holder[t] /\ holder[t] \in Requests
      BY <2>1, <2>3 DEF TypeOK
    <3>2. holder[t] # r
      BY <2>1, <3>1 DEF Critical
    <3> QED
      BY <2>1, <3>1, <3>2
  <2> QED
    BY <2>2, <2>3
<1> QED
  BY <1>2, <1>3, <1>4, StepShape

(* How a step can change who waits, and in which queue.                     *)
StillWaits(q) == pc'[q] = "waiting" => pc[q] = "waiting" /\ thread'[q] = thread[q]
Joins(r) ==
    /\ pc'[r] = "waiting"
    /\ waiters' = [waiters EXCEPT ![thread'[r]] = Append(@, r)]
    /\ \A q \in Requests \ {r} : StillWaits(q)
Leaves(r) ==
    /\ TakesLock(r) /\ pc'[r] # "waiting"
    /\ \A q \in Requests : StillWaits(q)
NoneJoins == UNCHANGED waiters /\ \A q \in Requests : StillWaits(q)

LEMMA ClientWaits ==
    ASSUME TypeOK, ClientStep
    PROVE  NoneJoins \/ \E r \in Requests : Joins(r)
<1> USE DEF request, slots, files, steers, StillWaits
<1>1. ASSUME NEW r \in Requests, NEW s \in Socks, NEW t \in Threads,
             Submit(r, s, t) \/ SteerStart(r, s, t)
      PROVE  Joins(r)
  <2>1. /\ thread' = [thread EXCEPT ![r] = t] /\ pc' = [pc EXCEPT ![r] = "waiting"]
        /\ waiters' = [waiters EXCEPT ![t] = Append(@, r)]
    BY <1>1 DEF Submit, SteerStart
  <2> QED
    BY <2>1 DEF Joins, TypeOK
<1>2. ASSUME NEW r \in Requests, NEW s \in Socks, NEW t \in Threads, SteerReplace(r, s, t)
      PROVE  NoneJoins
  <2>1. PICK v \in Requests : pc' = [pc EXCEPT ![v] = Cancelled(@), ![r] = "steering"]
    BY <1>2 DEF SteerReplace, RunningOn, TypeOK
  <2>2. thread' = [thread EXCEPT ![r] = t] /\ UNCHANGED waiters
    BY <1>2 DEF SteerReplace
  <2>3. \A q \in Requests : Cancelled(pc[q]) = "waiting" => pc[q] = "waiting"
    BY DEF Cancelled
  <2> QED
    BY <2>1, <2>2, <2>3 DEF NoneJoins, TypeOK
<1>3. ASSUME NEW s \in Socks, NEW m \in Msgs, NEW t \in Threads,
             SteerQueue(s, m, t) \/ SteerNote(s, m, t)
      PROVE  NoneJoins
  BY <1>3 DEF SteerQueue, SteerNote, NoneJoins
<1>4. ASSUME NEW s \in Socks, NEW r \in Requests, Cancel(s, r)
      PROVE  NoneJoins
  BY <1>4 DEF Cancel, Cancelled, NoneJoins, TypeOK
<1>5. ASSUME NEW s \in Socks, Disconnect(s) PROVE NoneJoins
  <2>1. UNCHANGED <<thread, waiters>>
    BY <1>5 DEF Disconnect
  <2>2. \A q \in Requests :
          \/ pc'[q] = pc[q] \/ pc'[q] = Cancelled(pc[q]) \/ pc'[q] \in {"done", "dead"}
    BY <1>5 DEF Disconnect
  <2> QED
    BY <2>1, <2>2 DEF NoneJoins, Cancelled
<1> QED
  BY <1>1, <1>2, <1>3, <1>4, <1>5 DEF ClientStep

LEMMA RequestWaits ==
    ASSUME TypeOK, NEW r \in Requests, HandlerStep(r) \/ TurnStep(r)
    PROVE  NoneJoins \/ Joins(r) \/ Leaves(r)
<1> USE DEF request, slots, files, steers, StillWaits
<1>1. CASE RefuseForeign(r) \/ RefuseQuota(r) \/ StartFails(r) \/ StartRaises(r)
  BY <1>1 DEF Leaves, RefuseForeign, RefuseQuota, StartFails, StartRaises, TypeOK
<1>2. CASE Start(r)
  <2>1. /\ pc'[r] # "waiting" /\ thread' = thread
        /\ \A q \in Requests : q # r => pc'[q] = pc[q]
    BY <1>2 DEF Start, TypeOK
  <2> QED
    BY <1>2, <2>1 DEF Leaves, Start
<1>3. CASE Launch(r) \/ LaunchFails(r) \/ Begin(r) \/ FoldSteer(r) \/ Settle(r)
  BY <1>3 DEF NoneJoins, Launch, LaunchFails, Begin, FoldSteer, Settle, TypeOK
<1>4. CASE SteerResume(r)
  BY <1>4 DEF SteerResume, Joins, TypeOK
<1>5. CASE Finish(r) \/ Truncate(r) \/ Fail(r) \/ Crash(r)
  <2>1. /\ UNCHANGED <<thread, waiters>>
        /\ \/ pc' = [pc EXCEPT ![r] = "completing"]
           \/ pc' = [pc EXCEPT ![r] = "done"]
    BY <1>5 DEF Finish, Truncate, Fail, Crash, Close
  <2> QED
    BY <2>1 DEF NoneJoins, TypeOK
<1> QED
  BY <1>1, <1>2, <1>3, <1>4, <1>5 DEF HandlerStep, TurnStep

(* Who waits behind an element keeps a place when all up to it are cut off. *)
LEMMA CutOff ==
    ASSUME NEW S, NEW s \in Seq(S), NEW i \in 1..Len(s), NEW k \in (i + 1)..Len(s)
    PROVE  /\ k - i \in 1..Len(SubSeq(s, i + 1, Len(s)))
           /\ SubSeq(s, i + 1, Len(s))[k - i] = s[k]
<1>1. Len(s) \in Nat /\ i \in Nat /\ k \in Nat
  OBVIOUS
<1>2. /\ Len(SubSeq(s, i + 1, Len(s))) = Len(s) - i
      /\ \A j \in 1..(Len(s) - i) : SubSeq(s, i + 1, Len(s))[j] = s[i + j]
  BY <1>1, SubSeqProperties
<1>3. k - i \in 1..(Len(s) - i) /\ i + (k - i) = k
  BY <1>1
<1> QED
  BY <1>2, <1>3

(* What is left of a queue was in it.                                       *)
LEMMA CutKeeps ==
    ASSUME NEW S, NEW s \in Seq(S), NEW i \in 1..Len(s),
           NEW j \in 1..Len(SubSeq(s, i + 1, Len(s)))
    PROVE  \E k \in 1..Len(s) : SubSeq(s, i + 1, Len(s))[j] = s[k]
<1>1. Len(s) \in Nat /\ i \in Nat
  OBVIOUS
<1>2. /\ Len(SubSeq(s, i + 1, Len(s))) = Len(s) - i
      /\ \A l \in 1..(Len(s) - i) : SubSeq(s, i + 1, Len(s))[l] = s[i + l]
  BY <1>1, SubSeqProperties
<1>3. i + j \in 1..Len(s)
  BY <1>1, <1>2
<1> QED
  BY <1>2, <1>3

LEMMA QueuedStep ==
    ASSUME TypeOK, TypeOK', QueuedInv, [Next]_vars
    PROVE  QueuedInv'
<1> USE DEF QueuedInv, StillWaits
<1>1. CASE UNCHANGED vars
  BY <1>1 DEF vars
<1>2. CASE NoneJoins
  BY <1>2 DEF NoneJoins
<1>3. ASSUME NEW r \in Requests, Joins(r) PROVE QueuedInv'
  <2> SUFFICES ASSUME NEW q \in Requests, pc'[q] = "waiting"
               PROVE  \E i \in 1..Len(waiters'[thread'[q]]) : waiters'[thread'[q]][i] = q
    OBVIOUS
  <2> DEFINE t == thread'[r]
  <2>1. /\ t \in Threads /\ waiters[t] \in Seq(Requests)
        /\ waiters'[t] = Append(waiters[t], r)
        /\ \A u \in Threads : u # t => waiters'[u] = waiters[u]
    BY <1>3 DEF Joins, TypeOK
  <2> HIDE DEF t
  <2>2. /\ Len(waiters[t]) \in Nat /\ Len(waiters'[t]) = Len(waiters[t]) + 1
        /\ waiters'[t][Len(waiters[t]) + 1] = r
        /\ \A i \in 1..Len(waiters[t]) : waiters'[t][i] = waiters[t][i]
    BY <2>1, AppendProperties
  <2>3. CASE q = r
    BY <2>2, <2>3 DEF t
  <2>4. CASE q # r
    <3>1. pc[q] = "waiting" /\ thread'[q] = thread[q] /\ thread[q] \in Threads
      BY <1>3, <2>4 DEF Joins, TypeOK
    <3>2. PICK i \in 1..Len(waiters[thread[q]]) : waiters[thread[q]][i] = q
      BY <3>1
    <3>3. CASE thread[q] = t
      <4>1. i \in 1..Len(waiters'[t]) /\ waiters'[t][i] = q
        BY <2>2, <3>2, <3>3
      <4> QED
        BY <3>1, <3>3, <4>1
    <3>4. CASE thread[q] # t
      BY <2>1, <3>1, <3>2, <3>4
    <3> QED
      BY <3>3, <3>4
  <2> QED
    BY <2>3, <2>4
<1>4. ASSUME NEW r \in Requests, Leaves(r) PROVE QueuedInv'
  <2> SUFFICES ASSUME NEW q \in Requests, pc'[q] = "waiting"
               PROVE  \E i \in 1..Len(waiters'[thread'[q]]) : waiters'[thread'[q]][i] = q
    OBVIOUS
  <2>1. pc[q] = "waiting" /\ thread'[q] = thread[q] /\ thread[q] \in Threads /\ q # r
    BY <1>4 DEF Leaves, TypeOK
  <2>2. PICK k \in 1..Len(waiters[thread[q]]) : waiters[thread[q]][k] = q
    BY <2>1
  <2> DEFINE t == thread[r]
  <2>3. t \in Threads /\ waiters[t] \in Seq(Requests)
    BY DEF TypeOK
  <2>4. PICK i \in 1..Len(waiters[t]) :
          /\ waiters[t][i] = r
          /\ \A j \in 1..(i - 1) : pc[waiters[t][j]] # "waiting"
          /\ waiters' = [waiters EXCEPT ![t] = SubSeq(@, i + 1, Len(@))]
    BY <1>4 DEF Leaves, TakesLock
  <2>5. CASE thread[q] = t
    <3>1. k # i /\ ~(k \in 1..(i - 1))
      BY <2>1, <2>2, <2>4, <2>5
    <3>2. k \in (i + 1)..Len(waiters[t])
      BY <2>2, <2>3, <2>4, <2>5, <3>1
    <3>3. waiters'[t] = SubSeq(waiters[t], i + 1, Len(waiters[t]))
      BY <2>3, <2>4 DEF TypeOK
    <3> HIDE DEF t
    <3>4. k - i \in 1..Len(waiters'[t]) /\ waiters'[t][k - i] = waiters[t][k]
      <4>1. PICK q1 \in Seq(Requests) : q1 = waiters[t]
        BY <2>3
      <4>2. i \in 1..Len(q1) /\ k \in (i + 1)..Len(q1)
        BY <3>2, <4>1
      <4>3. /\ k - i \in 1..Len(SubSeq(q1, i + 1, Len(q1)))
            /\ SubSeq(q1, i + 1, Len(q1))[k - i] = q1[k]
        BY <4>2, CutOff
      <4> QED
        BY <3>3, <4>1, <4>3
    <3> QED
      BY <2>1, <2>2, <2>5, <3>4
  <2>6. CASE thread[q] # t
    <3>1. waiters'[thread[q]] = waiters[thread[q]]
      BY <2>1, <2>4, <2>6 DEF TypeOK
    <3> QED
      BY <2>1, <2>2, <3>1
  <2> QED
    BY <2>5, <2>6
<1>5. CASE \E t \in Threads : Broadcast(t)
  BY <1>2, <1>5 DEF Broadcast, NoneJoins, request
<1> QED
  BY <1>1, <1>2, <1>3, <1>4, <1>5, ClientWaits, RequestWaits DEF Next

(* Who has once joined a queue has its thread for good.                     *)
StaysPut == \A q \in Requests : Arrived(q) => pc'[q] \notin {"idle", "steering"} /\ thread'[q] = thread[q]

LEMMA NobodyMoves == ASSUME TypeOK, [Next]_vars PROVE StaysPut
<1> USE DEF StaysPut, Arrived, request, slots, files, steers
<1>1. CASE UNCHANGED vars
  BY <1>1 DEF vars
<1>2. ASSUME NEW r \in Requests, NEW s \in Socks, NEW t \in Threads,
             Submit(r, s, t) \/ SteerStart(r, s, t)
      PROVE  StaysPut
  BY <1>2 DEF Submit, SteerStart, TypeOK
<1>3. ASSUME NEW r \in Requests, NEW s \in Socks, NEW t \in Threads, SteerReplace(r, s, t)
      PROVE  StaysPut
  <2>1. PICK v \in Requests : pc' = [pc EXCEPT ![v] = Cancelled(@), ![r] = "steering"]
    BY <1>3 DEF SteerReplace, RunningOn, TypeOK
  <2>2. pc[r] = "idle" /\ thread' = [thread EXCEPT ![r] = t]
    BY <1>3 DEF SteerReplace
  <2> QED
    BY <2>1, <2>2 DEF Cancelled, TypeOK
<1>4. ASSUME NEW s \in Socks, NEW m \in Msgs, NEW t \in Threads,
             SteerQueue(s, m, t) \/ SteerNote(s, m, t)
      PROVE  StaysPut
  BY <1>4 DEF SteerQueue, SteerNote
<1>5. ASSUME NEW s \in Socks, NEW r \in Requests, Cancel(s, r)
      PROVE  StaysPut
  BY <1>5 DEF Cancel, Cancelled, TypeOK
<1>6. ASSUME NEW s \in Socks, Disconnect(s) PROVE StaysPut
  <2>1. UNCHANGED thread
    BY <1>6 DEF Disconnect
  <2>2. \A q \in Requests :
          pc'[q] = pc[q] \/ pc'[q] = Cancelled(pc[q]) \/ pc'[q] \in {"done", "dead"}
    BY <1>6 DEF Disconnect
  <2> QED
    BY <2>1, <2>2 DEF Cancelled
<1>7. ASSUME NEW r \in Requests, HandlerStep(r) PROVE StaysPut
  <2>1. CASE Start(r)
    <3>1. /\ pc'[r] \in {"starting", "spawned"} /\ UNCHANGED thread
          /\ \A q \in Requests : q # r => pc'[q] = pc[q]
      BY <2>1 DEF Start, TypeOK
    <3> QED
      BY <3>1
  <2>2. CASE RefuseForeign(r) \/ RefuseQuota(r) \/ StartFails(r) \/ StartRaises(r)
    BY <2>2 DEF RefuseForeign, RefuseQuota, StartFails, StartRaises, TypeOK
  <2>3. CASE Launch(r) \/ LaunchFails(r) \/ SteerResume(r)
    BY <2>3 DEF Launch, LaunchFails, SteerResume, TypeOK
  <2> QED
    BY <1>7, <2>1, <2>2, <2>3 DEF HandlerStep
<1>8. ASSUME NEW r \in Requests, TurnStep(r) PROVE StaysPut
  <2>1. CASE Begin(r) \/ FoldSteer(r) \/ Settle(r)
    BY <2>1 DEF Begin, FoldSteer, Settle, TypeOK
  <2>2. CASE Finish(r) \/ Truncate(r) \/ Fail(r) \/ Crash(r)
    <3>1. /\ UNCHANGED thread
          /\ \/ pc' = [pc EXCEPT ![r] = "completing"]
             \/ pc' = [pc EXCEPT ![r] = "done"]
      BY <2>2 DEF Finish, Truncate, Fail, Crash, Close
    <3> QED
      BY <3>1 DEF TypeOK
  <2> QED
    BY <1>8, <2>1, <2>2 DEF TurnStep
<1>9. CASE \E t \in Threads : Broadcast(t)
  BY <1>9 DEF Broadcast
<1> QED
  BY <1>1, <1>2, <1>3, <1>4, <1>5, <1>6, <1>7, <1>8, <1>9 DEF Next, ClientStep

LEMMA PlacedStep ==
    ASSUME TypeOK, TypeOK', PlacedInv, [Next]_vars
    PROVE  PlacedInv'
<1> USE DEF PlacedInv, Arrived
<1>0. /\ StaysPut
      /\ \A t \in Threads : waiters[t] \in Seq(Requests)
      /\ \A t \in Threads : \A i \in 1..Len(waiters[t]) : waiters[t][i] \in Requests
  BY NobodyMoves DEF TypeOK
<1>1. ASSUME UNCHANGED waiters PROVE PlacedInv'
  BY <1>0, <1>1 DEF StaysPut
<1>2. ASSUME NEW r \in Requests, Joins(r) PROVE PlacedInv'
  <2> DEFINE t == thread'[r]
  <2>1. /\ t \in Threads /\ waiters[t] \in Seq(Requests)
        /\ waiters'[t] = Append(waiters[t], r)
        /\ \A u \in Threads : u # t => waiters'[u] = waiters[u]
    BY <1>2 DEF Joins, TypeOK
  <2>2. pc'[r] = "waiting" /\ thread'[r] = t
    BY <1>2 DEF Joins
  <2> HIDE DEF t
  <2>3. /\ Len(waiters[t]) \in Nat /\ Len(waiters'[t]) = Len(waiters[t]) + 1
        /\ waiters'[t][Len(waiters[t]) + 1] = r
        /\ \A i \in 1..Len(waiters[t]) : waiters'[t][i] = waiters[t][i]
    BY <2>1, AppendProperties
  <2>4. \A i \in 1..Len(waiters'[t]) : i \in 1..Len(waiters[t]) \/ i = Len(waiters[t]) + 1
    BY <2>3
  <2>5. \A i \in 1..Len(waiters'[t]) :
          pc'[waiters'[t][i]] \notin {"idle", "steering"} /\ thread'[waiters'[t][i]] = t
    BY <1>0, <2>1, <2>2, <2>3, <2>4 DEF StaysPut
  <2>6. \A u \in Threads : u # t => \A i \in 1..Len(waiters'[u]) :
          pc'[waiters'[u][i]] \notin {"idle", "steering"} /\ thread'[waiters'[u][i]] = u
    BY <1>0, <2>1 DEF StaysPut
  <2> QED
    BY <2>5, <2>6
<1>3. ASSUME NEW r \in Requests, Leaves(r) PROVE PlacedInv'
  <2> DEFINE t == thread[r]
  <2>1. t \in Threads
    BY DEF TypeOK
  <2>2. PICK i \in 1..Len(waiters[t]) :
          waiters' = [waiters EXCEPT ![t] = SubSeq(@, i + 1, Len(@))]
    BY <1>3 DEF Leaves, TakesLock
  <2> HIDE DEF t
  <2>3. waiters'[t] = SubSeq(waiters[t], i + 1, Len(waiters[t]))
    BY <2>1, <2>2 DEF TypeOK
  <2>4. \A u \in Threads : u # t => waiters'[u] = waiters[u]
    BY <2>2 DEF TypeOK
  <2>5. \A j \in 1..Len(waiters'[t]) : \E k \in 1..Len(waiters[t]) : waiters'[t][j] = waiters[t][k]
    BY <1>0, <2>1, <2>3, CutKeeps
  <2>6. \A j \in 1..Len(waiters'[t]) :
          pc'[waiters'[t][j]] \notin {"idle", "steering"} /\ thread'[waiters'[t][j]] = t
    <3> SUFFICES ASSUME NEW j \in 1..Len(waiters'[t])
                 PROVE  pc'[waiters'[t][j]] \notin {"idle", "steering"} /\ thread'[waiters'[t][j]] = t
      OBVIOUS
    <3>1. PICK k \in 1..Len(waiters[t]) : waiters'[t][j] = waiters[t][k]
      BY <2>5
    <3>2. PICK q \in Requests : q = waiters[t][k]
      BY <1>0, <2>1
    <3>3. pc[q] \notin {"idle", "steering"} /\ thread[q] = t
      BY <2>1, <3>2
    <3>4. pc'[q] \notin {"idle", "steering"} /\ thread'[q] = t
      BY <1>0, <3>3 DEF StaysPut
    <3> QED
      BY <3>1, <3>2, <3>4
  <2>7. \A u \in Threads : u # t => \A j \in 1..Len(waiters'[u]) :
          pc'[waiters'[u][j]] \notin {"idle", "steering"} /\ thread'[waiters'[u][j]] = u
    BY <1>0, <2>4 DEF StaysPut
  <2> QED
    BY <2>6, <2>7
<1>4. NoneJoins \/ UNCHANGED vars \/ (\E t \in Threads : Broadcast(t)) => UNCHANGED waiters
  BY DEF NoneJoins, Broadcast, vars
<1> QED
  BY <1>1, <1>2, <1>3, <1>4, ClientWaits, RequestWaits DEF Next

(* A turn that is ending goes on doing so; only a replacing steer names one *)
(* as its victim, and it is ending from then on.                            *)
LEMMA EndingStep ==
    ASSUME TypeOK, RunningInv, EndingInv, [Next]_vars
    PROVE  EndingInv'
<1> USE DEF EndingInv, Ending, request, slots, files, steers
<1> DEFINE Moves == /\ UNCHANGED victim
                    /\ \A q \in Requests : pc'[q] = "steering" => pc[q] = "steering"
                    /\ \A q \in Requests : pc[q] \in Ending => pc'[q] \in Ending
<1>1. ASSUME Moves PROVE EndingInv'
  BY <1>1
<1>2. CASE UNCHANGED vars
  BY <1>2 DEF vars
<1>3. ASSUME NEW r \in Requests, NEW s \in Socks, NEW t \in Threads,
             Submit(r, s, t) \/ SteerStart(r, s, t)
      PROVE  Moves
  BY <1>3 DEF Submit, SteerStart, TypeOK
<1>4. ASSUME NEW r \in Requests, NEW s \in Socks, NEW t \in Threads, SteerReplace(r, s, t)
      PROVE  EndingInv'
  <2>1. PICK v \in RunningOn(t) :
          /\ Alive(v)
          /\ pc' = [pc EXCEPT ![v] = Cancelled(@), ![r] = "steering"]
          /\ victim' = [victim EXCEPT ![r] = v]
    BY <1>4 DEF SteerReplace
  <2>2. /\ pc[r] = "idle" /\ v \in Requests
        /\ pc[v] \in {"spawned", "running", "completing", "cancelling"}
    BY <1>4, <2>1 DEF SteerReplace, RunningOn, RunningInv, Alive, InTask, Critical, TypeOK
  <2>3. v # r /\ pc'[v] \in Ending
    BY <2>1, <2>2 DEF Cancelled, TypeOK
  <2>4. \A q \in Requests : pc[q] \in Ending => pc'[q] \in Ending
    BY <2>1, <2>2, <2>3 DEF TypeOK
  <2>5. \A q \in Requests : q # r /\ pc'[q] = "steering" => pc[q] = "steering" /\ victim'[q] = victim[q]
    BY <2>1, <2>2, <2>3 DEF TypeOK
  <2>6. victim'[r] = v
    BY <2>1 DEF TypeOK
  <2> QED
    BY <2>2, <2>3, <2>4, <2>5, <2>6
<1>5. ASSUME NEW s \in Socks, NEW m \in Msgs, NEW t \in Threads,
             SteerQueue(s, m, t) \/ SteerNote(s, m, t)
      PROVE  Moves
  BY <1>5 DEF SteerQueue, SteerNote
<1>6. ASSUME NEW s \in Socks, NEW r \in Requests, Cancel(s, r)
      PROVE  Moves
  BY <1>6 DEF Cancel, Cancelled, TypeOK
<1>7. ASSUME NEW s \in Socks, Disconnect(s) PROVE Moves
  <2>1. UNCHANGED victim
    BY <1>7 DEF Disconnect
  <2>2. \A q \in Requests :
          \/ pc'[q] = pc[q] \/ pc'[q] = Cancelled(pc[q])
          \/ pc[q] \in {"waiting", "starting"} /\ pc'[q] \in {"done", "dead"}
    BY <1>7 DEF Disconnect
  <2> QED
    BY <2>1, <2>2 DEF Cancelled
<1>8. ASSUME NEW r \in Requests, HandlerStep(r) PROVE Moves
  <2>1. CASE Start(r)
    <3>1. /\ pc[r] = "waiting" /\ pc'[r] \in {"starting", "spawned"} /\ UNCHANGED victim
          /\ \A q \in Requests : q # r => pc'[q] = pc[q]
      BY <2>1 DEF Start, TakesLock, TypeOK
    <3> QED
      BY <3>1
  <2>2. CASE RefuseForeign(r) \/ RefuseQuota(r) \/ StartFails(r) \/ StartRaises(r)
    BY <2>2 DEF RefuseForeign, RefuseQuota, StartFails, StartRaises, TakesLock, TypeOK
  <2>3. CASE Launch(r) \/ LaunchFails(r) \/ SteerResume(r)
    BY <2>3 DEF Launch, LaunchFails, SteerResume, TypeOK
  <2> QED
    BY <1>8, <2>1, <2>2, <2>3 DEF HandlerStep
<1>9. ASSUME NEW r \in Requests, TurnStep(r) PROVE Moves
  <2>1. CASE Begin(r) \/ FoldSteer(r) \/ Settle(r)
    BY <2>1 DEF Begin, FoldSteer, Settle, TypeOK
  <2>2. CASE Finish(r) \/ Truncate(r) \/ Fail(r) \/ Crash(r)
    <3>1. /\ pc[r] = "running" /\ UNCHANGED victim
          /\ \/ pc' = [pc EXCEPT ![r] = "completing"]
             \/ pc' = [pc EXCEPT ![r] = "done"]
      BY <2>2 DEF Finish, Truncate, Fail, Crash, Close
    <3> QED
      BY <3>1 DEF TypeOK
  <2> QED
    BY <1>9, <2>1, <2>2 DEF TurnStep
<1>10. CASE \E t \in Threads : Broadcast(t)
  BY <1>10 DEF Broadcast
<1> HIDE DEF Moves
<1> QED
  BY <1>1, <1>2, <1>3, <1>4, <1>5, <1>6, <1>7, <1>8, <1>9, <1>10 DEF Next, ClientStep

(* The first of those in a queue that still wait.                           *)
LEMMA SomebodyFirst ==
    ASSUME NEW T, T \subseteq Nat, T # {}
    PROVE  \E i \in T : \A j \in T : ~(j < i)
<1>1. \E i \in T : \A j \in T : ~(<<j, i>> \in OpToRel(<, Nat))
  BY WFMin, NatLessThanWellFounded, Zenon
<1> QED
  BY <1>1, Zenon DEF OpToRel

(* What is known of a handler that waits, for the lock or for a turn's end. *)
THEOREM WaitInvariance == Spec => []WaitInv
<1>1. Init => WaitInv
  BY DEF Init, WaitInv, HeldInv, QueuedInv, PlacedInv, EndingInv
<1>2. TypeOK /\ TypeOK' /\ RunningInv /\ WaitInv /\ [Next]_vars => WaitInv'
  BY HeldStep, QueuedStep, PlacedStep, EndingStep DEF WaitInv
<1>3. TurnInv => RunningInv
  BY DEF TurnInv
<1> QED
  BY <1>1, <1>2, <1>3, TypeCorrect, TurnInvariance, PTL DEF Spec

(* NobodyStranded: no cancel, replacement, refusal or disconnect leaves a   *)
(* handler waiting for a lock that nobody holds and nobody may take, for a  *)
(* turn of another thread, or for one that was not told to end.             *)
THEOREM WaitersGoOn == Spec => []NobodyStranded
<1>1. ASSUME TypeOK, WaitInv PROVE NobodyStranded
  <2>1. ASSUME NEW r \in Requests, pc[r] = "waiting", holder[thread[r]] = None
        PROVE  \E q \in Requests :
                 pc[q] = "waiting" /\ thread[q] = thread[r] /\ First(q, thread[r])
    <3>1. PICK t \in Threads : t = thread[r]
      BY <1>1 DEF TypeOK
    <3> DEFINE T == {i \in 1..Len(waiters[t]) : pc[waiters[t][i]] = "waiting"}
    <3>2. waiters[t] \in Seq(Requests) /\ Len(waiters[t]) \in Nat
      BY <1>1 DEF TypeOK
    <3>3. T \subseteq Nat /\ T # {}
      BY <1>1, <2>1, <3>1, <3>2 DEF WaitInv, QueuedInv
    <3>4. PICK i \in T : \A j \in T : ~(j < i)
      BY <3>3, SomebodyFirst
    <3>5. i \in 1..Len(waiters[t]) /\ pc[waiters[t][i]] = "waiting"
      OBVIOUS
    <3>6. ASSUME NEW j \in 1..(i - 1) PROVE pc[waiters[t][j]] # "waiting"
      <4>1. j < i /\ j \in 1..Len(waiters[t])
        BY <3>2, <3>5
      <4> QED
        BY <3>4, <4>1
    <3>7. waiters[t][i] \in Requests /\ thread[waiters[t][i]] = t
      BY <1>1, <3>2, <3>5 DEF WaitInv, PlacedInv
    <3> HIDE DEF T
    <3> QED
      BY <3>1, <3>5, <3>6, <3>7 DEF First
  <2> QED
    BY <1>1, <2>1 DEF NobodyStranded, WaitInv, HeldInv, EndingInv, Ending, TypeOK
<1> QED
  BY <1>1, TypeCorrect, WaitInvariance, PTL
====
