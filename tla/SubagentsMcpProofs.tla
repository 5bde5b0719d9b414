------------------------- MODULE SubagentsMcpProofs --------------------------
(* Proofs about Subagents, for every set of children and every cap, and     *)
(* about McpClient, for every set of servers and runs and every number of   *)
(* objects. The two share no state.                                         *)
EXTENDS Subagents, McpClient, FiniteSetTheorems, TLAPS

Busy == {c \in Subs : driver[c] = "starting" \/ turn[c] \in Alive}

(* The inductive invariant. An entry is listed as running from the spawn to *)
(* the report of its driver, and the driver follows the turn for as long as *)
(* it lives: nothing that cancels the driver reaches it while its turn is   *)
(* in RUNNING.                                                              *)
EntryInv == \A c \in Subs :
    /\ status[c] = "none" => driver[c] = "none"
    /\ status[c] \in Over => driver[c] = "over"
DriverInv == \A c \in Subs :
    /\ turn[c] \in Alive => driver[c] = "following"
    /\ turn[c] # "none" => driver[c] \in {"following", "over"}
    /\ driver[c] = "following" => turn[c] # "none"
ListedInv == Cardinality(Listed) <= Max

IInv == TypeOK /\ EntryInv /\ DriverInv /\ ListedInv

LEMMA InitIInv == Init => IInv
<1> SUFFICES ASSUME Init PROVE IInv
  OBVIOUS
<1>1. TypeOK
  BY DEF Init, TypeOK, Over, Alive
<1>2. Listed = {}
  BY DEF Init, Listed
<1>3. ListedInv
  BY <1>2, FS_EmptySet, MaxAssumption DEF ListedInv
<1>4. EntryInv /\ DriverInv
  BY DEF Init, EntryInv, DriverInv, Over, Alive
<1> QED
  BY <1>1, <1>3, <1>4 DEF IInv

(* No child is listed anew: the count does not grow.                        *)
LEMMA FewerListed == ASSUME ListedInv, Listed' \subseteq Listed PROVE ListedInv'
<1>1. IsFiniteSet(Listed)
  BY SubsAssumption, FS_Subset DEF Listed
<1>2. /\ Cardinality(Listed') \in Nat /\ Cardinality(Listed) \in Nat
      /\ Cardinality(Listed') <= Cardinality(Listed)
  BY <1>1, FS_Subset, FS_CardinalityType
<1> QED
  BY <1>2, MaxAssumption DEF ListedInv

(* One more is listed only below the cap.                                   *)
LEMMA SpawnListed ==
  ASSUME IInv, NEW c \in Subs, Spawn(c) PROVE ListedInv'
<1>1. IsFiniteSet(Listed)
  BY SubsAssumption, FS_Subset DEF Listed
<1>2. Listed' = Listed \cup {c} /\ c \notin Listed
  BY DEF Spawn, Listed, IInv, TypeOK
<1>3. Cardinality(Listed') = Cardinality(Listed) + 1
  BY <1>1, <1>2, FS_AddElement
<1>4. Cardinality(Listed) \in Nat /\ Cardinality(Listed) < Max
  BY <1>1, FS_CardinalityType, MaxAssumption DEF Spawn, Full
<1> QED
  BY <1>3, <1>4, MaxAssumption DEF ListedInv

LEMMA InvStep == ASSUME IInv, [Next]_vars PROVE IInv'
<1> USE DEF IInv
<1>1. CASE UNCHANGED vars
  BY <1>1 DEF vars, TypeOK, EntryInv, DriverInv, ListedInv, Listed
<1>2. ASSUME NEW c \in Subs, Spawn(c) PROVE IInv'
  <2>1. TypeOK'
    BY <1>2 DEF Spawn, TypeOK, EntryInv, DriverInv, Over, Alive
  <2>2. EntryInv' /\ DriverInv'
    BY <1>2 DEF Spawn, TypeOK, EntryInv, DriverInv, Over, Alive
  <2> QED
    BY <1>2, <2>1, <2>2, SpawnListed
<1>3. ASSUME NEW c \in Subs,
             \/ Drive(c) \/ Refuse(c) \/ Start(c) \/ StartRaises(c)
             \/ Launch(c) \/ LaunchFails(c) \/ Follow(c)
      PROVE IInv'
  <2> USE DEF Reports, Holds, Over, Alive
  <2>1. TypeOK'
    <3>1. CASE Drive(c)
      BY <3>1 DEF Drive, TypeOK, EntryInv, DriverInv
    <3>2. CASE Refuse(c)
      BY <3>2 DEF Refuse, TypeOK, EntryInv, DriverInv
    <3>3. CASE Start(c)
      BY <3>3 DEF Start, TypeOK, EntryInv, DriverInv
    <3>4. CASE StartRaises(c)
      BY <3>4 DEF StartRaises, TypeOK, EntryInv, DriverInv
    <3>5. CASE Launch(c)
      BY <3>5 DEF Launch, TypeOK, EntryInv, DriverInv
    <3>6. CASE LaunchFails(c)
      BY <3>6 DEF LaunchFails, TypeOK, EntryInv, DriverInv
    <3>7. CASE Follow(c)
      BY <3>7 DEF Follow, TypeOK, EntryInv, DriverInv
    <3> QED
      BY <1>3, <3>1, <3>2, <3>3, <3>4, <3>5, <3>6, <3>7
  <2>2. EntryInv' /\ DriverInv' /\ Listed' \subseteq Listed
    <3> USE DEF EntryInv, DriverInv, Listed
    <3>1. CASE Drive(c) \/ Refuse(c)
      BY <3>1 DEF Drive, Refuse, TypeOK
    <3>2. CASE Start(c) \/ StartRaises(c)
      BY <3>2 DEF Start, StartRaises, TypeOK
    <3>3. CASE Launch(c) \/ LaunchFails(c)
      BY <3>3 DEF Launch, LaunchFails, TypeOK
    <3>4. CASE Follow(c)
      BY <3>4 DEF Follow, TypeOK
    <3> QED
      BY <1>3, <3>1, <3>2, <3>3, <3>4
  <2> QED
    BY <2>1, <2>2, FewerListed
<1>4. ASSUME NEW c \in Subs, Begin(c) \/ Ends(c) \/ Settle(c) PROVE IInv'
  <2> USE DEF Holds, Over, Alive
  <2>1. TypeOK'
    <3>1. CASE Begin(c)
      BY <3>1 DEF Begin, TypeOK, EntryInv, DriverInv
    <3>2. CASE Ends(c)
      BY <3>2 DEF Ends, TypeOK, EntryInv, DriverInv
    <3>3. CASE Settle(c)
      BY <3>3 DEF Settle, TypeOK, EntryInv, DriverInv
    <3> QED
      BY <1>4, <3>1, <3>2, <3>3
  <2>2. EntryInv' /\ DriverInv' /\ Listed' \subseteq Listed
    BY <1>4 DEF Begin, Ends, Settle, TypeOK, EntryInv, DriverInv, Listed
  <2> QED
    BY <2>1, <2>2, FewerListed
<1>5. ASSUME NEW c \in Subs, ClientStops(c) PROVE IInv'
  <2> USE DEF Holds, Over, Alive
  <2>1. CASE Stop(c) /\ UNCHANGED <<user, status, driver, saved>>
    <3>1. TypeOK'
      BY <2>1 DEF Stop, TypeOK, EntryInv, DriverInv
    <3>2. EntryInv' /\ DriverInv' /\ Listed' \subseteq Listed
      BY <2>1 DEF Stop, TypeOK, EntryInv, DriverInv, Listed
    <3> QED
      BY <3>1, <3>2, FewerListed
  <2>2. CASE StopUser(c) /\ UNCHANGED <<turn, status, driver, saved>>
    <3>1. TypeOK'
      BY <2>2 DEF StopUser, TypeOK, EntryInv, DriverInv
    <3>2. EntryInv' /\ DriverInv' /\ Listed' \subseteq Listed
      BY <2>2 DEF StopUser, TypeOK, EntryInv, DriverInv, Listed
    <3> QED
      BY <3>1, <3>2, FewerListed
  <2> QED
    BY <1>5, <2>1, <2>2 DEF ClientStops
<1>6. ASSUME NEW c \in Subs, CancelTurn(c) PROVE IInv'
  BY <1>5, <1>6 DEF CancelTurn
<1>7. ASSUME NEW c \in Subs, CancelDriver(c) PROVE IInv'
  <2> USE DEF Reports, Holds, Over, Alive
  <2>1. TypeOK'
    BY <1>7 DEF CancelDriver, TypeOK, EntryInv, DriverInv
  <2>2. EntryInv' /\ DriverInv' /\ Listed' \subseteq Listed
    BY <1>7 DEF CancelDriver, TypeOK, EntryInv, DriverInv, Listed
  <2> QED
    BY <2>1, <2>2, FewerListed
<1>8. ASSUME NEW c \in Subs, UserRuns(c) \/ UserEnds(c) PROVE IInv'
  <2> USE DEF Holds, Over, Alive
  <2>1. TypeOK'
    <3>1. CASE UserRuns(c)
      BY <3>1 DEF UserRuns, TypeOK, EntryInv, DriverInv
    <3>2. CASE UserEnds(c)
      BY <3>2 DEF UserEnds, TypeOK, EntryInv, DriverInv
    <3> QED
      BY <1>8, <3>1, <3>2
  <2>2. EntryInv' /\ DriverInv' /\ Listed' \subseteq Listed
    BY <1>8 DEF UserRuns, UserEnds, TypeOK, EntryInv, DriverInv, Listed
  <2> QED
    BY <2>1, <2>2, FewerListed
<1> QED
  BY <1>1, <1>2, <1>3, <1>4, <1>5, <1>6, <1>7, <1>8 DEF Next
----
(* The inductive invariant holds in every reachable state.                  *)
THEOREM Invariance == Spec => []IInv
<1>1. IInv /\ [Next]_vars => IInv'
  BY InvStep
<1> QED
  BY <1>1, InitIInv, PTL DEF Spec

(* Every state is well typed: a child's lock is held by whoever runs on it. *)
THEOREM TypeCorrect == Spec => []TypeOK
<1>1. IInv => TypeOK
  BY DEF IInv
<1> QED
  BY <1>1, Invariance, PTL

(* A subagent that is reported over has no turn left that runs              *)
(* (_run_subagent).                                                         *)
THEOREM ReportsAreOver == Spec => []ReportedOver
<1>1. IInv => ReportedOver
  BY DEF IInv, EntryInv, DriverInv, ReportedOver
<1> QED
  BY <1>1, Invariance, PTL

(* At most MAX_SUBAGENTS drivers and turns run, for any cap: each of them   *)
(* belongs to an entry that is listed as running (subagent/spawn).          *)
THEOREM CapRespectedBySubagents == Spec => []CapHolds
<1>1. ASSUME IInv PROVE CapHolds
  <2>1. Busy \subseteq Listed
    BY <1>1 DEF IInv, Busy, Listed, TypeOK, EntryInv, DriverInv, Over, Alive
  <2>2. IsFiniteSet(Listed)
    BY SubsAssumption, FS_Subset DEF Listed
  <2>3. /\ Cardinality(Busy) \in Nat /\ Cardinality(Listed) \in Nat
        /\ Cardinality(Busy) <= Cardinality(Listed)
    BY <2>1, <2>2, FS_Subset, FS_CardinalityType
  <2> QED
    BY <1>1, <2>3, MaxAssumption DEF IInv, ListedInv, CapHolds, Busy
<1> QED
  BY <1>1, Invariance, PTL
----
(* McpClient                                                                *)

McpTypes ==
    /\ config \subseteq Names
    /\ made \in 0..Objects /\ servers \in [Names -> 0..made]
    /\ proc \in [Ids -> {"none", "alive", "exited"}]
    /\ failed \subseteq Ids /\ closing \subseteq 1..made /\ live \subseteq Ids
    /\ index \subseteq Names /\ tools \subseteq Names
    /\ job \in [Runs -> Jobs]
    /\ lost \subseteq Names /\ strays \subseteq Ids /\ edits \in 0..Edits

(* What a run goes through: objects while it stops all, names later; the    *)
(* object it is busy with exists.                                           *)
BringsUp == {"spawn", "shake", "started"}
RunShape(j) ==
    /\ j.todo \subseteq IF j.phase = "stop_all" THEN 1..made ELSE Names
    /\ j.pc \in BringsUp \cup {"stop", "list"} => j.srv \in 1..made
RunsInv ==
    /\ \A r \in Runs : RunShape(job[r])
    /\ \A r, q \in Runs : job[r].pc = "next" /\ job[q].pc = "next" => r = q

(* An object has one name and one run that brings it up.                    *)
OwnInv ==
    /\ \A l, n \in Names : servers[l] = servers[n] /\ l # n => servers[l] = 0
    /\ \A r, q \in Runs : /\ job[r].pc \in BringsUp /\ job[q].pc \in BringsUp
                          /\ job[r].srv = job[q].srv
                          => r = q

(* It has no process before the run that creates it has spawned one.        *)
ProcInv ==
    /\ \A s \in Ids : proc[s] = "alive" => s \in live /\ s <= made
    /\ \A r \in Runs : job[r].pc = "spawn" => proc[job[r].srv] # "alive"

(* What was not told to go is in the table, or left it on the record; what  *)
(* has yet to be spawned is so whatever it was told. A run that stops all   *)
(* has told, or still has to do, all that the table holds.                  *)
Kept(s) == s \in strays \/ \E n \in Names : servers[n] = s
StrayInv ==
    /\ \A s \in live \ closing : Kept(s)
    /\ \A r \in Runs : job[r].pc = "spawn" =>
         /\ Kept(job[r].srv)
         /\ job[r].srv \in closing => job[r].srv \in strays
    /\ \A r \in Runs : job[r].phase = "stop_all" /\ job[r].pc \notin {"idle", "over"} =>
         \A n \in Names : servers[n] \in {0} \cup closing \cup strays \cup job[r].todo

McpInv == McpTypes /\ RunsInv /\ OwnInv /\ ProcInv /\ StrayInv /\ ListedCallable

LEMMA McpInvType == McpInv => McpTypeOK
<1> SUFFICES ASSUME McpInv PROVE McpTypeOK
  OBVIOUS
<1>1. closing \subseteq Ids
  BY McpBoundAssumption DEF McpInv, McpTypes, Ids
<1> QED
  BY <1>1 DEF McpInv, McpTypes, OwnInv, BringsUp, ProcInv, McpTypeOK

LEMMA BlankJob ==
    ASSUME NEW pc \in {"idle", "over"}, NEW phase \in {"stop_all", "remove", "start"}
    PROVE  /\ Blank(pc, phase) \in Jobs
           /\ Blank(pc, phase).pc = pc /\ Blank(pc, phase).phase = phase
           /\ Blank(pc, phase).todo = {} /\ Blank(pc, phase).added = {}
<1>1. \E n \in Names : TRUE
  BY BootAssumption
<1>2. (CHOOSE n \in Names : TRUE) \in Names
  BY <1>1, Zenon
<1>3. 0 \in 0..Objects
  BY McpBoundAssumption
<1> QED
  BY <1>2, <1>3 DEF Blank, Jobs

LEMMA McpInitInv == McpInit => McpInv
<1> SUFFICES ASSUME McpInit PROVE McpInv
  OBVIOUS
<1>1. \A r \in Runs : /\ job[r] \in Jobs /\ job[r].pc = "idle" /\ job[r].todo = {}
  BY BlankJob DEF McpInit
<1>2. McpTypes
  <2>1. job \in [Runs -> Jobs]
    BY <1>1, BlankJob DEF McpInit
  <2>2. made \in 0..Objects /\ servers \in [Names -> 0..made] /\ edits \in 0..Edits
    BY McpBoundAssumption DEF McpInit
  <2> QED
    BY <2>1, <2>2 DEF McpInit, McpTypes
<1>3. RunsInv
  BY <1>1 DEF RunsInv, RunShape, BringsUp
<1>4. OwnInv
  BY <1>1 DEF McpInit, OwnInv, BringsUp
<1>5. ProcInv /\ StrayInv /\ ListedCallable
  BY <1>1 DEF McpInit, ProcInv, StrayInv, ListedCallable
<1> QED
  BY <1>2, <1>3, <1>4, <1>5 DEF McpInv

(* A run at another place of its loop.                                      *)
LEMMA ToFields ==
    ASSUME NEW j \in Jobs, NEW pc \in {"next", "over"} \cup Awaits
    PROVE  /\ To(j, pc) \in Jobs /\ To(j, pc).pc = pc
           /\ To(j, pc).phase = j.phase /\ To(j, pc).todo = j.todo
           /\ To(j, pc).wanted = j.wanted /\ To(j, pc).name = j.name
           /\ To(j, pc).srv = j.srv /\ To(j, pc).added = j.added
           /\ To(j, pc).removed = j.removed
  BY DEF To, Jobs

LEMMA GoesEffect ==
    ASSUME McpTypes, NEW r \in Runs, NEW k \in Jobs, Goes(r, k)
    PROVE  /\ job' \in [Runs -> Jobs] /\ job'[r] = k
           /\ \A q \in Runs : q # r => job'[q] = job[q]
  BY DEF McpTypes, Goes

(* A step of a run, as far as runs and the owners of objects go: names are  *)
(* given up or given to the object made in the step, which this run alone   *)
(* brings up.                                                               *)
LEMMA OwnFrame ==
    ASSUME McpInv, NEW r \in Runs, NEW k \in Jobs, Goes(r, k),
           made' \in {made, made + 1}, servers' \in [Names -> 0..made'],
           \A n \in Names : servers'[n] \in {0, servers[n], made + 1},
           \A l, n \in Names : servers'[l] = made + 1 /\ servers'[n] = made + 1 => l = n,
           RunShape(k)',
           k.pc = "next" => Quiet \/ job[r].pc = "next",
           k.pc \in BringsUp =>
               \/ job[r].pc \in BringsUp /\ k.srv = job[r].srv
               \/ k.srv = made + 1
    PROVE  RunsInv' /\ OwnInv'
<1>1. /\ job'[r] = k /\ \A q \in Runs : q # r => job'[q] = job[q]
  BY GoesEffect DEF McpInv
<1>2. made \in Nat /\ servers \in [Names -> 0..made]
  BY McpBoundAssumption DEF McpInv, McpTypes
<1>3. ASSUME NEW j \in Jobs, RunShape(j) PROVE RunShape(j)'
  BY <1>2, <1>3 DEF RunShape
<1>4. RunsInv'
  <2>1. ASSUME NEW q \in Runs PROVE RunShape(job[q])'
    <3>1. CASE q = r
      BY <1>1, <3>1 DEF RunShape
    <3>2. CASE q # r
      <4>1. PICK j \in Jobs : j = job[q] /\ j = job'[q] /\ RunShape(j)
        BY <1>1, <3>2 DEF McpInv, McpTypes, RunsInv
      <4>2. RunShape(j)'
        BY <1>3, <4>1
      <4> QED
        BY <4>1, <4>2 DEF RunShape
    <3> QED
      BY <3>1, <3>2
  <2>2. \A q, p \in Runs : job'[q].pc = "next" /\ job'[p].pc = "next" => q = p
    BY <1>1 DEF McpInv, RunsInv, Quiet
  <2> QED
    BY <2>1, <2>2 DEF RunsInv
<1>5. \A l, n \in Names : servers'[l] = servers'[n] /\ l # n => servers'[l] = 0
  BY <1>2 DEF McpInv, OwnInv
<1>6. \A q \in Runs : job[q].pc \in BringsUp => job[q].srv \in 1..made
  BY DEF McpInv, RunsInv, RunShape
<1>7. OwnInv'
  BY <1>1, <1>2, <1>5, <1>6 DEF McpInv, OwnInv
<1> QED
  BY <1>4, <1>7

(* As far as strays go: what leaves the table was told to go or is on the   *)
(* record, what enters it is made in the step.                              *)
LEMMA StrayFrame ==
    ASSUME McpInv, NEW r \in Runs, NEW k \in Jobs, Goes(r, k),
           made' \in Nat, made <= made',
           strays \subseteq strays', closing \subseteq closing', live' \subseteq live,
           \A n \in Names : servers'[n] # servers[n] =>
               servers[n] \in {0} \cup closing' \cup strays',
           \A q \in Runs \ {r} : job[q].pc = "spawn" /\ job[q].srv \in closing' =>
               job[q].srv \in strays',
           \A n \in Names : servers'[n] \notin {0, servers[n]} =>
               \A q \in Runs \ {r} : job[q].phase = "stop_all" /\ job[q].pc \notin {"idle", "over"} =>
                   servers'[n] \in strays',
           k.pc = "spawn" => k.srv \notin closing' /\ \E n \in Names : servers'[n] = k.srv,
           k.phase = "stop_all" /\ k.pc \notin {"idle", "over"} =>
               \A n \in Names : servers'[n] \in {0} \cup closing' \cup strays' \cup k.todo
    PROVE  StrayInv'
<1>1. /\ job'[r] = k /\ \A q \in Runs : q # r => job'[q] = job[q]
  BY GoesEffect DEF McpInv
<1>2. ASSUME NEW s \in Nat \ {0}, Kept(s), s \in closing' => s \in strays'
      PROVE  Kept(s)'
  BY <1>2 DEF Kept
<1>3. /\ live \subseteq Nat \ {0}
      /\ \A q \in Runs : job[q].pc = "spawn" => job[q].srv \in Nat \ {0}
  <2>1. made \in Nat /\ Ids \subseteq Nat \ {0}
    BY McpBoundAssumption DEF McpInv, McpTypes, Ids
  <2> QED
    BY <2>1 DEF McpInv, McpTypes, RunsInv, RunShape, BringsUp
<1>4. ASSUME NEW s \in live' \ closing' PROVE Kept(s)'
  BY <1>2, <1>3 DEF McpInv, StrayInv
<1>5. ASSUME NEW q \in Runs, NEW s, s = job'[q].srv, job'[q].pc = "spawn"
      PROVE  Kept(s)' /\ (s \in closing' => s \in strays')
  <2>1. CASE q = r
    BY <1>1, <1>5, <2>1 DEF Kept
  <2>2. CASE q # r
    <3>1. /\ s = job[q].srv /\ job[q].pc = "spawn" /\ s \in Nat \ {0}
          /\ Kept(s) /\ (s \in closing' => s \in strays')
      BY <1>1, <1>3, <1>5, <2>2 DEF McpInv, StrayInv
    <3> QED
      BY <1>2, <3>1
  <2> QED
    BY <2>1, <2>2
<1>6. ASSUME NEW q \in Runs, job'[q].phase = "stop_all", job'[q].pc \notin {"idle", "over"}
      PROVE  \A n \in Names :
               servers'[n] \in {0} \cup closing' \cup strays' \cup job'[q].todo
  BY <1>1, <1>6 DEF McpInv, StrayInv
<1> QED
  BY <1>4, <1>5, <1>6 DEF StrayInv, Kept

(* As far as the index goes: what it lists without a proxy this run will    *)
(* register, or is lost.                                                    *)
LEMMA ListedFrame ==
    ASSUME McpInv, NEW r \in Runs, NEW k \in Jobs, Goes(r, k), lost \subseteq lost',
           \A n \in index' \ lost' :
             \/ k.pc # "over" /\ n \in k.added
             \/ n \in index /\ n \in tools /\ n \in tools'
             \/ n \in index /\ n \notin tools /\ n \notin job[r].added
             \/ n \in tools'
    PROVE  ListedCallable'
<1>1. /\ job'[r] = k /\ \A q \in Runs : q # r => job'[q] = job[q]
  BY GoesEffect DEF McpInv
<1> QED
  BY <1>1 DEF McpInv, ListedCallable

(* A step of a run that leaves the table alone and begins no stop.          *)
LEMMA PlainStep ==
    ASSUME McpInv, NEW r \in Runs, NEW k \in Jobs, Goes(r, k),
           UNCHANGED <<config, servers, made, closing, strays, edits>>,
           proc' \in [Ids -> {"none", "alive", "exited"}],
           failed' \subseteq Ids, live' \subseteq live,
           index' \subseteq Names, tools' \subseteq Names, lost' \subseteq Names,
           \A s \in Ids : proc'[s] = "alive" => proc[s] = "alive" /\ s \in live',
           RunShape(k), k.pc = "next" => Quiet \/ job[r].pc = "next",
           k.pc # "spawn",
           k.pc \in BringsUp => job[r].pc \in BringsUp /\ k.srv = job[r].srv,
           k.phase = "stop_all" /\ k.pc \notin {"idle", "over"} =>
               \A n \in Names : servers[n] \in {0} \cup closing \cup strays \cup k.todo,
           ListedCallable'
    PROVE  McpInv'
<1>1. /\ job' \in [Runs -> Jobs] /\ job'[r] = k
      /\ \A q \in Runs : q # r => job'[q] = job[q]
  BY GoesEffect DEF McpInv
<1>2. McpTypes'
  BY <1>1 DEF McpInv, McpTypes
<1>3. RunShape(k)'
  BY DEF RunShape
<1>4. made \in Nat /\ Ids \subseteq Nat /\ 1..made \subseteq Ids
  BY McpBoundAssumption DEF McpInv, McpTypes, Ids
<1>5. RunsInv' /\ OwnInv'
  <2>1. servers' \in [Names -> 0..made'] /\ \A n \in Names : servers'[n] # made + 1
    BY <1>4 DEF McpInv, McpTypes
  <2> QED
    BY <1>3, <2>1, OwnFrame
<1>6. ProcInv'
  <2>1. \A q \in Runs : job[q].pc = "spawn" => job[q].srv \in Ids
    BY <1>4 DEF McpInv, RunsInv, RunShape, BringsUp
  <2> QED
    BY <1>1, <2>1 DEF McpInv, ProcInv
<1>7. StrayInv'
  <2>1. \A q \in Runs \ {r} : job[q].pc = "spawn" /\ job[q].srv \in closing =>
          job[q].srv \in strays
    BY DEF McpInv, StrayInv
  <2> QED
    BY <1>4, <2>1, StrayFrame
<1> QED
  BY <1>2, <1>5, <1>6, <1>7 DEF McpInv

LEMMA RunBeginsInv ==
    ASSUME McpInv, Quiet, NEW r \in Runs, RunBegins(r)
    PROVE  McpInv'
<1> USE DEF McpInv
<1>1. /\ job[r] \in Jobs /\ job[r].pc = "idle" /\ UNCHANGED <<tables, objects, histories>>
  BY DEF RunBegins, McpTypes
<1>2. made \in Nat /\ 1..made \subseteq Ids
  BY McpBoundAssumption DEF McpTypes, Ids
<1>3. PICK k \in Jobs :
        /\ Goes(r, k) /\ k.pc = "next" /\ k.phase = job[r].phase /\ k.added = job[r].added
        /\ \/ k.phase = "stop_all" /\ k.todo = Present
           \/ k.phase = "remove" /\ k.todo \subseteq Names
  <2> DEFINE j == To(job[r], "next")
  <2>1. /\ j \in Jobs /\ j.pc = "next" /\ j.phase = job[r].phase /\ j.added = job[r].added
    BY <1>1, ToFields
  <2> HIDE DEF j
  <2>2. CASE job[r].phase = "stop_all" /\ Goes(r, [j EXCEPT !.todo = Present])
    <3>1. Present \in SUBSET (Names \cup Ids)
      BY <1>2 DEF Present, Entered, McpTypes
    <3>2. /\ [j EXCEPT !.todo = Present] \in Jobs
          /\ [j EXCEPT !.todo = Present].pc = "next"
          /\ [j EXCEPT !.todo = Present].phase = "stop_all"
          /\ [j EXCEPT !.todo = Present].added = job[r].added
          /\ [j EXCEPT !.todo = Present].todo = Present
      BY <2>1, <2>2, <3>1 DEF Jobs
    <3> QED
      BY <2>2, <3>2
  <2>3. CASE /\ job[r].phase = "remove"
             /\ Goes(r, [j EXCEPT !.wanted = config, !.todo = Entered \ config])
    <3> DEFINE k == [j EXCEPT !.wanted = config, !.todo = Entered \ config]
    <3>1. config \in SUBSET Names /\ Entered \subseteq Names
      BY DEF McpTypes, Entered
    <3>2. k \in Jobs
      BY <2>1, <3>1 DEF Jobs
    <3>3. /\ k.pc = "next" /\ k.phase = "remove" /\ k.added = job[r].added
          /\ k.todo \subseteq Names
      BY <2>1, <2>3, <3>1 DEF Jobs
    <3> QED
      BY <2>3, <3>2, <3>3
  <2> QED
    BY <2>2, <2>3 DEF RunBegins, j
<1>4. Present \subseteq 1..made /\ \A n \in Names : servers[n] \in {0} \cup Present
  BY <1>2 DEF Present, Entered, McpTypes
<1>5. ListedCallable'
  BY <1>1, <1>3, ListedFrame DEF tables, histories
<1>6. RunShape(k)
  BY <1>3, <1>4 DEF RunShape, BringsUp
<1> QED
  BY <1>1, <1>3, <1>4, <1>5, <1>6, PlainStep
     DEF tables, objects, histories, McpTypes, ProcInv, BringsUp

(* The steps of a run to another place of its loop.                         *)
LEMMA AlongInv ==
    ASSUME McpInv, Quiet, NEW r \in Runs,
           StopNextEnds(r) \/ StartFails(r) \/ Shaken(r) \/ GoesOn(r)
    PROVE  McpInv'
<1> USE DEF McpInv
<1>1. /\ job[r] \in Jobs /\ job[r].pc \in Awaits
  BY DEF StopNextEnds, StartFails, Shaken, GoesOn, Stopping, McpTypes, Awaits
<1>2. made \in Nat /\ 1..made \subseteq Ids
  BY McpBoundAssumption DEF McpTypes, Ids
<1>3. job[r].pc \in {"stop", "spawn", "shake"} => job[r].srv \in Ids
  BY <1>2 DEF RunsInv, RunShape, BringsUp
<1>4. UNCHANGED <<config, servers, made, closing, strays, edits, index, tools, lost>>
  BY DEF StopNextEnds, StartFails, Shaken, GoesOn, StopEnds, tables, objects, histories
<1>5. PICK k \in Jobs :
        /\ Goes(r, k) /\ k.pc \in {"told", "next", "started"}
        /\ k.phase = job[r].phase /\ k.todo = job[r].todo /\ k.added = job[r].added
        /\ k.srv = job[r].srv
        /\ k.pc = "started" => job[r].pc = "shake"
  <2>1. CASE StopNextEnds(r)
    BY <1>1, <2>1, ToFields DEF StopNextEnds, Awaits
  <2>2. CASE StartFails(r)
    BY <1>1, <2>2, ToFields DEF StartFails, AfterFailure, Awaits
  <2>3. CASE Shaken(r)
    BY <1>1, <2>3, ToFields DEF Shaken, Awaits
  <2>4. CASE GoesOn(r)
    BY <1>1, <2>4, ToFields DEF GoesOn, Awaits
  <2> QED
    BY <2>1, <2>2, <2>3, <2>4
<1>6. /\ proc' \in [Ids -> {"none", "alive", "exited"}]
      /\ failed' \subseteq Ids /\ live' \subseteq live
      /\ \A s \in Ids : proc'[s] = "alive" => proc[s] = "alive" /\ s \in live'
  <2>1. CASE StopNextEnds(r)
    BY <1>3, <2>1 DEF StopNextEnds, Stopping, StopEnds, Without, McpTypes, ProcInv
  <2>2. CASE ~StopNextEnds(r)
    BY <1>3, <2>2 DEF StartFails, Shaken, GoesOn, objects, McpTypes, ProcInv
  <2> QED
    BY <2>1, <2>2
<1>7. ListedCallable'
  BY <1>4, <1>5, ListedFrame
<1>8. RunShape(job[r]) /\ RunShape(k)
  BY <1>5 DEF RunsInv, RunShape, BringsUp
<1>9. k.phase = "stop_all" =>
        \A n \in Names : servers[n] \in {0} \cup closing \cup strays \cup k.todo
  BY <1>1, <1>5 DEF StrayInv, Awaits
<1> QED
  BY <1>1, <1>4, <1>5, <1>6, <1>7, <1>8, <1>9, PlainStep DEF McpTypes, BringsUp

LEMMA AllRemovedInv ==
    ASSUME McpInv, NEW r \in Runs, AllRemoved(r)
    PROVE  McpInv'
<1> USE DEF McpInv
<1> DEFINE k == [job[r] EXCEPT !.phase = "start", !.todo = job[r].wanted]
<1>1. /\ job[r] \in Jobs /\ job[r].pc = "next" /\ Goes(r, k)
      /\ UNCHANGED <<tables, objects, histories>>
  BY DEF AllRemoved, At, McpTypes
<1>2. /\ k \in Jobs /\ k.pc = "next" /\ k.phase = "start" /\ k.added = job[r].added
      /\ k.todo \subseteq Names
  BY <1>1 DEF Jobs
<1> HIDE DEF k
<1>3. ListedCallable'
  BY <1>1, <1>2, ListedFrame DEF tables, histories
<1>4. RunShape(k)
  BY <1>2 DEF RunShape, BringsUp
<1> QED
  BY <1>1, <1>2, <1>3, <1>4, PlainStep
     DEF tables, objects, histories, McpTypes, ProcInv, BringsUp

LEMMA RegistersInv ==
    ASSUME McpInv, Quiet, NEW r \in Runs, Registers(r)
    PROVE  McpInv'
<1> USE DEF McpInv
<1> DEFINE j == To(job[r], "next")
           k == [j EXCEPT !.added = j.added \cup ({job[r].name} \ index)]
<1>1. /\ job[r] \in Jobs /\ job[r].pc \in {"started", "list"}
      /\ index' = index \cup {job[r].name}
      /\ UNCHANGED <<config, servers, tools, objects, histories>>
  BY DEF Registers, McpTypes
<1>2. /\ j \in Jobs /\ j.pc = "next" /\ j.phase = job[r].phase /\ j.todo = job[r].todo
      /\ j.srv = job[r].srv /\ j.added = job[r].added
  BY <1>1, ToFields
<1>3. Goes(r, k)
  BY DEF Registers
<1>4. job[r].name \in Names /\ j.added \subseteq Names
  BY <1>1, <1>2 DEF Jobs
<1> HIDE DEF j
<1>5. /\ k \in Jobs /\ k.pc = "next" /\ k.phase = job[r].phase /\ k.todo = job[r].todo
      /\ k.added = job[r].added \cup ({job[r].name} \ index)
  BY <1>2, <1>4 DEF Jobs
<1> HIDE DEF k
<1>6. ListedCallable'
  BY <1>1, <1>3, <1>5, ListedFrame DEF histories
<1>7. RunShape(job[r]) /\ RunShape(k)
  BY <1>5 DEF RunsInv, RunShape, BringsUp
<1>8. k.phase = "stop_all" =>
        \A n \in Names : servers[n] \in {0} \cup closing \cup strays \cup k.todo
  BY <1>1, <1>5 DEF StrayInv
<1> QED
  BY <1>1, <1>3, <1>4, <1>5, <1>6, <1>7, <1>8, PlainStep
     DEF objects, histories, McpTypes, ProcInv, BringsUp

(* The hook runs, or the run is cancelled: what it had yet to register has  *)
(* a proxy, or is lost.                                                     *)
LEMMA OverInv ==
    ASSUME McpInv, NEW r \in Runs, Finish(r) \/ Cut(r)
    PROVE  McpInv'
<1> USE DEF McpInv
<1> DEFINE k == Blank("over", "start")
<1>1. /\ k \in Jobs /\ k.pc = "over" /\ k.phase = "start" /\ k.todo = {}
  BY BlankJob
<1> HIDE DEF k
<1>2. job[r] \in Jobs /\ job[r].added \subseteq Names /\ job[r].removed \subseteq Names
  BY DEF McpTypes, Jobs
<1>3. made \in Nat /\ 1..made \subseteq Ids
  BY McpBoundAssumption DEF McpTypes, Ids
<1>4. RunShape(k)
  BY <1>1 DEF RunShape, BringsUp
<1>5. CASE Finish(r)
  <2>1. Goes(r, k)
    BY <1>5 DEF Finish, Returns, k
  <2>2. ListedCallable'
    BY <1>1, <1>5, <2>1, ListedFrame DEF Finish
  <2> QED
    BY <1>1, <1>2, <1>4, <1>5, <2>1, <2>2, PlainStep
       DEF Finish, objects, McpTypes, ProcInv, BringsUp
<1>6. CASE Cut(r)
  <2>1. Goes(r, k) /\ lost' = lost \cup job[r].added \cup job[r].removed
    BY <1>6 DEF Cut, Aborts, Returns, k
  <2>2. UNCHANGED <<tables, made, failed, closing, live, strays, edits>>
    BY <1>6 DEF Cut
  <2>3. ListedCallable'
    BY <1>1, <2>1, <2>2, ListedFrame DEF tables
  <2>4. /\ proc' \in [Ids -> {"none", "alive", "exited"}]
        /\ \A s \in Ids : proc'[s] = "alive" => proc[s] = "alive"
    <3>1. CASE job[r].pc = "stop"
      BY <1>6, <3>1 DEF Cut, Without, McpTypes
    <3>2. CASE job[r].pc # "stop"
      BY <1>6, <3>2 DEF Cut, McpTypes
    <3> QED
      BY <3>1, <3>2
  <2> QED
    BY <1>1, <1>2, <1>4, <2>1, <2>2, <2>3, <2>4, PlainStep
       DEF tables, McpTypes, ProcInv, BringsUp
<1> QED
  BY <1>5, <1>6

(* A step of a run that changes the table or tells an object to go.         *)
LEMMA TableStep ==
    ASSUME McpInv, NEW r \in Runs, NEW k \in Jobs, Goes(r, k),
           UNCHANGED <<config, tools, failed, edits>>,
           made' \in {made, made + 1}, made' <= Objects,
           servers' \in [Names -> 0..made'],
           \A n \in Names : servers'[n] \in {0, servers[n], made + 1},
           \A l, n \in Names : servers'[l] = made + 1 /\ servers'[n] = made + 1 => l = n,
           proc' \in [Ids -> {"none", "alive", "exited"}],
           \A s \in Ids : proc'[s] = "alive" => proc[s] = "alive" /\ s \in live',
           closing \subseteq closing', closing' \subseteq 1..made, live' \subseteq live,
           index' \subseteq index, lost \subseteq lost', lost' \subseteq Names,
           strays \subseteq strays', strays' \subseteq Ids,
           RunShape(k)', k.pc = "next" => job[r].pc = "next",
           k.pc \in BringsUp => /\ k.pc = "spawn" /\ k.srv = made + 1
                                /\ \E n \in Names : servers'[n] = made + 1,
           \A n \in Names : servers'[n] # servers[n] =>
               servers[n] \in {0} \cup closing' \cup strays',
           \A q \in Runs : job[q].pc = "spawn" /\ job[q].srv \in closing' =>
               job[q].srv \in strays',
           \A n \in Names : servers'[n] = made + 1 =>
               \A q \in Runs \ {r} : job[q].phase = "stop_all" /\ job[q].pc \notin {"idle", "over"} =>
                   made + 1 \in strays',
           k.phase = "stop_all" =>
               \A n \in Names : servers'[n] \in {0} \cup closing' \cup strays' \cup k.todo,
           IF k.pc = "over" THEN job[r].added \subseteq lost' ELSE k.added = job[r].added
    PROVE  McpInv'
<1>1. /\ job' \in [Runs -> Jobs] /\ job'[r] = k
      /\ \A q \in Runs : q # r => job'[q] = job[q]
  BY GoesEffect DEF McpInv
<1>2. made \in Nat /\ made' \in Nat /\ 1..made \subseteq Ids /\ made <= made'
  BY McpBoundAssumption DEF McpInv, McpTypes, Ids
<1>3. McpTypes'
  <2>1. made' \in 0..Objects /\ closing' \subseteq 1..made'
    BY <1>2, McpBoundAssumption
  <2> QED
    BY <1>1, <2>1 DEF McpInv, McpTypes
<1>4. RunsInv' /\ OwnInv'
  BY OwnFrame
<1>5. ProcInv'
  <2>1. \A s \in Ids : proc'[s] = "alive" => s \in live' /\ s <= made'
    BY <1>2 DEF McpInv, ProcInv, Ids
  <2>2. \A q \in Runs : job[q].pc = "spawn" => job[q].srv \in Ids /\ proc[job[q].srv] # "alive"
    BY <1>2 DEF McpInv, RunsInv, RunShape, BringsUp, ProcInv
  <2>3. k.pc = "spawn" => proc'[made + 1] # "alive"
    <3>1. made + 1 \in Ids => proc[made + 1] # "alive"
      BY <1>2 DEF McpInv, ProcInv
    <3>2. k.pc = "spawn" => made + 1 \in Ids
      BY <1>2, McpBoundAssumption DEF BringsUp, Ids
    <3> QED
      BY <3>1, <3>2
  <2> QED
    BY <1>1, <2>1, <2>2, <2>3 DEF ProcInv, BringsUp
<1>6. StrayInv'
  <2>1. k.pc = "spawn" => k.srv \notin closing' /\ \E n \in Names : servers'[n] = k.srv
    BY <1>2 DEF BringsUp
  <2> QED
    BY <1>2, <2>1, StrayFrame
<1>7. ListedCallable'
  BY ListedFrame
<1> QED
  BY <1>3, <1>4, <1>5, <1>6, <1>7 DEF McpInv

(* An object that is told to go: it joins closing, and an object that is    *)
(* still to be spawned is put on the record.                                *)
LEMMA ToldEffect ==
    ASSUME McpInv, NEW s \in 1..made, StopsNow(s) \/ StopBegins(s)
    PROVE  /\ closing' = closing \cup {s} /\ closing' \subseteq 1..made
           /\ proc' \in [Ids -> {"none", "alive", "exited"}]
           /\ \A p \in Ids : proc'[p] = "alive" => proc[p] = "alive" /\ p \in live
           /\ Unborn(s) \subseteq Ids
           /\ \A q \in Runs : job[q].pc = "spawn" /\ job[q].srv \in closing' =>
                job[q].srv \in strays \cup Unborn(s)
           /\ StopBegins(s) => Unborn(s) = {}
<1> USE DEF McpInv
<1>1. made \in Nat /\ 1..made \subseteq Ids
  BY McpBoundAssumption DEF McpTypes, Ids
<1>2. closing' = closing \cup {s} /\ closing' \subseteq 1..made
  BY <1>1 DEF StopsNow, StopBegins, McpTypes
<1>3. /\ proc' \in [Ids -> {"none", "alive", "exited"}]
      /\ \A p \in Ids : proc'[p] = "alive" => proc[p] = "alive" /\ p \in live
  BY <1>1 DEF StopsNow, StopBegins, Without, McpTypes, ProcInv
<1>4. Unborn(s) \subseteq Ids
  BY <1>1 DEF Unborn
<1>5. \A q \in Runs : job[q].pc = "spawn" /\ job[q].srv \in closing' =>
        job[q].srv \in strays \cup Unborn(s)
  BY <1>2 DEF StrayInv, Unborn
<1>6. StopBegins(s) => Unborn(s) = {}
  BY DEF StopBegins, Unborn, ProcInv
<1> QED
  BY <1>2, <1>3, <1>4, <1>5, <1>6

(* An object whose stop ends: its process is gone.                          *)
LEMMA GoneEffect ==
    ASSUME McpInv, NEW s \in 1..made, StopEnds(s)
    PROVE  /\ UNCHANGED <<failed, closing>> /\ live' \subseteq live
           /\ proc' \in [Ids -> {"none", "alive", "exited"}]
           /\ \A p \in Ids : proc'[p] = "alive" => proc[p] = "alive" /\ p \in live'
           /\ closing \subseteq 1..made
           /\ \A q \in Runs : job[q].pc = "spawn" /\ job[q].srv \in closing =>
                job[q].srv \in strays
<1>1. 1..made \subseteq Ids
  BY McpBoundAssumption DEF McpInv, McpTypes, Ids
<1> QED
  BY <1>1 DEF McpInv, StopEnds, Without, McpTypes, ProcInv, StrayInv

(* The next item of a run, and what it is busy with.                        *)
LEMMA TurnFields ==
    ASSUME NEW j \in Jobs, NEW todo \in SUBSET j.todo, NEW name \in Names,
           NEW srv \in 0..Objects
    PROVE  LET k == [j EXCEPT !.todo = todo, !.name = name, !.srv = srv]
           IN  /\ k \in Jobs /\ k.todo = todo /\ k.name = name /\ k.srv = srv
               /\ k.pc = j.pc /\ k.phase = j.phase
               /\ k.added = j.added /\ k.removed = j.removed
  BY DEF Jobs

LEMMA StopNextInv ==
    ASSUME McpInv, NEW r \in Runs, StopNext(r)
    PROVE  McpInv'
<1> USE DEF McpInv
<1>1. /\ job[r] \in Jobs /\ job[r].pc = "next" /\ job[r].phase = "stop_all"
      /\ job[r].todo \subseteq 1..made
      /\ UNCHANGED <<tables, made, failed, live, lost, edits>>
  BY DEF StopNext, At, McpTypes, RunsInv, RunShape
<1>2. PICK s \in job[r].todo :
        /\ strays' = strays \cup Unborn(s)
        /\ LET j == [job[r] EXCEPT !.todo = job[r].todo \ {s}, !.srv = s] IN
             \/ StopsNow(s) /\ Goes(r, To(j, "told"))
             \/ StopBegins(s) /\ Goes(r, To(j, "stop"))
  BY DEF StopNext
<1> DEFINE j == [job[r] EXCEPT !.todo = job[r].todo \ {s}, !.srv = s]
<1>3. made \in Nat /\ s \in 1..made /\ s \in 0..Objects /\ made <= Objects
  BY <1>1, <1>2, McpBoundAssumption DEF McpTypes
<1>4. /\ j \in Jobs /\ j.phase = "stop_all" /\ j.todo = job[r].todo \ {s} /\ j.srv = s
      /\ j.added = job[r].added
  BY <1>1, <1>3 DEF Jobs
<1>5. StopsNow(s) \/ StopBegins(s)
  BY <1>2
<1>6. PICK pc \in {"told", "stop"} : Goes(r, To(j, pc))
  BY <1>2
<1> HIDE DEF j
<1>7. PICK k \in Jobs :
        /\ Goes(r, k) /\ k.pc \in {"told", "stop"} /\ k.phase = "stop_all"
        /\ k.todo = job[r].todo \ {s} /\ k.srv = s /\ k.added = job[r].added
  BY <1>4, <1>6, ToFields DEF Awaits
<1>8. RunShape(k)'
  BY <1>1, <1>3, <1>7 DEF RunShape, BringsUp
<1>9. \A n \in Names : servers[n] \in {0} \cup closing' \cup strays \cup k.todo
  BY <1>1, <1>3, <1>5, <1>7, ToldEffect DEF StrayInv
<1>10. /\ servers \in [Names -> 0..made] /\ \A n \in Names : servers[n] # made + 1
       /\ strays \subseteq Ids /\ lost \subseteq Names
  BY <1>3 DEF McpTypes
<1> QED
  BY <1>1, <1>2, <1>3, <1>5, <1>7, <1>8, <1>9, <1>10, ToldEffect, TableStep
     DEF tables, BringsUp

(* The table is cleared: of what was told to go, or is on the record.       *)
LEMMA AllStoppedInv ==
    ASSUME McpInv, NEW r \in Runs, AllStopped(r)
    PROVE  McpInv'
<1> USE DEF McpInv
<1> DEFINE j == [job[r] EXCEPT !.phase = "start", !.todo = config, !.wanted = config]
<1>1. /\ job[r] \in Jobs /\ job[r].pc = "next" /\ job[r].phase = "stop_all"
      /\ job[r].todo = {} /\ Goes(r, j)
      /\ servers' = [n \in Names |-> 0] /\ index' = {}
      /\ UNCHANGED <<config, objects, tools, histories>>
  BY DEF AllStopped, At, McpTypes
<1>2. config \subseteq Names
  BY DEF McpTypes
<1>3. PICK k \in Jobs :
        /\ Goes(r, k) /\ k.pc = "next" /\ k.phase = "start" /\ k.added = job[r].added
        /\ k.todo \subseteq Names
  <2>1. /\ j \in Jobs /\ j.pc = "next" /\ j.phase = "start" /\ j.added = job[r].added
        /\ j.todo \subseteq Names
    BY <1>1, <1>2 DEF Jobs
  <2> QED
    BY <1>1, <2>1
<1> HIDE DEF j
<1>4. /\ made \in Nat /\ made <= Objects /\ closing \subseteq 1..made
      /\ proc \in [Ids -> {"none", "alive", "exited"}]
      /\ strays \subseteq Ids /\ lost \subseteq Names
      /\ \A s \in Ids : proc[s] = "alive" => s \in live
  BY McpBoundAssumption DEF McpTypes, ProcInv
<1>5. \A n \in Names : servers[n] \in {0} \cup closing \cup strays
  BY <1>1 DEF StrayInv
<1>6. \A q \in Runs : job[q].pc = "spawn" /\ job[q].srv \in closing => job[q].srv \in strays
  BY DEF StrayInv
<1>7. RunShape(k)'
  BY <1>3 DEF RunShape, BringsUp
<1>8. servers' \in [Names -> 0..made'] /\ \A n \in Names : servers'[n] = 0 /\ 0 # made + 1
  BY <1>1, <1>4 DEF objects
<1> QED
  BY <1>1, <1>3, <1>4, <1>5, <1>6, <1>7, <1>8, TableStep DEF objects, histories, BringsUp

(* A run that raises: nothing to do with the table, what it had yet to      *)
(* register is lost.                                                        *)
LEMMA AbortsEffect ==
    ASSUME McpInv, NEW r \in Runs, NEW j \in Jobs, Aborts(r, j), j.added = job[r].added
    PROVE  /\ lost \subseteq lost' /\ lost' \subseteq Names /\ job[r].added \subseteq lost'
           /\ \E k \in Jobs : /\ Goes(r, k) /\ k.pc = "over" /\ k.phase = "start"
                              /\ k.todo = {}
  BY BlankJob DEF McpInv, McpTypes, Jobs, Aborts, Returns

(* The name leaves the table, or the run raises as it had left it already.  *)
LEMMA DropsEffect ==
    ASSUME McpInv, NEW r \in Runs, NEW j \in Jobs, Drops(r, j),
           job[r].phase = "remove", j.phase = "remove", j.added = job[r].added,
           j.todo \subseteq Names
    PROVE  /\ servers' = [servers EXCEPT ![j.name] = 0] /\ index' \subseteq index
           /\ lost \subseteq lost' /\ lost' \subseteq Names
           /\ \E k \in Jobs : /\ Goes(r, k) /\ k.pc \in {"told", "over"}
                              /\ k.phase # "stop_all" /\ k.todo \subseteq Names
                              /\ IF k.pc = "over" THEN job[r].added \subseteq lost'
                                                  ELSE k.added = job[r].added
<1> DEFINE k == [To(j, "told") EXCEPT !.removed = To(j, "told").removed \cup (index \cap {j.name})]
<1>1. /\ k \in Jobs /\ k.pc = "told" /\ k.phase = "remove" /\ k.added = job[r].added
      /\ k.todo = j.todo
  <2>1. /\ To(j, "told") \in Jobs /\ To(j, "told").pc = "told"
        /\ To(j, "told").phase = j.phase /\ To(j, "told").added = j.added
        /\ To(j, "told").todo = j.todo
    BY ToFields DEF Awaits
  <2>2. j.name \in Names
    BY DEF Jobs
  <2> QED
    BY <2>1, <2>2 DEF Jobs
<1>2. /\ servers' = [servers EXCEPT ![j.name] = 0] /\ index' = index \ {j.name}
      /\ Aborts(r, k) \/ (Goes(r, k) /\ UNCHANGED lost)
  BY DEF Drops
<1> HIDE DEF k
<1>3. CASE Aborts(r, k)
  BY <1>1, <1>2, <1>3, AbortsEffect
<1>4. CASE Goes(r, k) /\ UNCHANGED lost
  BY <1>1, <1>2, <1>4 DEF McpInv, McpTypes
<1> QED
  BY <1>2, <1>3, <1>4

LEMMA RemoveNextInv ==
    ASSUME McpInv, NEW r \in Runs, RemoveNext(r)
    PROVE  McpInv'
<1> USE DEF McpInv
<1>1. /\ job[r] \in Jobs /\ job[r].pc = "next" /\ job[r].phase = "remove"
      /\ job[r].todo \subseteq Names
      /\ UNCHANGED <<config, tools, made, failed, live, edits>>
  BY DEF RemoveNext, At, McpTypes, RunsInv, RunShape
<1> DEFINE J(n, s) == [job[r] EXCEPT !.todo = job[r].todo \ {n}, !.name = n, !.srv = s]
<1>2. PICK n \in job[r].todo :
        \/ /\ servers[n] = 0 /\ Aborts(r, J(n, servers[n]))
           /\ UNCHANGED <<servers, index, closing, proc, strays>>
        \/ /\ servers[n] # 0 /\ StopsNow(servers[n]) /\ Drops(r, J(n, servers[n]))
           /\ strays' = strays \cup Unborn(servers[n])
        \/ /\ servers[n] # 0 /\ StopBegins(servers[n])
           /\ Goes(r, To(J(n, servers[n]), "stop"))
           /\ UNCHANGED <<servers, index, lost, strays>>
  BY DEF RemoveNext
<1>3. PICK s \in 0..made : s = servers[n]
  BY <1>1 DEF McpTypes
<1>4. /\ made \in Nat /\ made <= Objects /\ closing \subseteq 1..made
      /\ servers \in [Names -> 0..made] /\ strays \subseteq Ids /\ lost \subseteq Names
      /\ proc \in [Ids -> {"none", "alive", "exited"}]
      /\ \A p \in Ids : proc[p] = "alive" => p \in live
      /\ \A q \in Runs : job[q].pc = "spawn" /\ job[q].srv \in closing =>
           job[q].srv \in strays
  BY McpBoundAssumption DEF McpTypes, ProcInv, StrayInv
<1>5. PICK j \in Jobs :
        /\ j = J(n, s) /\ j.todo \subseteq Names /\ j.name = n /\ j.srv = s
        /\ j.phase = "remove" /\ j.added = job[r].added
  <2>1. n \in Names /\ s \in 0..Objects
    BY <1>1, <1>3, <1>4, McpBoundAssumption
  <2>2. job[r].todo \ {n} \in SUBSET job[r].todo /\ job[r].todo \ {n} \subseteq Names
    BY <1>1
  <2>3. J(n, s) \in Jobs
    BY <1>1, <2>1, <2>2 DEF Jobs
  <2>4. /\ J(n, s).todo = job[r].todo \ {n} /\ J(n, s).name = n /\ J(n, s).srv = s
        /\ J(n, s).phase = job[r].phase /\ J(n, s).added = job[r].added
    BY <1>1 DEF Jobs
  <2> HIDE DEF J
  <2> QED
    BY <1>1, <2>2, <2>3, <2>4
<1> HIDE DEF J
<1>6. CASE s = 0
  <2>1. Aborts(r, j) /\ UNCHANGED <<servers, index, closing, proc, strays>>
    BY <1>2, <1>3, <1>5, <1>6
  <2>2. /\ lost \subseteq lost' /\ lost' \subseteq Names /\ job[r].added \subseteq lost'
    BY <1>5, <2>1, AbortsEffect
  <2>3. PICK k \in Jobs :
          Goes(r, k) /\ k.pc = "over" /\ k.phase = "start" /\ k.todo = {}
    BY <1>5, <2>1, AbortsEffect
  <2>4. RunShape(k)'
    BY <2>3 DEF RunShape, BringsUp
  <2>5. \A l \in Names : servers[l] # made + 1
    BY <1>4
  <2> QED
    BY <1>1, <1>4, <2>1, <2>2, <2>3, <2>4, <2>5, TableStep DEF BringsUp
<1>7. CASE s # 0 /\ StopsNow(s) /\ Drops(r, j) /\ strays' = strays \cup Unborn(s)
  <2>1. s \in 1..made
    BY <1>3, <1>7
  <2>2. /\ servers' = [servers EXCEPT ![n] = 0] /\ index' \subseteq index
        /\ lost \subseteq lost' /\ lost' \subseteq Names
    BY <1>1, <1>5, <1>7, DropsEffect
  <2>3. PICK k \in Jobs :
          /\ Goes(r, k) /\ k.pc \in {"told", "over"}
          /\ k.phase # "stop_all" /\ k.todo \subseteq Names
          /\ IF k.pc = "over" THEN job[r].added \subseteq lost' ELSE k.added = job[r].added
    BY <1>1, <1>5, <1>7, DropsEffect
  <2>4. RunShape(k)'
    BY <2>3 DEF RunShape, BringsUp
  <2>5. /\ servers' \in [Names -> 0..made]
        /\ \A l \in Names : servers'[l] \in {0, servers[l]} /\ servers'[l] # made + 1
        /\ \A l \in Names : servers'[l] # servers[l] => servers[l] = s
    BY <1>1, <1>3, <1>4, <2>2
  <2> QED
    BY <1>1, <1>4, <1>7, <2>1, <2>2, <2>3, <2>4, <2>5, ToldEffect, TableStep DEF BringsUp
<1>8. CASE /\ s # 0 /\ StopBegins(s) /\ Goes(r, To(j, "stop"))
           /\ UNCHANGED <<servers, index, lost, strays>>
  <2>1. s \in 1..made
    BY <1>3, <1>8
  <2>2. PICK k \in Jobs :
          /\ Goes(r, k) /\ k.pc = "stop" /\ k.phase = "remove" /\ k.srv = s
          /\ k.todo \subseteq Names /\ k.added = job[r].added
    BY <1>5, <1>8, ToFields DEF Awaits
  <2>3. RunShape(k)'
    BY <1>1, <2>1, <2>2 DEF RunShape, BringsUp
  <2>4. \A l \in Names : servers[l] # made + 1
    BY <1>4
  <2> QED
    BY <1>1, <1>4, <1>8, <2>1, <2>2, <2>3, <2>4, ToldEffect, TableStep DEF BringsUp
<1> QED
  BY <1>2, <1>3, <1>5, <1>6, <1>7, <1>8

LEMMA RemoveNextEndsInv ==
    ASSUME McpInv, Quiet, NEW r \in Runs, RemoveNextEnds(r)
    PROVE  McpInv'
<1> USE DEF McpInv
<1>1. PICK j \in Jobs : j = job[r]
  BY DEF McpTypes
<1>2. /\ j.pc = "stop" /\ j.phase = "remove" /\ j.todo \subseteq Names
      /\ j.srv \in 1..made /\ j.name \in Names
      /\ StopEnds(j.srv) /\ Drops(r, j)
      /\ strays' = strays \cup Overtaken(j)
      /\ UNCHANGED <<config, tools, made, edits>>
  BY <1>1 DEF RemoveNextEnds, Stopping, RunsInv, RunShape, BringsUp, Jobs
<1>3. /\ made \in Nat /\ made <= Objects /\ 1..made \subseteq Ids
      /\ servers \in [Names -> 0..made] /\ strays \subseteq Ids
  BY McpBoundAssumption DEF McpTypes, Ids
<1>4. /\ servers' = [servers EXCEPT ![j.name] = 0] /\ index' \subseteq index
      /\ lost \subseteq lost' /\ lost' \subseteq Names
  BY <1>1, <1>2, DropsEffect
<1>5. PICK k \in Jobs :
        /\ Goes(r, k) /\ k.pc \in {"told", "over"}
        /\ k.phase # "stop_all" /\ k.todo \subseteq Names
        /\ IF k.pc = "over" THEN job[r].added \subseteq lost' ELSE k.added = job[r].added
  BY <1>1, <1>2, DropsEffect
<1>6. RunShape(k)'
  BY <1>5 DEF RunShape, BringsUp
<1>7. /\ strays' \subseteq Ids /\ strays \subseteq strays'
      /\ servers[j.name] \in {0} \cup closing \cup strays'
  BY <1>2, <1>3 DEF Overtaken
<1>8. /\ servers' \in [Names -> 0..made]
      /\ \A l \in Names : servers'[l] \in {0, servers[l]} /\ servers'[l] # made + 1
      /\ \A l \in Names : servers'[l] # servers[l] => l = j.name
  BY <1>2, <1>3, <1>4
<1> QED
  BY <1>2, <1>3, <1>4, <1>5, <1>6, <1>7, <1>8, GoneEffect, TableStep DEF BringsUp

(* A new object takes the name; a run that stops all and missed it is put   *)
(* on the record.                                                           *)
LEMMA CreatesEffect ==
    ASSUME McpInv, NEW r \in Runs, NEW j \in Jobs, Creates(r, j),
           Quiet \/ job[r].pc = "next", Untended(r) \subseteq strays',
           j.phase = "start", j.todo \subseteq Names, j.added = job[r].added
    PROVE  /\ made' = made + 1 /\ made' <= Objects
           /\ servers' \in [Names -> 0..made']
           /\ \A n \in Names : servers'[n] = IF n = j.name THEN made + 1 ELSE servers[n]
           /\ \A n \in Names : servers'[n] = made + 1 => n = j.name
           /\ Untended(r) \subseteq Ids
           /\ \A q \in Runs \ {r} :
                job[q].phase = "stop_all" /\ job[q].pc \notin {"idle", "over"} =>
                    made + 1 \in strays'
           /\ j.name \in Names
           /\ \E k \in Jobs : /\ Goes(r, k) /\ k.pc = "spawn" /\ k.srv = made + 1
                              /\ k.phase = "start" /\ k.todo \subseteq Names
                              /\ k.added = job[r].added
<1> USE DEF McpInv
<1>1. /\ made \in Nat /\ made < Objects /\ made + 1 \in 0..Objects /\ made + 1 \in Ids
      /\ servers \in [Names -> 0..made] /\ j.name \in Names
  BY McpBoundAssumption DEF McpTypes, Creates, Jobs, Ids
<1>2. /\ made' = made + 1 /\ servers' = [servers EXCEPT ![j.name] = made + 1]
      /\ Goes(r, [To(j, "spawn") EXCEPT !.srv = made + 1])
  BY DEF Creates
<1>3. /\ servers' \in [Names -> 0..made'] /\ made' <= Objects
      /\ \A n \in Names : servers'[n] = IF n = j.name THEN made + 1 ELSE servers[n]
      /\ \A n \in Names : servers'[n] = made + 1 => n = j.name
  BY <1>1, <1>2
<1>4. Untended(r) \subseteq Ids
  BY <1>1 DEF Untended
<1>5. ASSUME NEW q \in Runs \ {r}, job[q].phase = "stop_all", job[q].pc \notin {"idle", "over"}
      PROVE  made + 1 \in strays'
  <2>1. job[q].pc # "next"
    BY DEF Quiet, RunsInv
  <2>2. job[q].pc \in Awaits
    BY <1>5, <2>1 DEF McpTypes, Jobs
  <2> QED
    BY <1>5, <2>2 DEF Untended
<1>6. \E k \in Jobs : /\ Goes(r, k) /\ k.pc = "spawn" /\ k.srv = made + 1
                     /\ k.phase = "start" /\ k.todo \subseteq Names
                     /\ k.added = job[r].added
  <2>1. PICK i \in Jobs : /\ i = To(j, "spawn") /\ i.pc = "spawn" /\ i.phase = "start"
                          /\ i.todo \subseteq Names /\ i.added = job[r].added
    BY ToFields DEF Awaits
  <2> DEFINE k == [i EXCEPT !.srv = made + 1]
  <2>2. k \in Jobs
    BY <1>1 DEF Jobs
  <2>3. /\ k.pc = "spawn" /\ k.srv = made + 1 /\ k.phase = "start"
        /\ k.todo \subseteq Names /\ k.added = job[r].added
    BY <2>1 DEF Jobs
  <2>4. Goes(r, k)
    BY <1>2, <2>1
  <2> QED
    BY <2>2, <2>3, <2>4
<1> QED
  BY <1>1, <1>2, <1>3, <1>4, <1>5, <1>6

(* A run that gives a name to a new object: the one it takes it from was    *)
(* told to go, or is put on the record.                                     *)
LEMMA CreatesInv ==
    ASSUME McpInv, NEW r \in Runs, NEW j \in Jobs, Creates(r, j),
           Quiet \/ job[r].pc = "next",
           j.phase = "start", j.todo \subseteq Names, j.added = job[r].added,
           UNCHANGED <<config, index, tools, failed, lost, edits>>,
           proc' \in [Ids -> {"none", "alive", "exited"}],
           \A s \in Ids : proc'[s] = "alive" => proc[s] = "alive" /\ s \in live',
           closing \subseteq closing', closing' \subseteq 1..made, live' \subseteq live,
           strays \cup Untended(r) \subseteq strays',
           strays' \subseteq Ids \cup Untended(r),
           servers[j.name] \in {0} \cup closing' \cup strays',
           \A q \in Runs : job[q].pc = "spawn" /\ job[q].srv \in closing' =>
               job[q].srv \in strays'
    PROVE  McpInv'
<1>1. /\ made' = made + 1 /\ made' <= Objects
      /\ servers' \in [Names -> 0..made']
      /\ \A n \in Names : servers'[n] = IF n = j.name THEN made + 1 ELSE servers[n]
      /\ \A n \in Names : servers'[n] = made + 1 => n = j.name
      /\ Untended(r) \subseteq Ids /\ j.name \in Names
      /\ \A q \in Runs \ {r} :
           job[q].phase = "stop_all" /\ job[q].pc \notin {"idle", "over"} =>
               made + 1 \in strays'
  BY CreatesEffect
<1>2. PICK k \in Jobs : /\ Goes(r, k) /\ k.pc = "spawn" /\ k.srv = made + 1
                        /\ k.phase = "start" /\ k.todo \subseteq Names
                        /\ k.added = job[r].added
  BY CreatesEffect
<1>3. made \in Nat /\ lost \subseteq Names
  BY McpBoundAssumption DEF McpInv, McpTypes
<1>4. RunShape(k)'
  BY <1>1, <1>2, <1>3 DEF RunShape, BringsUp
<1>5. strays \subseteq strays' /\ strays' \subseteq Ids
  BY <1>1
<1>6. \E n \in Names : servers'[n] = made + 1
  BY <1>1
<1> QED
  BY <1>1, <1>2, <1>3, <1>4, <1>5, <1>6, TableStep

LEMMA StartNextInv ==
    ASSUME McpInv, NEW r \in Runs, StartNext(r)
    PROVE  McpInv'
<1> USE DEF McpInv
<1>1. /\ job[r] \in Jobs /\ job[r].pc = "next" /\ job[r].phase = "start"
      /\ job[r].todo \subseteq Names
      /\ UNCHANGED <<config, index, tools, failed, live, lost, edits>>
  BY DEF StartNext, At, McpTypes, RunsInv, RunShape
<1> DEFINE J(n, s) == [job[r] EXCEPT !.todo = job[r].todo \ {n}, !.name = n, !.srv = s]
<1>2. PICK n \in job[r].todo :
        LET s == servers[n] IN
        \/ /\ Running(s) /\ Goes(r, To(J(n, s), "list"))
           /\ UNCHANGED <<servers, made, closing, proc, strays>>
        \/ /\ s \in failed /\ StopBegins(s) /\ Goes(r, To(J(n, s), "stop"))
           /\ UNCHANGED <<servers, made, strays>>
        \/ /\ s # 0 /\ StopsNow(s) /\ Creates(r, J(n, s))
           /\ strays' = strays \cup Untended(r) \cup Unborn(s)
        \/ /\ s = 0 /\ Creates(r, J(n, s))
           /\ strays' = strays \cup Untended(r)
           /\ UNCHANGED <<closing, proc>>
  BY DEF StartNext
<1>3. PICK s \in 0..made : s = servers[n]
  BY <1>1 DEF McpTypes
<1>4. /\ made \in Nat /\ made <= Objects /\ 1..made \subseteq Ids /\ 0 \notin Ids
      /\ closing \subseteq 1..made /\ failed \subseteq Ids
      /\ servers \in [Names -> 0..made] /\ strays \subseteq Ids /\ lost \subseteq Names
      /\ proc \in [Ids -> {"none", "alive", "exited"}]
      /\ \A p \in Ids : proc[p] = "alive" => p \in live
      /\ \A q \in Runs : job[q].pc = "spawn" /\ job[q].srv \in closing =>
           job[q].srv \in strays
  BY McpBoundAssumption DEF McpTypes, ProcInv, StrayInv, Ids
<1>5. PICK j \in Jobs :
        /\ j = J(n, s) /\ j.todo \subseteq Names /\ j.name = n /\ j.srv = s
        /\ j.phase = "start" /\ j.added = job[r].added
  <2>1. n \in Names /\ s \in 0..Objects
    BY <1>1, <1>3, <1>4, McpBoundAssumption
  <2>2. job[r].todo \ {n} \in SUBSET job[r].todo /\ job[r].todo \ {n} \subseteq Names
    BY <1>1
  <2>3. J(n, s) \in Jobs
    BY <1>1, <2>1, <2>2 DEF Jobs
  <2>4. /\ J(n, s).todo = job[r].todo \ {n} /\ J(n, s).name = n /\ J(n, s).srv = s
        /\ J(n, s).phase = job[r].phase /\ J(n, s).added = job[r].added
    BY <1>1 DEF Jobs
  <2> HIDE DEF J
  <2> QED
    BY <1>1, <2>2, <2>3, <2>4
<1> HIDE DEF J
<1>6. \A l \in Names : servers[l] # made + 1
  BY <1>4
<1>7. CASE /\ Running(s) /\ Goes(r, To(j, "list"))
           /\ UNCHANGED <<servers, made, closing, proc, strays>>
  <2>1. s \in 1..made
    BY <1>3, <1>7 DEF Running
  <2>2. PICK k \in Jobs :
          /\ Goes(r, k) /\ k.pc = "list" /\ k.phase = "start" /\ k.srv = s
          /\ k.todo \subseteq Names /\ k.added = job[r].added
    BY <1>5, <1>7, ToFields DEF Awaits
  <2>3. RunShape(k)'
    BY <1>7, <2>1, <2>2 DEF RunShape, BringsUp
  <2> QED
    BY <1>1, <1>4, <1>6, <1>7, <2>2, <2>3, TableStep DEF BringsUp
<1>8. CASE /\ s \in failed /\ StopBegins(s) /\ Goes(r, To(j, "stop"))
           /\ UNCHANGED <<servers, made, strays>>
  <2>1. s \in 1..made
    BY <1>3, <1>4, <1>8
  <2>2. PICK k \in Jobs :
          /\ Goes(r, k) /\ k.pc = "stop" /\ k.phase = "start" /\ k.srv = s
          /\ k.todo \subseteq Names /\ k.added = job[r].added
    BY <1>5, <1>8, ToFields DEF Awaits
  <2>3. RunShape(k)'
    BY <1>8, <2>1, <2>2 DEF RunShape, BringsUp
  <2> QED
    BY <1>1, <1>4, <1>6, <1>8, <2>1, <2>2, <2>3, ToldEffect, TableStep DEF BringsUp
<1>9. CASE /\ s # 0 /\ StopsNow(s) /\ Creates(r, j)
           /\ strays' = strays \cup Untended(r) \cup Unborn(s)
  <2>1. s \in 1..made
    BY <1>3, <1>9
  <2>2. s \in closing' /\ strays' \subseteq Ids \cup Untended(r)
    BY <1>4, <1>9, <2>1, ToldEffect
  <2> QED
    BY <1>1, <1>3, <1>5, <1>9, <2>1, <2>2, ToldEffect, CreatesInv
<1>10. CASE /\ s = 0 /\ Creates(r, j) /\ strays' = strays \cup Untended(r)
            /\ UNCHANGED <<closing, proc>>
  BY <1>1, <1>3, <1>4, <1>5, <1>10, CreatesInv
<1> QED
  BY <1>2, <1>3, <1>5, <1>7, <1>8, <1>9, <1>10

LEMMA StartNextStoppedInv ==
    ASSUME McpInv, Quiet, NEW r \in Runs, StartNextStopped(r)
    PROVE  McpInv'
<1> USE DEF McpInv
<1>1. PICK j \in Jobs : j = job[r]
  BY DEF McpTypes
<1>2. /\ j.pc = "stop" /\ j.phase = "start" /\ j.todo \subseteq Names
      /\ j.srv \in 1..made /\ j.name \in Names
      /\ StopEnds(j.srv) /\ Creates(r, j)
      /\ strays' = strays \cup Untended(r) \cup Overtaken(j)
      /\ UNCHANGED <<config, index, tools, lost, edits>>
  BY <1>1 DEF StartNextStopped, Stopping, RunsInv, RunShape, BringsUp, Jobs
<1>3. /\ made \in Nat /\ 1..made \subseteq Ids
      /\ servers \in [Names -> 0..made] /\ strays \subseteq Ids
  BY McpBoundAssumption DEF McpTypes, Ids
<1>4. /\ strays' \subseteq Ids \cup Untended(r)
      /\ servers[j.name] \in {0} \cup closing \cup strays'
  BY <1>2, <1>3 DEF Overtaken
<1> QED
  BY <1>1, <1>2, <1>4, GoneEffect, CreatesInv

(* A process starts: its object is in the table or on the record, whatever  *)
(* it was told before.                                                      *)
LEMMA SpawnedInv ==
    ASSUME McpInv, Quiet, NEW r \in Runs, Spawned(r)
    PROVE  McpInv'
<1> USE DEF McpInv
<1>1. PICK s \in 1..made : s = job[r].srv
  BY DEF Spawned, RunsInv, RunShape, BringsUp
<1>2. /\ job[r].pc = "spawn" /\ job[r] \in Jobs
      /\ proc' = [proc EXCEPT ![s] = "alive"] /\ live' = live \cup {s}
      /\ closing' = closing \ {s} /\ Goes(r, To(job[r], "shake"))
      /\ UNCHANGED <<tables, made, failed, histories>>
  BY <1>1 DEF Spawned, McpTypes
<1>3. PICK k \in Jobs :
        /\ Goes(r, k) /\ k.pc = "shake" /\ k.phase = job[r].phase /\ k.srv = s
        /\ k.todo = job[r].todo /\ k.added = job[r].added
  BY <1>1, <1>2, ToFields DEF Awaits
<1>4. /\ job' \in [Runs -> Jobs] /\ job'[r] = k
      /\ \A q \in Runs : q # r => job'[q] = job[q]
  BY <1>3, GoesEffect
<1>5. /\ made \in Nat /\ 1..made \subseteq Ids /\ s \in Nat
      /\ \A n \in Names : servers[n] # made + 1
  BY McpBoundAssumption DEF McpTypes, Ids
<1>6. McpTypes'
  BY <1>2, <1>4, <1>5 DEF McpTypes, tables, histories
<1>7. RunsInv' /\ OwnInv'
  <2>1. RunShape(k)'
    <3>1. RunShape(job[r])
      BY DEF RunsInv
    <3> QED
      BY <1>1, <1>2, <1>3, <3>1 DEF RunShape, BringsUp
  <2>2. servers' \in [Names -> 0..made']
    BY <1>2 DEF tables, McpTypes
  <2> QED
    BY <1>1, <1>2, <1>3, <1>5, <2>1, <2>2, OwnFrame DEF tables, BringsUp
<1>8. ProcInv'
  <2>1. \A q \in Runs : job[q].pc = "spawn" /\ q # r => job[q].srv # s /\ job[q].srv \in Ids
    BY <1>1, <1>2, <1>5 DEF OwnInv, BringsUp, RunsInv, RunShape
  <2>2. \A q \in Runs : job'[q].pc = "spawn" =>
          q # r /\ job'[q].srv # s /\ job'[q].srv \in Ids /\ proc[job'[q].srv] # "alive"
    BY <1>3, <1>4, <2>1 DEF ProcInv
  <2>3. \A p \in Ids : proc'[p] = "alive" => p \in live' /\ p <= made'
    BY <1>2, <1>5 DEF ProcInv, McpTypes, Ids
  <2> QED
    BY <1>2, <2>2, <2>3 DEF ProcInv, McpTypes
<1>9. StrayInv'
  <2>1. Kept(s) /\ (s \in closing => s \in strays)
    BY <1>1, <1>2 DEF StrayInv
  <2>2. ASSUME NEW p, Kept(p) PROVE Kept(p)'
    BY <1>2, <2>2 DEF Kept, tables, histories
  <2>3. ASSUME NEW p \in live' \ closing' PROVE Kept(p)'
    BY <1>2, <2>1, <2>2 DEF StrayInv
  <2>4. ASSUME NEW q \in Runs, NEW p, p = job'[q].srv, job'[q].pc = "spawn"
        PROVE  Kept(p)' /\ (p \in closing' => p \in strays')
    <3>1. q # r /\ p = job[q].srv /\ job[q].pc = "spawn"
      BY <1>3, <1>4, <2>4
    <3>2. Kept(p) /\ (p \in closing => p \in strays)
      BY <3>1 DEF StrayInv
    <3> QED
      BY <1>2, <2>2, <3>2 DEF histories
  <2>5. ASSUME NEW q \in Runs, job'[q].phase = "stop_all", job'[q].pc \notin {"idle", "over"}
        PROVE  \A n \in Names :
                 servers'[n] \in {0} \cup closing' \cup strays' \cup job'[q].todo
    <3>1. /\ job[q].phase = "stop_all" /\ job[q].pc \notin {"idle", "over"}
          /\ job'[q].todo = job[q].todo
      BY <1>2, <1>3, <1>4, <2>5
    <3>2. \A n \in Names : servers[n] \in {0} \cup closing \cup strays \cup job[q].todo
      BY <3>1 DEF StrayInv
    <3> QED
      BY <1>2, <2>1, <3>1, <3>2 DEF tables, histories
  <2> QED
    BY <2>3, <2>4, <2>5 DEF StrayInv, Kept
<1>10. ListedCallable'
  BY <1>2, <1>3, ListedFrame DEF tables, histories
<1> QED
  BY <1>6, <1>7, <1>8, <1>9, <1>10

(* A process ends by itself, the file is edited: neither is a run's step.   *)
LEMMA OutsideInv ==
    ASSUME McpInv, \/ \E s \in Ids : Exits(s)
                   \/ \E c \in SUBSET Names \ {config} : Edit(c)
                   \/ UNCHANGED mcpVars
    PROVE  McpInv'
<1> USE DEF McpInv
<1>1. /\ UNCHANGED <<servers, made, closing, job, index, tools, lost, strays>>
      /\ config' \subseteq Names /\ edits' \in 0..Edits
      /\ failed' \subseteq Ids /\ live' \subseteq live
      /\ proc' \in [Ids -> {"none", "alive", "exited"}]
      /\ \A s \in Ids : proc'[s] = "alive" => proc[s] = "alive" /\ s \in live'
  <2>1. ASSUME NEW s \in Ids, Exits(s)
        PROVE  /\ UNCHANGED <<tables, made, closing, job, histories>>
               /\ failed' \subseteq Ids /\ live' \subseteq live
               /\ proc' \in [Ids -> {"none", "alive", "exited"}]
               /\ \A p \in Ids : proc'[p] = "alive" => proc[p] = "alive" /\ p \in live'
    BY <2>1 DEF Exits, McpTypes, ProcInv
  <2>2. CASE \E s \in Ids : Exits(s)
    BY <2>1, <2>2 DEF tables, histories, McpTypes
  <2>3. CASE \E c \in SUBSET Names \ {config} : Edit(c)
    BY <2>3, McpBoundAssumption DEF Edit, objects, McpTypes, ProcInv
  <2>4. CASE UNCHANGED mcpVars
    BY <2>4 DEF mcpVars, tables, objects, histories, McpTypes, ProcInv
  <2> QED
    BY <2>2, <2>3, <2>4
<1>2. \A r \in Runs : job[r].pc = "spawn" => job[r].srv \in Ids
  BY McpBoundAssumption DEF McpTypes, RunsInv, RunShape, BringsUp, Ids
<1>3. McpTypes' /\ RunsInv' /\ OwnInv'
  BY <1>1 DEF McpTypes, RunsInv, RunShape, OwnInv
<1>4. ProcInv'
  BY <1>1, <1>2 DEF ProcInv
<1>5. StrayInv' /\ ListedCallable'
  BY <1>1 DEF StrayInv, Kept, ListedCallable
<1> QED
  BY <1>3, <1>4, <1>5

LEMMA McpNextInv == McpInv /\ [McpNext]_mcpVars => McpInv'
<1> SUFFICES ASSUME McpInv, [McpNext]_mcpVars PROVE McpInv'
  OBVIOUS
<1>1. ASSUME NEW r \in Runs,
             \/ StopNext(r) \/ AllStopped(r) \/ RemoveNext(r) \/ AllRemoved(r)
             \/ StartNext(r) \/ Finish(r)
      PROVE  McpInv'
  BY <1>1, StopNextInv, AllStoppedInv, RemoveNextInv, AllRemovedInv, StartNextInv, OverInv
<1>2. ASSUME Quiet, NEW r \in Runs,
             \/ RunBegins(r) \/ GoesOn(r) \/ Cut(r)
             \/ StopNextEnds(r) \/ RemoveNextEnds(r) \/ StartNextStopped(r)
             \/ Spawned(r) \/ StartFails(r) \/ Shaken(r) \/ Registers(r)
      PROVE  McpInv'
  BY <1>2, RunBeginsInv, AlongInv, OverInv, RemoveNextEndsInv, StartNextStoppedInv,
     SpawnedInv, RegistersInv
<1> QED
  BY <1>1, <1>2, OutsideInv DEF McpNext

(* Objects are brought up by one run each and have one name; what runs and  *)
(* was not told to go is in the table or left it on the record.             *)
THEOREM McpInvariance == McpSpec => []McpInv
<1> QED
  BY McpInitInv, McpNextInv, PTL DEF McpSpec

(* An object is in one place of the table and brought up by one run.        *)
THEOREM McpTypeCorrect == McpSpec => []McpTypeOK
<1> QED
  BY McpInvariance, McpInvType, PTL

(* A process that nobody told to go is that of a server in the table, where *)
(* a stop finds it, unless a run took it out without having stopped it.     *)
THEOREM NoStrays == McpSpec => []NoStrayProcess
<1>1. McpInv => NoStrayProcess
  BY DEF McpInv, StrayInv, Kept, NoStrayProcess
<1> QED
  BY <1>1, McpInvariance, PTL

(* A listed tool has a proxy or a run that is about to give it one, unless  *)
(* the run that listed it was cut short or overtaken.                       *)
THEOREM ListedAreCallable == McpSpec => []ListedCallable
<1>1. McpInv => ListedCallable
  BY DEF McpInv
<1> QED
  BY <1>1, McpInvariance, PTL
====
