------------------------ MODULE BotSupervisorProofs ------------------------
(* Proofs about BotSupervisor, for every set of bots, pids and threads.     *)
EXTENDS BotSupervisor, FiniteSetTheorems, TLAPS

(* The inductive invariant. Unless operations on a bot overlapped, one      *)
(* thread at most holds what it read of the bot, and that is still so: no   *)
(* copy runs when it is about to spawn one or to delete the pid file, and   *)
(* only the copy it names when it is about to write or to kill. What the    *)
(* files list the user asked for, and a stopped bot is on no thread's way.  *)
Starting == {"ensure", "start", "start listed"}
OpInv == \A t \in Threads :
    /\ job[t].pc \in {"check", "spawn", "write"} => job[t].op \in Starting
    /\ job[t].pc \in {"kill", "delete"} => job[t].op = "stop"
    /\ job[t].pc = "merge" => job[t].op = "start listed"
    /\ job[t].pc = "save" => job[t].op \in {"list", "start listed"}
    /\ job[t].op = "list" => job[t].pc = "save" /\ job[t].todo = job[t].names
HoldInv == \A b \in Bots \ raced : \A t, u \in Threads :
    Holds(t, b) /\ Holds(u, b) => t = u
FirmInv == \A b \in Bots \ raced : \A t \in Threads :
    job[t].bot = b =>
      /\ job[t].pc \in {"spawn", "delete"} => Copies(b) = {}
      /\ job[t].pc \in {"write", "kill"} => Copies(b) \subseteq {job[t].pid}
ListInv == \A b \in Bots \ raced :
    /\ b \in Autostart => b \in intended
    /\ \A t \in Threads :
         job[t].op = "start listed" /\ job[t].pc = "save" /\ b \in job[t].todo
           => b \in intended \cup job[t].names
WillStart(t, b) ==
    /\ job[t].op \in Starting /\ job[t].pc \notin {"merge", "save"}
    /\ job[t].bot = b \/ b \in job[t].todo
StopInv == \A b \in stopped \ raced :
    /\ Copies(b) = {} /\ b \notin intended
    /\ \A t \in Threads : ~ WillStart(t, b)

IInv ==
    /\ TypeOK /\ OpInv /\ HoldInv /\ FirmInv /\ Supervised
    /\ ListInv /\ StopInv

(* The parts of TypeOK.                                                     *)
DataOK ==
    /\ proc \in [Pids -> Bots \cup {Guest, NoProcess}]
    /\ pidFile \in [Bots -> Pids \cup {NoPid}]
    /\ canonical \subseteq Bots /\ legacy \subseteq Bots
    /\ deadStreak \in [Bots -> 0..4]
    /\ deaths \in 0..MaxDeaths
    /\ intended \subseteq Bots /\ stopped \subseteq Bots /\ raced \subseteq Bots
JobOK(t) ==
    /\ job[t].pc \in {"check", "spawn", "write", "kill", "delete"}
         => job[t].bot \in Bots
    /\ job[t].pc \in {"write", "kill"} => job[t].pid \in Pids
    /\ t \in Ensurers => job[t].op \in {"none", "ensure"}
    /\ t \in Commanders => job[t].op # "ensure"
JobsOK == job \in [Threads -> Jobs] /\ \A t \in Threads : JobOK(t)

LEMMA TypeParts == TypeOK <=> DataOK /\ armed \in BOOLEAN /\ JobsOK
  BY DEF TypeOK, DataOK, JobsOK, JobOK

LEMMA TypePartsNext == TypeOK' <=> DataOK' /\ armed' \in BOOLEAN /\ JobsOK'
  BY DEF TypeOK, DataOK, JobsOK, JobOK

LEMMA IdleJob == Idle \in Jobs
  BY DEF Idle, Jobs, Ops

LEMMA InitIInv == Init => IInv
<1> SUFFICES ASSUME Init PROVE IInv
    OBVIOUS
<1>1. \A t \in Threads : job[t] = Idle
  BY DEF Init
<1>2. TypeOK
  <2>1. job \in [Threads -> Jobs]
    BY IdleJob DEF Init
  <2>2. DataOK
    BY BoundsAssumption DEF Init, DataOK
  <2>3. \A t \in Threads : JobOK(t)
    BY <1>1 DEF Idle, JobOK
  <2>4. armed \in BOOLEAN
    BY DEF Init
  <2> QED
    BY <2>1, <2>2, <2>3, <2>4, TypeParts DEF JobsOK
<1> QED
  BY <1>1, <1>2, BotsAssumption DEF Init, IInv, OpInv, HoldInv, Holds, FirmInv,
     Supervised, Copies, ListInv, Autostart, StopInv, Idle
----
Others(t) == \A u \in Threads \ {t} : job'[u] = job[u]

(* The fields of a job, and a step that replaces it.                        *)
LEMMA PutJob ==
    ASSUME JobsOK, NEW t \in Threads, NEW r \in Jobs, job' = Put(t, r)
    PROVE  job'[t] = r /\ Others(t) /\ job' \in [Threads -> Jobs]
  BY DEF Put, Others, JobsOK

LEMMA Fields ==
    ASSUME JobsOK, NEW t \in Threads
    PROVE  /\ job[t] \in Jobs /\ job[t].op \in Ops
           /\ job[t].todo \subseteq Bots /\ job[t].names \subseteq Bots
           /\ job[t].bot \in Bots \cup {NoBot} /\ job[t].pid \in Pids \cup {NoPid}
  BY DEF JobsOK, Jobs

Calm == {"idle", "loop", "check", "merge", "save"}

(* A thread that wrote nothing and now holds nothing has moved on.          *)
LEMMA Moved ==
    ASSUME IInv, NEW t \in Threads, job' \in [Threads -> Jobs], Others(t), JobOK(t)',
           UNCHANGED <<proc, pidFile, raced>>,
           job[t].pc # "write", job'[t].pc \in Calm
    PROVE  JobsOK' /\ HoldInv' /\ FirmInv' /\ Supervised'
<1>1. JobsOK' 
  BY TypeParts DEF IInv, JobsOK, JobOK, Others
<1>2. HoldInv'
  BY DEF IInv, HoldInv, Holds, Others, Calm
<1>3. FirmInv'
  BY DEF IInv, FirmInv, Others, Copies, Calm
<1>4. Supervised'
  BY DEF IInv, Supervised, Others, Copies
<1> QED
  BY <1>1, <1>2, <1>3, <1>4

(* A thread that has saved nothing, and will start no more than it would.   *)
LEMMA Plans ==
    ASSUME IInv, NEW t \in Threads, Others(t),
           UNCHANGED <<proc, canonical, legacy, intended, raced>>,
           stopped' \subseteq stopped, job'[t].pc # "save",
           \A b \in stopped' \ raced : WillStart(t, b)' => WillStart(t, b)
    PROVE  ListInv' /\ StopInv'
<1>1. ListInv'
  BY DEF IInv, ListInv, Autostart, Others
<1>2. StopInv'
  BY DEF IInv, StopInv, WillStart, Others, Copies
<1> QED
  BY <1>1, <1>2

LEMMA OpsKeep ==
    ASSUME IInv, NEW t \in Threads, Others(t),
           /\ job'[t].pc \in {"check", "spawn", "write"} => job'[t].op \in Starting
           /\ job'[t].pc \in {"kill", "delete"} => job'[t].op = "stop"
           /\ job'[t].pc = "merge" => job'[t].op = "start listed"
           /\ job'[t].pc = "save" => job'[t].op \in {"list", "start listed"}
           /\ job'[t].op = "list" => job'[t].pc = "save" /\ job'[t].todo = job'[t].names
    PROVE  OpInv'
  BY DEF IInv, OpInv, Others

(* No thread moves, and no copy appears.                                    *)
LEMMA Quiet ==
    ASSUME IInv, DataOK', armed' \in BOOLEAN,
           UNCHANGED <<pidFile, job, canonical, legacy, intended, stopped, raced>>,
           \A b \in Bots : Copies(b)' \subseteq Copies(b)
    PROVE  IInv'
<1>1. JobsOK' /\ JobsOK
  BY TypeParts DEF IInv, JobsOK, JobOK
<1>2. OpInv' /\ HoldInv' /\ ListInv'
  BY DEF IInv, OpInv, HoldInv, Holds, ListInv, Autostart
<1>3. FirmInv'
  <2> SUFFICES ASSUME NEW b \in Bots \ raced, NEW t \in Threads, job[t].bot = b
               PROVE  /\ job[t].pc \in {"spawn", "delete"} => Copies(b)' = {}
                      /\ job[t].pc \in {"write", "kill"} => Copies(b)' \subseteq {job[t].pid}
    BY DEF FirmInv
  <2>1. Copies(b)' \subseteq Copies(b)
    OBVIOUS
  <2>2. /\ job[t].pc \in {"spawn", "delete"} => Copies(b) = {}
        /\ job[t].pc \in {"write", "kill"} => Copies(b) \subseteq {job[t].pid}
    BY DEF IInv, FirmInv
  <2> QED
    BY <2>1, <2>2
<1>4. Supervised'
  BY DEF IInv, Supervised
<1>5. StopInv'
  <2>1. stopped \subseteq Bots
    BY DEF IInv, TypeOK
  <2> QED
    BY <2>1 DEF IInv, StopInv, WillStart
<1> QED
  BY <1>1, <1>2, <1>3, <1>4, <1>5, TypePartsNext DEF IInv

(* All of it: a step of one thread, after which it holds nothing.           *)
LEMMA Calmly ==
    ASSUME IInv, NEW t \in Threads, job' \in [Threads -> Jobs], Others(t), JobOK(t)',
           UNCHANGED <<proc, pidFile, canonical, legacy, intended, raced>>,
           DataOK', armed' \in BOOLEAN, stopped' \subseteq stopped,
           job[t].pc # "write", job'[t].pc \in Calm \ {"save"},
           job'[t].pc = "check" => job'[t].op \in Starting,
           job'[t].pc = "merge" => job'[t].op = "start listed",
           job'[t].op # "list",
           \A b \in stopped' \ raced : WillStart(t, b)' => WillStart(t, b)
    PROVE  IInv'
<1>1. JobsOK' /\ HoldInv' /\ FirmInv' /\ Supervised'
  BY Moved
<1>2. ListInv' /\ StopInv'
  BY Plans DEF Calm
<1>3. OpInv'
  BY OpsKeep DEF Calm
<1> QED
  BY <1>1, <1>2, <1>3, TypePartsNext DEF IInv

LEMMA InvStep == ASSUME IInv, [Next]_vars PROVE IInv'
<1>0. TypeOK /\ DataOK /\ JobsOK /\ armed \in BOOLEAN
  BY TypeParts DEF IInv
<1>00. ASSUME NEW t \in Threads PROVE JobOK(t) /\ job[t] \in Jobs
  BY <1>0 DEF JobsOK
<1> USE DEF files, history
<1>1. ASSUME NEW t \in Ensurers, EnsureRestart(t), armed' \in BOOLEAN PROVE IInv'
  <2>1. t \in Threads /\ job[t].pc = "idle"
    BY <1>1 DEF EnsureRestart, Idle, Threads
  <2>2. /\ job'[t].op = "ensure" /\ job'[t].pc = "loop" /\ job'[t].todo = Autostart
        /\ job'[t].bot = NoBot /\ Others(t) /\ job' \in [Threads -> Jobs]
    <3>1. Autostart \subseteq Bots
      BY <1>0 DEF DataOK, Autostart
    <3> DEFINE r == [Idle EXCEPT !.op = "ensure", !.pc = "loop", !.todo = Autostart]
    <3>2. r \in Jobs /\ r.op = "ensure" /\ r.pc = "loop" /\ r.todo = Autostart
          /\ r.bot = NoBot
      BY <3>1 DEF Idle, Jobs, Ops
    <3>3. job' = Put(t, r)
      BY <1>1 DEF EnsureRestart
    <3> QED
      BY <1>0, <2>1, <3>2, <3>3, PutJob
  <2>3. JobOK(t)'
    BY <2>2, <1>1, ThreadsAssumption DEF JobOK
  <2>4. \A b \in stopped \ raced : ~ WillStart(t, b)'
    <3>1. \A b \in stopped \ raced : b \notin Autostart /\ b # NoBot
      BY <1>0, BotsAssumption DEF IInv, StopInv, ListInv, DataOK
    <3> QED
      BY <2>2, <3>1 DEF WillStart
  <2>5. /\ UNCHANGED <<proc, pidFile, canonical, legacy, intended, raced, stopped>>
        /\ DataOK'
    BY <1>0, <1>1 DEF EnsureRestart, DataOK
  <2> QED
    BY <1>1, <2>1, <2>2, <2>3, <2>4, <2>5, Calmly DEF Calm
<1>2. CASE ServiceStop
  <2>1. DataOK' /\ armed' = FALSE
    BY <1>0, <1>2 DEF ServiceStop, DataOK
  <2>2. \A b \in Bots : Copies(b)' = Copies(b)
    BY <1>2 DEF ServiceStop, Copies
  <2> QED
    BY <1>2, <2>1, <2>2, Quiet DEF ServiceStop
<1>3. ASSUME NEW t \in Threads, NEW b \in Bots, LookAlive(t, b) \/ LookDead(t, b)
      PROVE  IInv'
  <2>1. job[t].pc = "loop" /\ job[t].op = "ensure" /\ b \in job[t].todo
    BY <1>3 DEF LookAlive, LookDead
  <2>2. DataOK'
    BY <1>0, <1>3 DEF LookAlive, LookDead, DataOK, Streak
  <2>3. /\ job'[t].op = "ensure" /\ job'[t].todo = job[t].todo \ {b}
        /\ \/ job'[t].pc = "loop" /\ job'[t].bot = job[t].bot
           \/ job'[t].pc = "check" /\ job'[t].bot = b
        /\ Others(t) /\ job' \in [Threads -> Jobs]
    <3> DEFINE r == [job[t] EXCEPT !.todo = Left(t, b)]
               q == [job[t] EXCEPT !.todo = Left(t, b), !.pc = "check", !.bot = b]
    <3>1. /\ r \in Jobs /\ r.op = "ensure" /\ r.todo = job[t].todo \ {b}
          /\ r.pc = "loop" /\ r.bot = job[t].bot
      BY <1>00, <2>1 DEF Left, Jobs
    <3>2. /\ q \in Jobs /\ q.op = "ensure" /\ q.todo = job[t].todo \ {b}
          /\ q.pc = "check" /\ q.bot = b
      BY <1>00, <2>1 DEF Left, Jobs
    <3>3. job' = Put(t, r) \/ job' = Put(t, q)
      BY <1>3 DEF LookAlive, LookDead
    <3> HIDE DEF r, q
    <3> QED
      BY <1>0, <3>1, <3>2, <3>3, PutJob
  <2>4. JobOK(t)'
    BY <1>00, <2>1, <2>3 DEF JobOK
  <2>5. \A c \in stopped \ raced : WillStart(t, c)' => WillStart(t, c)
    BY <2>1, <2>3 DEF WillStart
  <2>6. UNCHANGED <<proc, pidFile, canonical, legacy, intended, raced, stopped, armed>>
    BY <1>3 DEF LookAlive, LookDead
  <2> QED
    BY <1>0, <2>1, <2>2, <2>3, <2>4, <2>5, <2>6, Calmly DEF Calm, Starting
<1>4. ASSUME NEW t \in Commanders, NEW how \in {"start", "start listed", "stop"},
             NEW bs \in SUBSET Bots, Command(t, how, bs),
             stopped' = IF how = "stop" THEN stopped ELSE stopped \ bs
      PROVE  IInv'
  <2>1. t \in Threads /\ job[t].pc = "idle"
    <3>1. job[t] = Idle
      BY <1>4 DEF Command
    <3>2. t \in Threads
      BY DEF Threads
    <3>3. Idle.pc = "idle"
      BY DEF Idle
    <3> QED
      BY <3>1, <3>2, <3>3
  <2>2. /\ job'[t].op = how /\ job'[t].pc = "loop" /\ job'[t].todo = bs
        /\ job'[t].bot = NoBot /\ Others(t) /\ job' \in [Threads -> Jobs]
    <3> DEFINE r == [Idle EXCEPT !.op = how, !.todo = bs, !.names = bs,
                      !.pc = IF how = "list" THEN "save" ELSE "loop"]
    <3>1. r \in Jobs /\ r.op = how /\ r.pc = "loop" /\ r.todo = bs /\ r.bot = NoBot
      BY DEF Idle, Jobs, Ops
    <3>2. job' = Put(t, r)
      BY <1>4 DEF Command
    <3> HIDE DEF r
    <3> QED
      BY <1>0, <2>1, <3>1, <3>2, PutJob
  <2>3. JobOK(t)'
    BY <2>2, <1>4, ThreadsAssumption DEF JobOK
  <2>4. \A b \in stopped' \ raced : ~ WillStart(t, b)'
    <3>1. \A b \in stopped : b # NoBot
      BY <1>0, BotsAssumption DEF DataOK
    <3> QED
      BY <1>4, <2>2, <3>1 DEF WillStart, Starting
  <2>5. /\ UNCHANGED <<proc, pidFile, canonical, legacy, intended, raced, armed>>
        /\ DataOK' /\ stopped' \subseteq stopped
    BY <1>0, <1>4 DEF Command, DataOK
  <2> QED
    BY <1>0, <2>1, <2>2, <2>3, <2>4, <2>5, Calmly DEF Calm
<1>5. ASSUME NEW t \in Commanders, NEW bs \in SUBSET Bots, ListBots(t, bs)
      PROVE  IInv'
  <2>1. t \in Threads /\ job[t].pc = "idle"
    BY <1>5 DEF ListBots, Command, Idle, Threads
  <2>2. /\ job'[t].op = "list" /\ job'[t].pc = "save" /\ job'[t].todo = job'[t].names
        /\ Others(t) /\ job' \in [Threads -> Jobs]
    <3> DEFINE op == "list"
               r == [Idle EXCEPT !.op = op, !.todo = bs, !.names = bs,
                      !.pc = IF op = "list" THEN "save" ELSE "loop"]
    <3>1. r \in Jobs /\ r.op = "list" /\ r.pc = "save" /\ r.todo = r.names
      BY DEF Idle, Jobs, Ops
    <3>2. job' = Put(t, r)
      BY <1>5 DEF ListBots, Command
    <3> HIDE DEF r
    <3> QED
      BY <1>0, <2>1, <3>1, <3>2, PutJob
  <2>3. JobOK(t)'
    BY <2>2, <1>5, ThreadsAssumption DEF JobOK
  <2>4. /\ UNCHANGED <<proc, pidFile, canonical, legacy, intended, raced, stopped, armed>>
        /\ DataOK'
    BY <1>0, <1>5 DEF ListBots, Command, DataOK
  <2>5. JobsOK' /\ HoldInv' /\ FirmInv' /\ Supervised'
    BY <2>1, <2>2, <2>3, <2>4, Moved DEF Calm
  <2>6. OpInv'
    BY <2>1, <2>2, OpsKeep
  <2>7. ListInv'
    BY <2>2, <2>4 DEF IInv, ListInv, Autostart, Others
  <2>8. StopInv'
    BY <2>2, <2>4 DEF IInv, StopInv, WillStart, Others, Copies, Starting
  <2> QED
    BY <1>0, <2>4, <2>5, <2>6, <2>7, <2>8, TypePartsNext DEF IInv
<1>6. ASSUME NEW t \in Threads, NEW b \in Bots, Target(t, b) PROVE IInv'
  <2>1. /\ job[t].pc = "loop" /\ job[t].op \in {"start", "start listed"}
        /\ b \in job[t].todo
    BY <1>6 DEF Target
  <2>2. /\ job'[t].op = job[t].op /\ job'[t].todo = job[t].todo \ {b}
        /\ job'[t].pc = "check" /\ job'[t].bot = b
        /\ Others(t) /\ job' \in [Threads -> Jobs]
    <3> DEFINE r == [job[t] EXCEPT !.todo = Left(t, b), !.pc = "check", !.bot = b]
    <3>1. /\ r \in Jobs /\ r.op = job[t].op /\ r.todo = job[t].todo \ {b}
          /\ r.pc = "check" /\ r.bot = b
      BY <1>00, <2>1 DEF Left, Jobs
    <3>2. job' = Put(t, r)
      BY <1>6 DEF Target
    <3> HIDE DEF r
    <3> QED
      BY <1>0, <3>1, <3>2, PutJob
  <2>3. JobOK(t)'
    BY <1>00, <2>1, <2>2 DEF JobOK
  <2>4. \A c \in stopped \ raced : WillStart(t, c)' => WillStart(t, c)
    BY <2>1, <2>2 DEF WillStart, Starting
  <2>5. /\ UNCHANGED <<proc, pidFile, canonical, legacy, intended, raced, stopped, armed>>
        /\ DataOK'
    BY <1>0, <1>6 DEF Target, DataOK
  <2> QED
    BY <1>0, <2>1, <2>2, <2>3, <2>4, <2>5, Calmly DEF Calm, Starting
(* A thread goes back to its loop having done nothing.                      *)
<1>7. ASSUME NEW t \in Threads, job' = Back(t), job[t].pc \in {"check", "spawn"},
             UNCHANGED <<proc, pidFile, canonical, legacy, deadStreak, armed, deaths,
                         intended, stopped, raced>>
      PROVE  IInv'
  <2>1. job[t].op \in Starting
    BY <1>7 DEF IInv, OpInv
  <2>2. /\ job'[t].op = job[t].op /\ job'[t].todo = job[t].todo
        /\ job'[t].pc = "loop" /\ job'[t].bot = NoBot
        /\ Others(t) /\ job' \in [Threads -> Jobs]
    <3> DEFINE r == [job[t] EXCEPT !.pc = "loop", !.bot = NoBot, !.pid = NoPid]
    <3>1. /\ r \in Jobs /\ r.op = job[t].op /\ r.todo = job[t].todo
          /\ r.pc = "loop" /\ r.bot = NoBot
      BY <1>00 DEF Jobs
    <3>2. job' = Put(t, r)
      BY <1>7 DEF Back
    <3> HIDE DEF r
    <3> QED
      BY <1>0, <3>1, <3>2, PutJob
  <2>3. JobOK(t)' /\ DataOK'
    BY <1>0, <1>00, <1>7, <2>2 DEF JobOK, DataOK
  <2>4. \A c \in stopped \ raced : WillStart(t, c)' => WillStart(t, c)
    <3>1. \A b \in stopped : b # NoBot
      BY <1>0, BotsAssumption DEF DataOK
    <3> QED
      BY <1>7, <2>2, <3>1 DEF WillStart
  <2> QED
    BY <1>0, <1>7, <2>1, <2>2, <2>3, <2>4, Calmly DEF Calm, Starting
<1>8. ASSUME NEW t \in Threads, SpawnFails(t) PROVE IInv'
  BY <1>7, <1>8 DEF SpawnFails
<1>9. ASSUME NEW t \in Threads, Check(t) PROVE IInv'
  <2> DEFINE b == job[t].bot
             skip == IsRunning(b) \/ b \notin Staged
  <2>1. job[t].pc = "check" /\ b \in Bots
    BY <1>00, <1>9 DEF Check, JobOK
  <2>2. CASE skip
    BY <1>7, <1>9, <2>1, <2>2 DEF Check
  <2>3. CASE ~ skip
    <3> PICK c \in Bots : c = job[t].bot
      BY <2>1
    <3>1. /\ ~ IsRunning(c) /\ job' = Goto(t, "spawn", c) /\ raced' = RacedBy(t, c)
          /\ UNCHANGED <<proc, pidFile, canonical, legacy, deadStreak, armed, deaths,
                         intended, stopped>>
      BY <1>9, <2>3 DEF Check
    <3>2. /\ job'[t].op = job[t].op /\ job'[t].todo = job[t].todo
          /\ job'[t].pc = "spawn" /\ job'[t].bot = c
          /\ Others(t) /\ job' \in [Threads -> Jobs]
      <4> DEFINE r == [job[t] EXCEPT !.pc = "spawn", !.bot = c]
      <4>1. /\ r \in Jobs /\ r.op = job[t].op /\ r.todo = job[t].todo
            /\ r.pc = "spawn" /\ r.bot = c
        BY <1>00 DEF Jobs
      <4>2. job' = Put(t, r)
        BY <3>1 DEF Goto
      <4> HIDE DEF r
      <4> QED
        BY <1>0, <4>1, <4>2, PutJob
    <3>3. /\ raced \subseteq raced' /\ raced' \subseteq raced \cup {c}
          /\ c \notin raced' => \A u \in Threads \ {t} : ~ Holds(u, c)
      BY <3>1 DEF RacedBy
    <3>4. JobsOK' /\ DataOK'
      BY <1>0, <3>1, <3>2, <3>3 DEF JobsOK, JobOK, Others, DataOK
    <3>5. OpInv'
      BY <2>1, <3>2, OpsKeep DEF IInv, OpInv, Starting
    <3>6. HoldInv'
      BY <3>2, <3>3 DEF IInv, HoldInv, Holds, Others
    <3>7. Supervised'
      BY <2>1, <3>1, <3>2, <3>3 DEF IInv, Supervised, Others, Copies
    <3>8. c \notin raced' => Copies(c) = {}
      <4> SUFFICES ASSUME c \notin raced', NEW p \in Copies(c) PROVE FALSE
        OBVIOUS
      <4>1. pidFile[c] # p
        BY <3>1 DEF IsRunning
      <4>2. PICK u \in Threads : job[u].pc = "write" /\ job[u].bot = c
        BY <3>3, <4>1 DEF IInv, Supervised
      <4>3. u # t /\ Holds(u, c)
        BY <2>1, <4>2 DEF Holds
      <4> QED
        BY <3>3, <4>3
    <3>9. FirmInv'
      <4> SUFFICES ASSUME NEW d \in Bots \ raced', NEW u \in Threads, job'[u].bot = d
                   PROVE  /\ job'[u].pc \in {"spawn", "delete"} => Copies(d)' = {}
                          /\ job'[u].pc \in {"write", "kill"}
                               => Copies(d)' \subseteq {job'[u].pid}
        BY DEF FirmInv
      <4>1. Copies(d)' = Copies(d)
        BY <3>1 DEF Copies
      <4> QED
        BY <3>2, <3>3, <3>8, <4>1 DEF IInv, FirmInv, Others
    <3>10. ListInv'
      <4> SUFFICES ASSUME NEW d \in Bots \ raced'
                   PROVE  /\ d \in Autostart' => d \in intended'
                          /\ \A u \in Threads :
                               job'[u].op = "start listed" /\ job'[u].pc = "save"
                                 /\ d \in job'[u].todo => d \in intended' \cup job'[u].names
        BY DEF ListInv
      <4>1. d \in Bots \ raced /\ Autostart' = Autostart /\ intended' = intended
        BY <3>1, <3>3 DEF Autostart
      <4>2. /\ d \in Autostart => d \in intended
            /\ \A u \in Threads :
                 job[u].op = "start listed" /\ job[u].pc = "save" /\ d \in job[u].todo
                   => d \in intended \cup job[u].names
        BY <4>1 DEF IInv, ListInv
      <4>3. \A u \in Threads : job'[u].pc = "save" => job'[u] = job[u]
        BY <3>2 DEF Others
      <4> QED
        BY <4>1, <4>2, <4>3
    <3>11. StopInv'
      <4>1. \A d : WillStart(t, d)' => WillStart(t, d)
        BY <2>1, <3>2 DEF WillStart
      <4>2. \A d : Copies(d)' = Copies(d)
        BY <3>1 DEF Copies
      <4>3. \A u \in Threads \ {t} : \A d : WillStart(u, d)' => WillStart(u, d)
        BY <3>2 DEF WillStart, Others
      <4> QED
        BY <3>1, <3>3, <4>1, <4>2, <4>3 DEF IInv, StopInv
    <3> QED
      BY <1>0, <3>1, <3>4, <3>5, <3>6, <3>7, <3>9, <3>10, <3>11, TypePartsNext DEF IInv
  <2> QED
    BY <2>2, <2>3
<1>10. ASSUME NEW t \in Threads, NEW p \in Pids, Spawn(t, p) PROVE IInv'
  <2> PICK b \in Bots : b = job[t].bot
    BY <1>00, <1>10 DEF Spawn, JobOK
  <2>1. /\ job[t].pc = "spawn" /\ proc[p] = NoProcess
        /\ proc' = [proc EXCEPT ![p] = b]
        /\ UNCHANGED <<pidFile, canonical, legacy, deadStreak, armed, deaths,
                       intended, stopped, raced>>
    BY <1>10 DEF Spawn
  <2>2. /\ job'[t].op = job[t].op /\ job'[t].todo = job[t].todo
        /\ job'[t].pc = "write" /\ job'[t].bot = b /\ job'[t].pid = p
        /\ Others(t) /\ job' \in [Threads -> Jobs]
    <3> DEFINE r == [job[t] EXCEPT !.pc = "write", !.pid = p]
    <3>1. /\ r \in Jobs /\ r.op = job[t].op /\ r.todo = job[t].todo
          /\ r.pc = "write" /\ r.bot = b /\ r.pid = p
      BY <1>00 DEF Jobs
    <3>2. job' = Put(t, r)
      BY <1>10 DEF Spawn
    <3> HIDE DEF r
    <3> QED
      BY <1>0, <3>1, <3>2, PutJob
  <2>3. /\ Copies(b)' = Copies(b) \cup {p}
        /\ \A d \in Bots \ {b} : Copies(d)' = Copies(d)
    BY <1>0, <2>1, BotsAssumption DEF Copies, DataOK
  <2>4. JobsOK' /\ DataOK'
    <3>1. proc' \in [Pids -> Bots \cup {Guest, NoProcess}]
      BY <1>0, <2>1 DEF DataOK
    <3> QED
      BY <1>0, <2>1, <2>2, <3>1 DEF JobsOK, JobOK, Others, DataOK
  <2>5. OpInv'
    BY <2>1, <2>2, OpsKeep DEF IInv, OpInv, Starting
  <2>6. Holds(t, b) /\ (b \notin raced => Copies(b) = {})
    BY <2>1 DEF Holds, IInv, FirmInv
  <2>7. HoldInv'
    BY <2>1, <2>2, <2>6 DEF IInv, HoldInv, Holds, Others
  <2>8. Supervised'
    <3> SUFFICES ASSUME NEW d \in Bots \ raced, NEW q \in Copies(d)'
                 PROVE  \/ pidFile[d] = q
                        \/ \E u \in Threads : job'[u].pc = "write" /\ job'[u].bot = d
                                                /\ job'[u].pid = q
      BY <2>1 DEF Supervised
    <3>1. CASE d = b
      BY <2>2, <2>3, <2>6, <3>1
    <3>2. CASE d # b
      <4>1. q \in Copies(d)
        BY <2>3, <3>2
      <4> QED
        BY <2>1, <2>2, <3>2, <4>1 DEF IInv, Supervised, Others
    <3> QED
      BY <3>1, <3>2
  <2>9. FirmInv'
    <3> SUFFICES ASSUME NEW d \in Bots \ raced, NEW u \in Threads, job'[u].bot = d
                 PROVE  /\ job'[u].pc \in {"spawn", "delete"} => Copies(d)' = {}
                        /\ job'[u].pc \in {"write", "kill"}
                             => Copies(d)' \subseteq {job'[u].pid}
      BY <2>1 DEF FirmInv
    <3>1. CASE u = t
      BY <2>2, <2>3, <2>6, <3>1
    <3>2. CASE u # t
      <4>1. job[u].pc \in {"spawn", "delete", "write", "kill"} /\ d = b => FALSE
        BY <2>2, <2>6, <3>2 DEF Holds, IInv, HoldInv, Others
      <4>2. CASE d # b
        BY <2>2, <2>3, <3>2, <4>2 DEF IInv, FirmInv, Others
      <4> QED
        BY <2>2, <3>2, <4>1, <4>2 DEF Others
    <3> QED
      BY <3>1, <3>2
  <2>10. ListInv'
    BY <2>1, <2>2 DEF IInv, ListInv, Autostart, Others
  <2>11. StopInv'
    <3>1. \A u \in Threads, d \in Bots : WillStart(u, d)' => WillStart(u, d)
      BY <2>1, <2>2 DEF WillStart, Others
    <3>2. WillStart(t, b)
      BY <2>1 DEF WillStart, IInv, OpInv
    <3>3. \A d \in stopped \ raced : d # b /\ d \in Bots
      BY <1>0, <3>2 DEF IInv, StopInv, DataOK
    <3> QED
      BY <2>1, <2>3, <3>1, <3>3 DEF IInv, StopInv
  <2> QED
    BY <1>0, <2>1, <2>4, <2>5, <2>7, <2>8, <2>9, <2>10, <2>11, TypePartsNext DEF IInv
<1>11. ASSUME NEW t \in Threads, Write(t) \/ Unrecorded(t) PROVE IInv'
  <2>0. job[t].pc = "write" /\ job[t].bot \in Bots /\ job[t].pid \in Pids
    BY <1>00, <1>11 DEF Write, Unrecorded, JobOK
  <2> PICK b \in Bots, p \in Pids : b = job[t].bot /\ p = job[t].pid
    BY <2>0
  <2>1. /\ \/ pidFile' = [pidFile EXCEPT ![b] = p] /\ raced' = raced
           \/ pidFile' = pidFile /\ raced' = raced \cup {b}
        /\ deadStreak' \in {deadStreak, [deadStreak EXCEPT ![b] = 0]}
        /\ UNCHANGED <<proc, canonical, legacy, armed, deaths, intended, stopped>>
    BY <1>11 DEF Write, Unrecorded
  <2>2. /\ job'[t].op = job[t].op /\ job'[t].todo = job[t].todo
        /\ job'[t].pc = "loop" /\ job'[t].bot = NoBot
        /\ Others(t) /\ job' \in [Threads -> Jobs]
    <3> DEFINE r == [job[t] EXCEPT !.pc = "loop", !.bot = NoBot, !.pid = NoPid]
    <3>1. /\ r \in Jobs /\ r.op = job[t].op /\ r.todo = job[t].todo
          /\ r.pc = "loop" /\ r.bot = NoBot
      BY <1>00 DEF Jobs
    <3>2. job' = Put(t, r)
      BY <1>11 DEF Write, Unrecorded, Back
    <3> HIDE DEF r
    <3> QED
      BY <1>0, <3>1, <3>2, PutJob
  <2>3. JobsOK'
    BY <1>0, <2>2 DEF JobsOK, JobOK, Others
  <2>4. DataOK'
    <3>1. pidFile' \in [Bots -> Pids \cup {NoPid}]
      BY <1>0, <2>1 DEF DataOK
    <3>2. deadStreak' \in [Bots -> 0..4]
      BY <1>0, <2>1 DEF DataOK
    <3>3. raced' \subseteq Bots
      BY <1>0, <2>1 DEF DataOK
    <3> QED
      BY <1>0, <2>1, <3>1, <3>2, <3>3 DEF DataOK
  <2>5. job[t].op \in Starting
    BY <2>0 DEF IInv, OpInv
  <2>6. OpInv'
    BY <2>2, <2>5, OpsKeep DEF Starting
  <2>7. HoldInv'
    BY <2>1, <2>2 DEF IInv, HoldInv, Holds, Others
  <2>8. \A d : Copies(d)' = Copies(d)
    BY <2>1 DEF Copies
  <2>9. Supervised'
    <3> SUFFICES ASSUME NEW d \in Bots \ raced', NEW q \in Copies(d)
                 PROVE  \/ pidFile'[d] = q
                        \/ \E u \in Threads : job'[u].pc = "write" /\ job'[u].bot = d
                                                /\ job'[u].pid = q
      BY <2>8 DEF Supervised
    <3>1. CASE d = b
      <4>1. raced' = raced /\ pidFile'[b] = p
        BY <1>0, <2>1, <3>1 DEF DataOK
      <4>2. Copies(b) \subseteq {p}
        BY <2>0, <3>1, <4>1 DEF IInv, FirmInv
      <4> QED
        BY <3>1, <4>1, <4>2
    <3>2. CASE d # b
      <4>1. d \in Bots \ raced /\ pidFile'[d] = pidFile[d]
        BY <1>0, <2>1, <3>2 DEF DataOK
      <4> QED
        BY <2>2, <3>2, <4>1 DEF IInv, Supervised, Others
    <3> QED
      BY <3>1, <3>2
  <2>10. FirmInv'
    <3> SUFFICES ASSUME NEW d \in Bots \ raced', NEW u \in Threads, job'[u].bot = d
                 PROVE  /\ job'[u].pc \in {"spawn", "delete"} => Copies(d)' = {}
                        /\ job'[u].pc \in {"write", "kill"}
                             => Copies(d)' \subseteq {job'[u].pid}
      BY DEF FirmInv
    <3> QED
      BY <2>1, <2>2, <2>8 DEF IInv, FirmInv, Others
  <2>11. ListInv'
    <3> SUFFICES ASSUME NEW d \in Bots \ raced'
                 PROVE  /\ d \in Autostart' => d \in intended'
                        /\ \A u \in Threads :
                             job'[u].op = "start listed" /\ job'[u].pc = "save"
                               /\ d \in job'[u].todo => d \in intended' \cup job'[u].names
      BY DEF ListInv
    <3>1. d \in Bots \ raced /\ Autostart' = Autostart /\ intended' = intended
      BY <2>1 DEF Autostart
    <3>2. \A u \in Threads : job'[u].pc = "save" => job'[u] = job[u]
      BY <2>2 DEF Others
    <3> QED
      BY <3>1, <3>2 DEF IInv, ListInv
  <2>12. StopInv'
    <3>1. \A u \in Threads, d \in Bots : WillStart(u, d)' => WillStart(u, d)
      BY <2>0, <2>2, BotsAssumption DEF WillStart, Others
    <3>2. \A d \in stopped' \ raced' : d \in stopped \ raced /\ d \in Bots
      BY <1>0, <2>1 DEF DataOK
    <3> QED
      BY <2>1, <2>8, <3>1, <3>2 DEF IInv, StopInv
  <2> QED
    BY <1>0, <2>1, <2>3, <2>4, <2>6, <2>7, <2>9, <2>10, <2>11, <2>12, TypePartsNext
       DEF IInv
<1>12. ASSUME NEW t \in Threads, Done(t) PROVE IInv'
  <2>1. job[t].pc = "loop" /\ job[t].todo = {} /\ job[t].op # "list"
    BY <1>12 DEF Done, IInv, OpInv
  <2>2. /\ \/ /\ job'[t].pc = "merge" /\ job'[t].op = "start listed"
              /\ job[t].op = "start listed"
           \/ job'[t].pc = "idle" /\ job'[t].op = "none"
        /\ Others(t) /\ job' \in [Threads -> Jobs]
    <3> DEFINE r == [job[t] EXCEPT !.pc = "merge"]
    <3>1. r \in Jobs /\ r.op = job[t].op /\ r.pc = "merge"
      BY <1>00 DEF Jobs
    <3>2. Idle \in Jobs /\ Idle.op = "none" /\ Idle.pc = "idle"
      BY IdleJob DEF Idle
    <3>3. \/ job[t].op = "start listed" /\ job' = Put(t, r)
          \/ job' = Put(t, Idle)
      BY <1>12 DEF Done
    <3> HIDE DEF r
    <3> QED
      BY <1>0, <3>1, <3>2, <3>3, PutJob
  <2>3. JobOK(t)'
    BY <1>00, <2>2 DEF JobOK
  <2>4. \A b : ~ WillStart(t, b)'
    BY <2>2 DEF WillStart, Starting
  <2>5. /\ UNCHANGED <<proc, pidFile, canonical, legacy, intended, raced, stopped, armed>>
        /\ DataOK'
    BY <1>0, <1>12 DEF Done, DataOK
  <2> QED
    BY <1>0, <2>1, <2>2, <2>3, <2>4, <2>5, Calmly DEF Calm
<1>13. ASSUME NEW t \in Threads, NEW b \in Bots, ReadPid(t, b) PROVE IInv'
  <2>1. /\ job[t].op = "stop" /\ job[t].pc = "loop" /\ b \in job[t].todo
        /\ raced' = RacedBy(t, b)
        /\ UNCHANGED <<proc, pidFile, canonical, legacy, deadStreak, armed, deaths,
                       intended, stopped>>
    BY <1>13 DEF ReadPid
  <2>2. /\ job'[t].op = "stop" /\ job'[t].bot = b /\ job'[t].pid = pidFile[b]
        /\ \/ job'[t].pc = "kill" /\ pidFile[b] \in ProotPids
           \/ job'[t].pc = "delete" /\ pidFile[b] \notin ProotPids
        /\ Others(t) /\ job' \in [Threads -> Jobs]
    <3> DEFINE r == [job[t] EXCEPT !.todo = Left(t, b), !.bot = b, !.pid = pidFile[b],
                        !.pc = IF pidFile[b] \in ProotPids THEN "kill" ELSE "delete"]
    <3>1. /\ r \in Jobs /\ r.op = "stop" /\ r.bot = b /\ r.pid = pidFile[b]
          /\ \/ r.pc = "kill" /\ pidFile[b] \in ProotPids
             \/ r.pc = "delete" /\ pidFile[b] \notin ProotPids
      BY <1>0, <1>00, <2>1 DEF Left, Jobs, DataOK
    <3>2. job' = Put(t, r)
      BY <1>13 DEF ReadPid
    <3> HIDE DEF r
    <3> QED
      BY <1>0, <3>1, <3>2, PutJob
  <2>3. /\ raced \subseteq raced' /\ raced' \subseteq raced \cup {b}
        /\ b \notin raced' => \A u \in Threads \ {t} : ~ Holds(u, b)
    BY <2>1 DEF RacedBy
  <2>4. JobsOK' /\ DataOK'
    <3>1. JobOK(t)'
      BY <1>00, <2>1, <2>2 DEF JobOK, ProotPids
    <3> QED
      BY <1>0, <2>1, <2>2, <2>3, <3>1 DEF JobsOK, JobOK, Others, DataOK
  <2>5. OpInv'
    BY <2>2, OpsKeep
  <2>6. HoldInv'
    BY <2>2, <2>3 DEF IInv, HoldInv, Holds, Others
  <2>7. \A d : Copies(d)' = Copies(d)
    BY <2>1 DEF Copies
  <2>8. Supervised'
    BY <2>1, <2>2, <2>3 DEF IInv, Supervised, Others, Copies
  <2>9. b \notin raced' => Copies(b) \subseteq {pidFile[b]}
    <3> SUFFICES ASSUME b \notin raced', NEW p \in Copies(b), pidFile[b] # p PROVE FALSE
      OBVIOUS
    <3>1. PICK u \in Threads : job[u].pc = "write" /\ job[u].bot = b
      BY <2>3 DEF IInv, Supervised
    <3>2. u # t /\ Holds(u, b)
      BY <2>1, <3>1 DEF Holds
    <3> QED
      BY <2>3, <3>2
  <2>10. FirmInv'
    <3> SUFFICES ASSUME NEW d \in Bots \ raced', NEW u \in Threads, job'[u].bot = d
                 PROVE  /\ job'[u].pc \in {"spawn", "delete"} => Copies(d)' = {}
                        /\ job'[u].pc \in {"write", "kill"}
                             => Copies(d)' \subseteq {job'[u].pid}
      BY DEF FirmInv
    <3>1. CASE u = t
      <4>1. Copies(b) \subseteq ProotPids
        BY BotsAssumption DEF Copies, ProotPids
      <4> QED
        BY <2>2, <2>7, <2>9, <3>1, <4>1
    <3>2. CASE u # t
      BY <2>2, <2>3, <2>7, <3>2 DEF IInv, FirmInv, Others
    <3> QED
      BY <3>1, <3>2
  <2>11. ListInv'
    <3> SUFFICES ASSUME NEW d \in Bots \ raced'
                 PROVE  /\ d \in Autostart' => d \in intended'
                        /\ \A u \in Threads :
                             job'[u].op = "start listed" /\ job'[u].pc = "save"
                               /\ d \in job'[u].todo => d \in intended' \cup job'[u].names
      BY DEF ListInv
    <3>1. d \in Bots \ raced /\ Autostart' = Autostart /\ intended' = intended
      BY <2>1, <2>3 DEF Autostart
    <3>2. \A u \in Threads : job'[u].pc = "save" => job'[u] = job[u]
      BY <2>2 DEF Others
    <3> QED
      BY <3>1, <3>2 DEF IInv, ListInv
  <2>12. StopInv'
    <3>1. \A u \in Threads, d \in Bots : WillStart(u, d)' => WillStart(u, d)
      BY <2>2 DEF WillStart, Others, Starting
    <3>2. \A d \in stopped' \ raced' : d \in stopped \ raced /\ d \in Bots
      BY <1>0, <2>1, <2>3 DEF DataOK
    <3> QED
      BY <2>1, <2>7, <3>1, <3>2 DEF IInv, StopInv
  <2> QED
    BY <1>0, <2>1, <2>4, <2>5, <2>6, <2>8, <2>10, <2>11, <2>12, TypePartsNext DEF IInv
<1>14. ASSUME NEW t \in Threads, Kill(t) \/ KillFails(t) PROVE IInv'
  <2>0. job[t].pc = "kill" /\ job[t].bot \in Bots /\ job[t].pid \in Pids /\ job[t].op = "stop"
    BY <1>00, <1>14 DEF Kill, KillFails, JobOK, IInv, OpInv
  <2> PICK b \in Bots, p \in Pids : b = job[t].bot /\ p = job[t].pid
    BY <2>0
  <2>1. /\ \/ proc' = [proc EXCEPT ![p] = NoProcess] /\ raced' = raced
           \/ proc' = proc /\ raced' = raced \cup (IF p \in Copies(b) THEN {b} ELSE {})
        /\ UNCHANGED <<pidFile, canonical, legacy, deadStreak, armed, deaths,
                       intended, stopped>>
    BY <1>14 DEF Kill, KillFails
  <2>2. /\ job'[t].op = "stop" /\ job'[t].todo = job[t].todo
        /\ job'[t].pc = "delete" /\ job'[t].bot = b
        /\ Others(t) /\ job' \in [Threads -> Jobs]
    <3> DEFINE r == [job[t] EXCEPT !.pc = "delete", !.bot = b]
    <3>1. /\ r \in Jobs /\ r.op = "stop" /\ r.todo = job[t].todo
          /\ r.pc = "delete" /\ r.bot = b
      BY <1>00, <2>0 DEF Jobs
    <3>2. job' = Put(t, r)
      BY <1>14 DEF Kill, KillFails, Goto
    <3> HIDE DEF r
    <3> QED
      BY <1>0, <3>1, <3>2, PutJob
  <2>3. /\ raced \subseteq raced' /\ raced' \subseteq Bots
        /\ \A d \in Bots : Copies(d)' \subseteq Copies(d)
        /\ b \notin raced' => Copies(b)' \subseteq Copies(b) \ {p}
    <3>1. CASE proc' = [proc EXCEPT ![p] = NoProcess] /\ raced' = raced
      BY <1>0, <3>1, BotsAssumption DEF Copies, DataOK
    <3>2. CASE proc' = proc /\ raced' = raced \cup (IF p \in Copies(b) THEN {b} ELSE {})
      <4>1. \A d \in Bots : Copies(d)' = Copies(d)
        BY <3>2 DEF Copies
      <4>2. raced \subseteq Bots
        BY <1>0 DEF DataOK
      <4> QED
        BY <3>2, <4>1, <4>2
    <3> QED
      BY <2>1, <3>1, <3>2
  <2>4. JobsOK' /\ DataOK'
    <3>1. proc' \in [Pids -> Bots \cup {Guest, NoProcess}]
      BY <1>0, <2>1 DEF DataOK
    <3>2. JobOK(t)'
      BY <1>00, <2>0, <2>2 DEF JobOK
    <3> QED
      BY <1>0, <2>1, <2>2, <2>3, <3>1, <3>2 DEF JobsOK, JobOK, Others, DataOK
  <2>5. OpInv'
    BY <2>2, OpsKeep
  <2>6. HoldInv'
    BY <2>0, <2>2, <2>3 DEF IInv, HoldInv, Holds, Others
  <2>7. Supervised'
    <3> SUFFICES ASSUME NEW d \in Bots \ raced', NEW q \in Copies(d)'
                 PROVE  \/ pidFile[d] = q
                        \/ \E u \in Threads : job'[u].pc = "write" /\ job'[u].bot = d
                                                /\ job'[u].pid = q
      BY <2>1, <2>3 DEF Supervised
    <3> QED
      BY <2>0, <2>2, <2>3 DEF IInv, Supervised, Others
  <2>8. FirmInv'
    <3> SUFFICES ASSUME NEW d \in Bots \ raced', NEW u \in Threads, job'[u].bot = d
                 PROVE  /\ job'[u].pc \in {"spawn", "delete"} => Copies(d)' = {}
                        /\ job'[u].pc \in {"write", "kill"}
                             => Copies(d)' \subseteq {job'[u].pid}
      BY DEF FirmInv
    <3>1. CASE u = t
      <4>1. b \notin raced => Copies(b) \subseteq {p}
        BY <2>0 DEF IInv, FirmInv
      <4> QED
        BY <2>2, <2>3, <3>1, <4>1
    <3>2. CASE u # t
      <4>1. /\ job[u].pc \in {"spawn", "delete"} => Copies(d) = {}
            /\ job[u].pc \in {"write", "kill"} => Copies(d) \subseteq {job[u].pid}
        BY <2>2, <2>3, <3>2 DEF IInv, FirmInv, Others
      <4> QED
        BY <2>2, <2>3, <3>2, <4>1 DEF Others
    <3> QED
      BY <3>1, <3>2
  <2>9. ListInv'
    BY <2>1, <2>2, <2>3 DEF IInv, ListInv, Autostart, Others
  <2>10. StopInv'
    <3>1. \A u \in Threads, d \in Bots : WillStart(u, d)' => WillStart(u, d)
      BY <2>2 DEF WillStart, Others, Starting
    <3>2. \A d \in stopped \ raced : d \in Bots
      BY <1>0 DEF DataOK
    <3> QED
      BY <2>1, <2>3, <3>1, <3>2 DEF IInv, StopInv
  <2> QED
    BY <1>0, <2>1, <2>4, <2>5, <2>6, <2>7, <2>8, <2>9, <2>10, TypePartsNext DEF IInv
<1>15. ASSUME NEW t \in Threads, Delete(t) PROVE IInv'
  <2>0. job[t].pc = "delete" /\ job[t].bot \in Bots /\ job[t].op = "stop"
    BY <1>00, <1>15 DEF Delete, JobOK, IInv, OpInv
  <2> PICK b \in Bots : b = job[t].bot
    BY <2>0
  <2>1. /\ pidFile' = [pidFile EXCEPT ![b] = NoPid]
        /\ \/ stopped' = stopped
           \/ /\ stopped' = stopped \cup {b} /\ b \notin intended
              /\ \A u \in Threads : ~ MayStart(u, b)
        /\ UNCHANGED <<proc, canonical, legacy, deadStreak, armed, deaths,
                       intended, raced>>
    BY <1>15 DEF Delete
  <2>2. /\ job'[t].op = "stop" /\ job'[t].todo = job[t].todo
        /\ job'[t].pc = "loop" /\ job'[t].bot = NoBot
        /\ Others(t) /\ job' \in [Threads -> Jobs]
    <3> DEFINE r == [job[t] EXCEPT !.pc = "loop", !.bot = NoBot, !.pid = NoPid]
    <3>1. /\ r \in Jobs /\ r.op = "stop" /\ r.todo = job[t].todo
          /\ r.pc = "loop" /\ r.bot = NoBot
      BY <1>00, <2>0 DEF Jobs
    <3>2. job' = Put(t, r)
      BY <1>15 DEF Delete, Back
    <3> HIDE DEF r
    <3> QED
      BY <1>0, <3>1, <3>2, PutJob
  <2>3. \A d : Copies(d)' = Copies(d)
    BY <2>1 DEF Copies
  <2>4. JobsOK' /\ DataOK'
    <3>1. pidFile' \in [Bots -> Pids \cup {NoPid}]
      BY <1>0, <2>1 DEF DataOK
    <3>2. JobOK(t)'
      BY <1>00, <2>0, <2>2 DEF JobOK
    <3> QED
      BY <1>0, <2>1, <2>2, <3>1, <3>2 DEF JobsOK, JobOK, Others, DataOK
  <2>5. OpInv'
    BY <2>2, OpsKeep
  <2>6. HoldInv'
    BY <2>1, <2>2 DEF IInv, HoldInv, Holds, Others
  <2>7. b \notin raced => Copies(b) = {}
    BY <2>0 DEF IInv, FirmInv
  <2>8. Supervised'
    <3> SUFFICES ASSUME NEW d \in Bots \ raced, NEW q \in Copies(d)
                 PROVE  \/ pidFile'[d] = q
                        \/ \E u \in Threads : job'[u].pc = "write" /\ job'[u].bot = d
                                                /\ job'[u].pid = q
      BY <2>1, <2>3 DEF Supervised
    <3>1. d # b /\ pidFile'[d] = pidFile[d]
      BY <1>0, <2>1, <2>7 DEF DataOK
    <3> QED
      BY <2>0, <2>2, <3>1 DEF IInv, Supervised, Others
  <2>9. FirmInv'
    <3> SUFFICES ASSUME NEW d \in Bots \ raced, NEW u \in Threads, job'[u].bot = d
                 PROVE  /\ job'[u].pc \in {"spawn", "delete"} => Copies(d)' = {}
                        /\ job'[u].pc \in {"write", "kill"}
                             => Copies(d)' \subseteq {job'[u].pid}
      BY <2>1 DEF FirmInv
    <3> QED
      BY <2>2, <2>3 DEF IInv, FirmInv, Others
  <2>10. ListInv'
    BY <2>1, <2>2 DEF IInv, ListInv, Autostart, Others
  <2>11. StopInv'
    <3>1. \A u \in Threads, d \in Bots : WillStart(u, d)' => WillStart(u, d)
      BY <2>2 DEF WillStart, Others, Starting
    <3>2. \A u \in Threads : WillStart(u, b) => MayStart(u, b)
      BY DEF WillStart, MayStart, Starting
    <3>3. \A d \in stopped \ raced : d \in Bots
      BY <1>0 DEF DataOK
    <3> QED
      BY <2>1, <2>3, <2>7, <3>1, <3>2, <3>3 DEF IInv, StopInv
  <2> QED
    BY <1>0, <2>1, <2>4, <2>5, <2>6, <2>8, <2>9, <2>10, <2>11, TypePartsNext DEF IInv
<1>16. ASSUME NEW t \in Threads, Merge(t) PROVE IInv'
  <2>1. /\ job[t].pc = "merge" /\ job[t].op = "start listed"
        /\ UNCHANGED <<proc, pidFile, canonical, legacy, deadStreak, armed, deaths,
                       intended, stopped, raced>>
    BY <1>16 DEF Merge, IInv, OpInv
  <2>2. /\ job'[t].op = "start listed" /\ job'[t].pc = "save"
        /\ job'[t].todo = Autostart \cup job[t].names /\ job'[t].names = job[t].names
        /\ Others(t) /\ job' \in [Threads -> Jobs]
    <3> DEFINE r == [job[t] EXCEPT !.pc = "save", !.todo = Autostart \cup job[t].names]
    <3>1. Autostart \subseteq Bots /\ job[t].names \subseteq Bots
      BY <1>0, Fields DEF DataOK, Autostart
    <3>2. /\ r \in Jobs /\ r.op = "start listed" /\ r.pc = "save"
          /\ r.todo = Autostart \cup job[t].names /\ r.names = job[t].names
      BY <1>00, <2>1, <3>1 DEF Jobs
    <3>3. job' = Put(t, r)
      BY <1>16 DEF Merge
    <3> HIDE DEF r
    <3> QED
      BY <1>0, <3>2, <3>3, PutJob
  <2>3. JobOK(t)' /\ DataOK'
    BY <1>0, <1>00, <2>1, <2>2 DEF JobOK, DataOK
  <2>4. JobsOK' /\ HoldInv' /\ FirmInv' /\ Supervised'
    BY <2>1, <2>2, <2>3, Moved DEF Calm
  <2>5. OpInv'
    BY <2>1, <2>2, OpsKeep
  <2>6. ListInv'
    BY <2>1, <2>2 DEF IInv, ListInv, Autostart, Others
  <2>7. StopInv'
    <3>1. \A u \in Threads, d \in Bots : WillStart(u, d)' => WillStart(u, d)
      BY <2>2 DEF WillStart, Others, Starting
    <3>2. \A d \in stopped \ raced : d \in Bots
      BY <1>0 DEF DataOK
    <3>3. \A d : Copies(d)' = Copies(d)
      BY <2>1 DEF Copies
    <3> QED
      BY <2>1, <3>1, <3>2, <3>3 DEF IInv, StopInv
  <2> QED
    BY <1>0, <2>1, <2>3, <2>4, <2>5, <2>6, <2>7, TypePartsNext DEF IInv
<1>17. ASSUME NEW t \in Threads,
              Save(t) \/ \E emptied \in BOOLEAN : SaveFails(t, emptied)
       PROVE  IInv'
  <2>1. /\ job[t].pc = "save"
        /\ intended' = Asked(t) /\ stopped' = stopped \ Asked(t)
        /\ \/ canonical' = job[t].todo /\ legacy' = {} /\ raced' = raced \cup Stale(t)
           \/ /\ canonical' \in {canonical, {}} /\ legacy' = legacy
              /\ raced' = raced \cup Stale(t) \cup (Autostart \ Asked(t))
        /\ UNCHANGED <<proc, pidFile, deadStreak, armed, deaths>>
    BY <1>17 DEF Save, SaveFails, Saves
  <2>2. job'[t] = Idle /\ Others(t) /\ job' \in [Threads -> Jobs]
    BY <1>0, <1>17, PutJob, IdleJob DEF Save, SaveFails, Saves
  <2>3. /\ job'[t].op = "none" /\ job'[t].pc = "idle"
    BY <2>2 DEF Idle
  <2>4. Asked(t) \subseteq Bots /\ Stale(t) \subseteq Bots /\ job[t].todo \subseteq Bots
    <3>1. \A u \in Threads : job[u].todo \subseteq Bots /\ job[u].names \subseteq Bots
      BY <1>0, Fields
    <3>2. Asked(t) \subseteq Bots
      BY <1>0, <3>1 DEF Asked, DataOK
    <3>3. Stale(t) \subseteq Bots
      BY <3>1 DEF Stale
    <3> QED
      BY <3>1, <3>2, <3>3
  <2>5. /\ raced \cup Stale(t) \subseteq raced' /\ raced' \subseteq Bots
         /\ canonical' \subseteq Bots /\ legacy' \subseteq Bots
    BY <1>0, <2>1, <2>4 DEF DataOK, Autostart
  <2>6. JobsOK' /\ DataOK'
    BY <1>0, <2>1, <2>2, <2>3, <2>4, <2>5 DEF JobsOK, JobOK, Others, DataOK
  <2>7. OpInv'
    BY <2>3, <2>2, OpsKeep
  <2>8. HoldInv'
    BY <2>2, <2>3, <2>5 DEF IInv, HoldInv, Holds, Others
  <2>9. Supervised'
    BY <2>1, <2>2, <2>5 DEF IInv, Supervised, Others, Copies
  <2>10. FirmInv'
    BY <2>1, <2>2, <2>3, <2>5 DEF IInv, FirmInv, Others, Copies
  <2>11. ASSUME NEW d \in job[t].todo \ raced PROVE d \in Asked(t)
    <3>1. CASE job[t].op = "list"
      BY <3>1 DEF IInv, OpInv, Asked
    <3>2. CASE job[t].op = "start listed"
      BY <2>1, <2>4, <3>2 DEF IInv, ListInv, Asked
    <3> QED
      BY <2>1, <3>1, <3>2 DEF IInv, OpInv
  <2>12. ListInv'
    <3> SUFFICES ASSUME NEW d \in Bots \ raced'
                 PROVE  /\ d \in Autostart' => d \in intended'
                        /\ \A u \in Threads :
                             job'[u].op = "start listed" /\ job'[u].pc = "save"
                               /\ d \in job'[u].todo => d \in intended' \cup job'[u].names
      BY DEF ListInv
    <3>1. d \in Autostart' => d \in intended'
      BY <2>1, <2>11, <2>5 DEF Autostart
    <3>2. ASSUME NEW u \in Threads, job'[u].op = "start listed", job'[u].pc = "save",
                 d \in job'[u].todo
          PROVE  FALSE
      <4>1. u # t /\ job'[u] = job[u]
        BY <2>2, <2>3, <3>2 DEF Others
      <4>2. d \in Stale(t)
        BY <3>2, <4>1 DEF Stale
      <4> QED
        BY <2>5, <4>2
    <3> QED
      BY <3>1, <3>2
  <2>13. StopInv'
    <3>1. \A u \in Threads, d \in Bots : WillStart(u, d)' => WillStart(u, d)
      BY <2>2, <2>3 DEF WillStart, Others, Starting
    <3>2. \A d \in stopped' \ raced' : d \in stopped \ raced /\ d \in Bots /\ d \notin intended'
      <4>1. \A d \in stopped' \ raced' : d \in stopped \ raced /\ d \notin intended'
        BY <2>1, <2>5
      <4> QED
        BY <1>0, <4>1 DEF DataOK
    <3>3. \A d : Copies(d)' = Copies(d)
      BY <2>1 DEF Copies
    <3> QED
      BY <3>1, <3>2, <3>3 DEF IInv, StopInv
  <2> QED
    BY <1>0, <2>1, <2>6, <2>7, <2>8, <2>9, <2>10, <2>12, <2>13, TypePartsNext DEF IInv
<1>18. ASSUME NEW p \in Pids, Die(p) \/ OtherGuest(p) PROVE IInv'
  <2>1. /\ proc' \in {[proc EXCEPT ![p] = NoProcess], [proc EXCEPT ![p] = Guest]}
        /\ UNCHANGED <<pidFile, canonical, legacy, deadStreak, armed, job, deaths,
                       intended, stopped, raced>>
    BY <1>18 DEF Die, OtherGuest
  <2>2. \A b \in Bots : Copies(b)' \subseteq Copies(b)
    BY <1>0, <2>1, BotsAssumption DEF Copies, DataOK
  <2>3. DataOK'
    <3>1. proc' \in [Pids -> Bots \cup {Guest, NoProcess}]
      BY <1>0, <2>1 DEF DataOK
    <3> QED
      BY <1>0, <2>1, <3>1 DEF DataOK
  <2> QED
    BY <1>0, <2>1, <2>2, <2>3, Quiet
(* The threads are gone, and with them what they held.                      *)
<1>19. ASSUME AppDies \/ Reboot PROVE IInv'
  <2>1. /\ job' = [t \in Threads |-> Idle] /\ deaths < MaxDeaths /\ deaths' = deaths + 1
        /\ deadStreak' = [b \in Bots |-> 0]
        /\ UNCHANGED <<pidFile, canonical, legacy, intended, stopped>>
    BY <1>19 DEF AppDies, Reboot
  <2>2. raced \subseteq raced' /\ raced' \subseteq Bots
    BY <1>0, <1>19 DEF AppDies, Reboot, DataOK
  <2>3. /\ proc' \in {proc, [p \in Pids |-> NoProcess]}
        /\ armed' \in BOOLEAN
    BY <1>0, <1>19 DEF AppDies, Reboot
  <2>4. \A b \in Bots : Copies(b)' \subseteq Copies(b)
    BY <2>3, BotsAssumption DEF Copies
  <2>5. \A t \in Threads : job'[t] = Idle /\ job'[t].op = "none" /\ job'[t].pc = "idle"
    BY <2>1 DEF Idle
  <2>6. JobsOK'
    <3>1. job' \in [Threads -> Jobs]
      BY <2>1, IdleJob
    <3>2. \A t \in Threads : JobOK(t)'
      BY <2>5 DEF JobOK
    <3> QED
      BY <3>1, <3>2 DEF JobsOK
  <2>7. DataOK'
    <3>1. deaths' \in 0..MaxDeaths
      BY <1>0, <2>1, BoundsAssumption DEF DataOK
    <3>2. proc' \in [Pids -> Bots \cup {Guest, NoProcess}]
      BY <1>0, <2>3 DEF DataOK
    <3>3. deadStreak' \in [Bots -> 0..4]
      BY <2>1
    <3> QED
      BY <1>0, <2>1, <2>2, <3>1, <3>2, <3>3 DEF DataOK
  <2>8. OpInv' /\ HoldInv' /\ FirmInv'
    BY <2>5 DEF OpInv, HoldInv, Holds, FirmInv
  <2>9. Supervised'
    <3> SUFFICES ASSUME NEW b \in Bots \ raced', NEW p \in Copies(b)'
                 PROVE  pidFile[b] = p
      BY <2>1 DEF Supervised
    <3>1. CASE Reboot
      BY <3>1, BotsAssumption DEF Reboot, Copies
    <3>2. CASE AppDies
      <4>1. ~ \E t \in Threads : job[t].pc = "write" /\ job[t].bot = b
        BY <3>2 DEF AppDies
      <4>2. b \in Bots \ raced /\ p \in Copies(b)
        BY <2>2, <2>4
      <4> QED
        BY <4>1, <4>2 DEF IInv, Supervised
    <3> QED
      BY <1>19, <3>1, <3>2
  <2>10. ListInv'
    BY <2>1, <2>2, <2>5 DEF IInv, ListInv, Autostart
  <2>11. StopInv'
    <3>1. \A d \in stopped' \ raced' : d \in stopped \ raced /\ d \in Bots
      BY <1>0, <2>1, <2>2 DEF DataOK
    <3>2. \A t \in Threads, d \in Bots : ~ WillStart(t, d)'
      BY <2>5 DEF WillStart, Starting
    <3> QED
      BY <2>1, <2>4, <3>1, <3>2 DEF IInv, StopInv
  <2> QED
    BY <2>3, <2>6, <2>7, <2>8, <2>9, <2>10, <2>11, TypePartsNext DEF IInv
<1>20. CASE UNCHANGED vars
  <2>1. UNCHANGED <<proc, pidFile, canonical, legacy, deadStreak, armed, job, deaths,
                    intended, stopped, raced>>
    BY <1>20 DEF vars
  <2>2. DataOK' /\ \A b \in Bots : Copies(b)' = Copies(b)
    BY <1>0, <2>1 DEF DataOK, Copies
  <2> QED
    BY <1>0, <2>1, <2>2, Quiet
<1>21. ASSUME NEW t \in Threads, Step(t) PROVE IInv'
  <2>1. CASE Look(t)
    BY <1>3, <2>1 DEF Look
  <2>2. CASE Launch(t)
    BY <1>6, <1>8, <1>9, <1>10, <1>11, <1>12, <2>2 DEF Launch
  <2>3. CASE Halt(t)
    BY <1>13, <1>14, <1>15, <2>3 DEF Halt
  <2> QED
    BY <1>16, <1>17, <1>21, <2>1, <2>2, <2>3 DEF Step, Listing
<1>22. ASSUME NEW t \in Ensurers, Tick(t) \/ ServiceStart(t) PROVE IInv'
  <2>1. EnsureRestart(t) /\ armed' \in BOOLEAN
    BY <1>0, <1>22 DEF Tick, ServiceStart
  <2> QED
    BY <1>1, <2>1
<1>23. ASSUME NEW t \in Commanders, Request(t) PROVE IInv'
  <2>1. Targets \subseteq SUBSET Bots
    BY DEF Targets
  <2>2. ASSUME NEW bs \in Targets, NEW listed \in BOOLEAN, StartBots(t, bs, listed)
        PROVE  IInv'
    <3>1. PICK how \in {"start", "start listed"} : Command(t, how, bs)
      BY <2>2 DEF StartBots
    <3>2. stopped' = stopped \ bs /\ how # "stop" /\ bs \in SUBSET Bots
      BY <2>1, <2>2, <3>1 DEF StartBots
    <3>3. stopped' = IF how = "stop" THEN stopped ELSE stopped \ bs
      BY <3>2
    <3> QED
      BY <1>4, <3>1, <3>2, <3>3
  <2>3. ASSUME NEW bs \in Targets, StopBots(t, bs) PROVE IInv'
    <3>1. Command(t, "stop", bs) /\ stopped' = stopped /\ bs \in SUBSET Bots
      BY <2>1, <2>3 DEF StopBots
    <3> QED
      BY <1>4, <3>1
  <2> QED
    BY <1>5, <1>23, <2>2, <2>3 DEF Request
<1>24. CASE Phone
  BY <1>2, <1>18, <1>19, <1>24 DEF Phone
<1> QED
  BY <1>20, <1>21, <1>22, <1>23, <1>24 DEF Next
----
(* The inductive invariant holds in every reachable state.                  *)
THEOREM Invariance == Spec => []IInv
<1>1. Init => IInv
  BY InitIInv
<1>2. IInv /\ [Next]_vars => IInv'
  BY InvStep
<1> QED
  BY <1>1, <1>2, PTL DEF Spec

(* Every state is well typed: a thread's fields fit the place it has come   *)
(* to.                                                                      *)
THEOREM TypeCorrect == Spec => []TypeOK
<1>1. IInv => TypeOK
  BY DEF IInv
<1> QED
  BY <1>1, Invariance, PTL

(* Unless operations on it overlapped, its pid was lost or a kill of it     *)
(* failed, a bot runs once at most and its pid file names it (start, stop,  *)
(* isRunning).                                                              *)
THEOREM BotsSupervised == Spec => []Supervised
<1>1. IInv => Supervised
  BY DEF IInv
<1> QED
  BY <1>1, Invariance, PTL

(* A bot the user stopped and has not listed stays down, whatever dies and  *)
(* is restarted (ensureRestart, setAutostart), under the same exceptions.   *)
THEOREM StoppedStaysDown == Spec => []StopHolds
<1>1. IInv => StopHolds
  BY DEF IInv, StopInv, StopHolds
<1> QED
  BY <1>1, Invariance, PTL
====
