------------------------- MODULE ThreadStoreProofs -------------------------
(* Proofs about ThreadStore, for every set of threads, agents and messages. *)
EXTENDS ThreadStore, TLAPS

(* The inductive invariant. On a settled thread, what a turn or a           *)
(* compaction has loaded is still what the file holds: it is this that lets *)
(* them save over it.                                                       *)
Own(t) ==
    /\ IF live[t] = NoFile THEN notes[t] = NoAgent
                           ELSE By(live[t].agent, live[t], notes[t])
    /\ IF archived[t] = NoFile THEN oldNotes[t] = NoAgent
                               ELSE By(archived[t].agent, archived[t], oldNotes[t])
Kept(t) == owed[t] \subseteq Content(live[t]) \cup Content(archived[t])
Snapped(t) ==
    /\ turn[t] # NoTurn =>
         \/ live[t] = turn[t].snap
         \/ live[t] = NoFile /\ Content(turn[t].snap) = {}
    /\ \A a \in Agents :
         compaction[a] # NoCompaction /\ compaction[a].thread = t =>
           live[t] = compaction[a].snap
ThreadInv(t) == Own(t) /\ Kept(t) /\ Snapped(t)

IInv == TypeOK /\ \A t \in Settled : ThreadInv(t)

LEMMA InitIInv == Init => IInv
<1> SUFFICES ASSUME Init PROVE IInv
    OBVIOUS
<1>1. TypeOK
  BY DEF Init, TypeOK
<1>2. ASSUME NEW t \in Settled PROVE ThreadInv(t)
  <2>1. t \in Threads
    BY DEF Settled
  <2>2. /\ live[t] = NoFile /\ archived[t] = NoFile
        /\ notes[t] = NoAgent /\ oldNotes[t] = NoAgent
        /\ owed[t] = {} /\ turn[t] = NoTurn
        /\ \A a \in Agents : compaction[a] = NoCompaction
    BY <2>1 DEF Init
  <2> QED
    BY <2>2 DEF ThreadInv, Own, Kept, Snapped
<1> QED
  BY <1>1, <1>2 DEF IInv
----
(* A message is sent once.                                                  *)
LEMMA SendsFresh ==
    ASSUME NEW a \in Agents, NEW m \in Msgs, Sends(a, m)
    PROVE  author[m] = NoAgent
  BY DEF Sends

(* Files are records, whatever they are built from.                         *)
LEMMA FileType ==
    ASSUME NEW a \in Agents, NEW h \in SUBSET Msgs
    PROVE  /\ File(a, h) \in Files /\ File(a, h).agent = a
           /\ Content(File(a, h)) = h
  BY NoFileAssumption DEF File, Files, Content

LEMMA ContentOf ==
    ASSUME NEW f \in Files
    PROVE  f # NoFile /\ Content(f) = f.hist \cup f.base /\ Content(f) \in SUBSET Msgs
  BY NoFileAssumption DEF Files, Content

LEMMA WithType ==
    ASSUME NEW f \in Files, NEW m \in Msgs
    PROVE  /\ With(f, m) \in Files /\ With(f, m).agent = f.agent
           /\ Content(With(f, m)) = Content(f) \cup {m}
  BY NoFileAssumption DEF With, Files, Content

LEMMA SameAgent == ASSUME NEW f \in Files PROVE [f EXCEPT !.agent = f.agent] = f
  BY DEF Files

LEMMA ContentNone == Content(NoFile) = {}
  BY DEF Content

LEMMA MaterializedType ==
    ASSUME TypeOK, NEW t \in Threads, NEW a \in Agents
    PROVE  /\ Materialized(t, a) \in Files
           /\ live[t] # NoFile => Materialized(t, a) = live[t]
           /\ live[t] = NoFile =>
                /\ Materialized(t, a).agent = a
                /\ Content(Materialized(t, a)) = Replay(t)
<1>1. Replay(t) \in SUBSET Msgs
  BY DEF Replay
<1>2. live[t] \in Files \cup {NoFile}
  BY DEF TypeOK
<1> QED
  BY <1>1, <1>2, FileType DEF Materialized

(* A write that meets a snapshot marks its thread.                          *)
LEMMA Raced ==
    ASSUME NEW ts \in SUBSET Threads, Race(ts), TypeOK
    PROVE  /\ raced \subseteq raced'
           /\ \A t \in ts : t \notin raced' =>
                turn[t] = NoTurn /\ \A a \in Agents :
                  compaction[a] # NoCompaction => compaction[a].thread # t
  BY DEF Race, InTurn, InCompaction, TypeOK
----
(* What an action keeps: the marks only grow, a message keeps its sender.   *)
AuthorsStay == \A m \in Msgs : author[m] \in Agents => author'[m] = author[m]
Grows ==
    /\ AuthorsStay /\ replayed \subseteq replayed'
    /\ tangled \subseteq tangled' /\ raced \subseteq raced'

LEMMA AuthorsSend ==
    ASSUME TypeOK, NEW a \in Agents, NEW m \in Msgs, Sends(a, m)
    PROVE  AuthorsStay /\ author'[m] = a
  BY SendsFresh, NoneAssumption DEF AuthorsStay, Sends, TypeOK

LEMMA AuthorsSame == author' = author => AuthorsStay
  BY DEF AuthorsStay

(* Fits, after a step. What was an agent's to see stays so; what the audit  *)
(* replays to it now is.                                                    *)
FitsNow(m, a) == author'[m] = a \/ <<a, m>> \in replayed'

LEMMA FitsStays ==
    ASSUME Grows, NEW a \in Agents, NEW m \in Msgs, Fits(m, a)
    PROVE  FitsNow(m, a)
  BY DEF Grows, AuthorsStay, Fits, FitsNow

LEMMA ShowsType ==
    ASSUME TypeOK, NEW t \in Threads, NEW a \in Agents, Shows(t, a)
    PROVE  replayed \subseteq replayed' /\ replayed' \subseteq Agents \X Msgs
  BY DEF Shows, Replay, TypeOK

LEMMA ShowsFits ==
    ASSUME TypeOK, AuthorsStay, NEW t \in Threads, NEW a \in Agents, Shows(t, a),
           live[t] = NoFile
    PROVE  \A m \in Replay(t) : FitsNow(m, a)
<1> SUFFICES ASSUME NEW m \in Replay(t) PROVE FitsNow(m, a)
    OBVIOUS
<1>1. m \in Msgs
  BY DEF Replay
<1>2. CASE author[m] = a
  BY <1>1, <1>2 DEF AuthorsStay, FitsNow
<1>3. CASE author[m] # a
  BY <1>3 DEF Shows, FitsNow
<1> QED
  BY <1>2, <1>3

(* A thread that a step leaves alone.                                       *)
SameFiles(u) ==
    /\ live'[u] = live[u] /\ archived'[u] = archived[u]
    /\ notes'[u] = notes[u] /\ oldNotes'[u] = oldNotes[u]
    /\ owed'[u] = owed[u]
SameSnaps(u) ==
    /\ turn'[u] # NoTurn => turn[u] # NoTurn /\ turn'[u].snap = turn[u].snap
    /\ \A a \in Agents : compaction'[a] # NoCompaction /\ compaction'[a].thread = u
         => compaction'[a] = compaction[a]

LEMMA OwnStays ==
    ASSUME TypeOK, Grows, NEW u \in Threads, Own(u), SameFiles(u)
    PROVE  Own(u)'
<1>1. ASSUME NEW f \in Files, NEW n, By(f.agent, f, n) PROVE By(f.agent, f, n)'
  <2>1. f.agent \in Agents /\ Content(f) \subseteq Msgs
    BY ContentOf DEF Files
  <2> QED
    BY <1>1, <2>1, FitsStays DEF By, Fits, FitsNow, Content
<1>2. live[u] \in Files \cup {NoFile} /\ archived[u] \in Files \cup {NoFile}
  BY DEF TypeOK
<1>3. IF live'[u] = NoFile THEN notes'[u] = NoAgent
                           ELSE By(live[u].agent, live[u], notes[u])'
  BY <1>1, <1>2 DEF Own, SameFiles, By
<1> QED
  BY <1>1, <1>2, <1>3 DEF Own, SameFiles, By

LEMMA Elsewhere ==
    ASSUME TypeOK, Grows, NEW u \in Settled', IInv, SameFiles(u), SameSnaps(u)
    PROVE  ThreadInv(u)'
<1>1. u \in Settled /\ u \in Threads
  BY DEF Settled, Grows
<1>2. Own(u)'
  BY <1>1, OwnStays DEF IInv, ThreadInv, Grows
<1>3. Kept(u)' /\ Snapped(u)'
  BY <1>1 DEF IInv, ThreadInv, Kept, Snapped, SameFiles, SameSnaps, Content
<1> QED
  BY <1>2, <1>3 DEF ThreadInv
----
(* Every step keeps the types.                                              *)
LEMMA TypeStep == IInv /\ [Next]_vars => TypeOK'
<1> SUFFICES ASSUME IInv, [Next]_vars PROVE TypeOK'
    OBVIOUS
<1>0. TypeOK
  BY DEF IInv
<1>1. ASSUME NEW t \in Threads, NEW a \in Agents, NEW m \in Msgs, TurnBegins(t, a, m)
      PROVE  TypeOK'
  <2> DEFINE snap == IF live[t] = NoFile THEN File(a, {}) ELSE live[t]
  <2>1. snap \in Files /\ snap.agent = a
    BY <1>0, <1>1, FileType DEF TurnBegins, MayOpen, TypeOK
  <2>2. author[m] = NoAgent /\ author' = [author EXCEPT ![m] = a]
    BY <1>1, SendsFresh DEF TurnBegins, TurnLoads, Sends
  <2>3. turn' = [turn EXCEPT ![t] = [running |-> FALSE, msg |-> m, snap |-> snap]]
    BY <1>1 DEF TurnBegins, TurnLoads
  <2>4. turn' \in [Threads -> [running : BOOLEAN, snap : Files, msg : Msgs]
                                \cup {NoTurn}]
    BY <1>0, <2>1, <2>3 DEF TypeOK
  <2>5. \A u \in Threads : turn'[u] # NoTurn =>
          turn'[u].snap.agent = author'[turn'[u].msg]
    BY <1>0, <2>1, <2>2, <2>3, NoneAssumption DEF TypeOK, Files
  <2> HIDE DEF snap
  <2> QED
    BY <1>0, <1>1, <2>2, <2>4, <2>5
       DEF TypeOK, TurnBegins, TurnLoads, files, history
<1>2. ASSUME NEW t \in Threads, TurnRuns(t) PROVE TypeOK'
  <2>1. turn' \in [Threads -> [running : BOOLEAN, snap : Files, msg : Msgs]
                                \cup {NoTurn}]
    <3>1. turn[t] \in [running : BOOLEAN, snap : Files, msg : Msgs]
      BY <1>0, <1>2 DEF TypeOK, TurnRuns, InTurn
    <3>2. [turn[t] EXCEPT !.running = TRUE]
            \in [running : BOOLEAN, snap : Files, msg : Msgs]
      BY <3>1
    <3>3. turn' = [turn EXCEPT ![t] = [turn[t] EXCEPT !.running = TRUE]]
      BY <1>2 DEF TurnRuns
    <3> QED
      BY <1>0, <3>2, <3>3 DEF TypeOK
  <2>2. \A u \in Threads : turn'[u] # NoTurn =>
          turn[u] # NoTurn /\ turn'[u].snap = turn[u].snap /\ turn'[u].msg = turn[u].msg
    BY <1>0, <1>2 DEF TypeOK, TurnRuns, InTurn
  <2> QED
    BY <1>0, <1>2, <2>1, <2>2 DEF TypeOK, TurnRuns, files, history
<1>3. ASSUME NEW t \in Threads, TurnSaves(t) PROVE TypeOK'
  <2>1. With(turn[t].snap, turn[t].msg) \in Files
    BY <1>0, <1>3, WithType DEF TypeOK, TurnSaves, InTurn
  <2> QED
    BY <1>0, <1>3, <2>1 DEF TypeOK, TurnSaves, InTurn, Files
<1>4. ASSUME NEW t \in Threads, NEW audited \in BOOLEAN, TurnFails(t, audited)
      PROVE  TypeOK'
  BY <1>0, <1>4 DEF TypeOK, TurnFails, InTurn, Files, files, history
<1>5. ASSUME NEW t \in Threads, NEW a \in Agents, NEW m \in Msgs, Note(t, a, m)
      PROVE  TypeOK'
  <2>1. With(Materialized(t, a), m) \in Files
    BY <1>0, MaterializedType, WithType
  <2>2. live' \in [Threads -> Files \cup {NoFile}]
    BY <1>0, <1>5, <2>1 DEF Note, TypeOK
  <2>3. raced' \subseteq Threads
    BY <1>0, <1>5 DEF Note, Race, TypeOK
  <2>4. author[m] = NoAgent /\ author' = [author EXCEPT ![m] = a]
    BY <1>5, SendsFresh DEF Note, Sends
  <2>5. \A u \in Threads : turn'[u] # NoTurn =>
          turn'[u].snap.agent = author'[turn'[u].msg]
    BY <1>0, <1>5, <2>4, NoneAssumption DEF TypeOK, Files, Note
  <2> QED
    BY <1>0, <1>5, <2>2, <2>3, <2>4, <2>5, ShowsType DEF TypeOK, Note
<1>6. ASSUME NEW t \in Threads, NEW a \in Agents, Resume(t, a) PROVE TypeOK'
  BY <1>0, <1>6, MaterializedType, ShowsType DEF TypeOK, Resume, Race
<1>7. ASSUME NEW t \in Threads, NEW a \in Agents, Rename(t, a) \/ Memories(t, a)
      PROVE  TypeOK'
  BY <1>0, <1>7 DEF TypeOK, Rename, Memories, Race, files, history
<1>8. ASSUME NEW src \in Threads, NEW dst \in Threads, NEW a \in Agents,
             Fork(src, dst, a)
      PROVE  TypeOK'
  <2>1. Materialized(src, a) \in Files /\ Content(Materialized(src, a)) \in SUBSET Msgs
    BY <1>0, MaterializedType, ContentOf
  <2> QED
    BY <1>0, <1>8, <2>1, ShowsType DEF TypeOK, Fork, ForkFile, Race, Files
<1>9. ASSUME NEW t \in Threads, NEW a \in Agents, NEW m \in Msgs,
             NEW mode \in {"fail", "append", "overwrite"}, Import(t, a, m, mode)
      PROVE  TypeOK'
  <2>1. live[t] # NoFile => [With(live[t], m) EXCEPT !.agent = a] \in Files
    <3>1. live[t] # NoFile => With(live[t], m) \in Files
      BY <1>0, WithType DEF TypeOK
    <3> QED
      BY <3>1 DEF Files
  <2>2. File(a, {m}) \in Files
    BY FileType
  <2>3. live' \in [Threads -> Files \cup {NoFile}]
    BY <1>0, <1>9, <2>1, <2>2 DEF Import, TypeOK
  <2>4. raced' \subseteq Threads /\ tangled' \subseteq Threads
    BY <1>0, <1>9 DEF Import, Race, TypeOK
  <2>5. author[m] = NoAgent /\ author' = [author EXCEPT ![m] = a]
    BY <1>9, SendsFresh DEF Import, Sends
  <2>6. \A u \in Threads : turn'[u] # NoTurn =>
          turn'[u].snap.agent = author'[turn'[u].msg]
    BY <1>0, <1>9, <2>5, NoneAssumption DEF TypeOK, Files, Import
  <2>7. owed' \in [Threads -> SUBSET Msgs]
    BY <1>0, <1>9 DEF Import, TypeOK
  <2> QED
    BY <1>0, <1>9, <2>3, <2>4, <2>5, <2>6, <2>7 DEF TypeOK, Import
<1>10. ASSUME NEW t \in Threads, NEW a \in Agents, CompactBegins(t, a) PROVE TypeOK'
  <2>1. Materialized(t, a) \in Files /\ Materialized(t, a).agent = a
    BY <1>0, <1>10, MaterializedType DEF CompactBegins, MayOpen
  <2> QED
    BY <1>0, <1>10, <2>1, ShowsType DEF TypeOK, CompactBegins, Race
<1>11. ASSUME NEW a \in Agents, CompactSaves(a) PROVE TypeOK'
  <2> DEFINE t == compaction[a].thread
             f == compaction[a].snap
  <2>1. t \in Threads /\ f \in Files
    BY <1>0, <1>11 DEF CompactSaves, TypeOK
  <2>2. [f EXCEPT !.hist = {}, !.base = f.hist] \in Files
    BY <2>1 DEF Files
  <2>3. /\ live' = [live EXCEPT ![t] = [f EXCEPT !.hist = {}, !.base = f.hist]]
        /\ owed' = [owed EXCEPT ![t] = @ \ (f.base \ f.hist)]
        /\ raced' \subseteq raced \cup {t}
        /\ compaction' = [compaction EXCEPT ![a] = NoCompaction]
    BY <1>11 DEF CompactSaves
  <2> HIDE DEF t, f
  <2> QED
    BY <1>0, <1>11, <2>1, <2>2, <2>3 DEF TypeOK, CompactSaves
<1>12. ASSUME NEW a \in Agents, CompactFails(a) PROVE TypeOK'
  BY <1>0, <1>12 DEF TypeOK, CompactFails, files, history
<1>13. ASSUME NEW t \in Threads, NEW a \in Agents, NEW whole \in BOOLEAN,
              Archive(t, a, whole)
       PROVE  TypeOK'
  BY <1>0, <1>13 DEF TypeOK, Archive, Race
<1>14. ASSUME NEW t \in Threads, NEW a \in Agents, NEW whole \in BOOLEAN,
              Unarchive(t, a, whole)
       PROVE  TypeOK'
  BY <1>0, <1>14 DEF TypeOK, Unarchive, Unarchived, Race
<1>15. CASE Restart
  BY <1>0, <1>15 DEF TypeOK, Restart, files, history
<1>16. CASE UNCHANGED vars
  BY <1>0, <1>16 DEF TypeOK, vars, files, history
<1> QED
  BY <1>1, <1>2, <1>3, <1>4, <1>5, <1>6, <1>7, <1>8, <1>9, <1>10, <1>11, <1>12,
     <1>13, <1>14, <1>15, <1>16 DEF Next, Step
----
(* Every step keeps what is claimed of each settled thread: of the threads  *)
(* the step does not touch by Elsewhere, of the others one by one.          *)
LEMMA OwnFile ==
    ASSUME TypeOK, Grows, NEW t \in Threads, Own(t), live[t] # NoFile
    PROVE  /\ \A m \in Content(live[t]) : FitsNow(m, live[t].agent)
           /\ notes[t] \in {live[t].agent, NoAgent}
<1>1. live[t] \in Files /\ live[t].agent \in Agents
  BY DEF TypeOK, Files
<1>2. Content(live[t]) \subseteq Msgs
  BY <1>1, ContentOf
<1> QED
  BY <1>1, <1>2, FitsStays DEF Own, By

LEMMA OwnArchive ==
    ASSUME TypeOK, Grows, NEW t \in Threads, Own(t)
    PROVE  IF archived[t] = NoFile THEN oldNotes[t] = NoAgent
           ELSE /\ \A m \in Content(archived[t]) : FitsNow(m, archived[t].agent)
                /\ oldNotes[t] \in {archived[t].agent, NoAgent}
<1>1. archived[t] # NoFile => archived[t] \in Files /\ archived[t].agent \in Agents
  BY DEF TypeOK, Files
<1>2. archived[t] # NoFile => Content(archived[t]) \subseteq Msgs
  BY <1>1, ContentOf
<1> QED
  BY <1>1, <1>2, FitsStays DEF Own, By

(* A file written in the place of live[t], beside the same archive.         *)
LEMMA Written ==
    ASSUME TypeOK, Grows, NEW t \in Threads, Own(t), NEW f \in Files,
           live'[t] = f, archived'[t] = archived[t], oldNotes'[t] = oldNotes[t],
           \A m \in Content(f) : FitsNow(m, f.agent),
           notes'[t] \in {f.agent, NoAgent},
           owed'[t] \subseteq Content(f) \cup Content(archived[t])
    PROVE  Own(t)' /\ Kept(t)'
<1>1. f # NoFile
  BY ContentOf
<1>2. IF archived[t] = NoFile THEN oldNotes[t] = NoAgent
      ELSE /\ \A m \in Content(archived[t]) : FitsNow(m, archived[t].agent)
           /\ oldNotes[t] \in {archived[t].agent, NoAgent}
  BY OwnArchive
<1> QED
  BY <1>1, <1>2 DEF Own, Kept, By, Fits, FitsNow, Content

(* No snapshot of a settled thread survives a write.                        *)
LEMMA Unsnapped ==
    ASSUME NEW t \in Settled', NEW ts \in SUBSET Threads, t \in ts, Race(ts),
           TypeOK, turn' = turn, compaction' = compaction
    PROVE  Snapped(t)'
  BY Raced DEF Settled, Snapped

LEMMA InvStep == ASSUME IInv, [Next]_vars PROVE IInv'
<1>0. TypeOK /\ \A t \in Settled : ThreadInv(t)
  BY DEF IInv
<1>1. TypeOK'
  BY TypeStep
<1> USE <1>0
<1>2. ASSUME NEW t \in Threads, NEW a \in Agents, NEW m \in Msgs, TurnBegins(t, a, m)
      PROVE  IInv'
  <2>1. AuthorsStay /\ Grows
    BY <1>2, AuthorsSend DEF TurnBegins, TurnLoads, Grows, history
  <2>2. ASSUME NEW u \in Settled', u # t PROVE ThreadInv(u)'
    <3>1. u \in Threads /\ SameFiles(u)
      BY <1>2 DEF Settled, TurnBegins, TurnLoads, SameFiles, files, history
    <3>2. SameSnaps(u)
      BY <1>2, <2>2, <3>1 DEF TurnBegins, TurnLoads, SameSnaps, TypeOK
    <3> QED
      BY <2>1, <3>1, <3>2, Elsewhere
  <2>3. ASSUME t \in Settled' PROVE ThreadInv(t)'
    <3>1. t \in Settled /\ SameFiles(t)
      BY <1>2, <2>3 DEF Settled, TurnBegins, TurnLoads, SameFiles, files, history
    <3>2. Own(t)' /\ Kept(t)'
      BY <2>1, <3>1, OwnStays DEF ThreadInv, Kept, SameFiles, Content
    <3>3. turn'[t] # NoTurn =>
            \/ live'[t] = turn'[t].snap
            \/ live'[t] = NoFile /\ Content(turn'[t].snap) = {}
      BY <1>2, FileType DEF TurnBegins, TurnLoads, TypeOK, files
    <3>4. Snapped(t)'
      BY <1>2, <3>1, <3>3 DEF ThreadInv, Snapped, TurnBegins, TurnLoads, files, Content
    <3> QED
      BY <3>2, <3>4 DEF ThreadInv
  <2> QED
    BY <1>1, <2>2, <2>3 DEF IInv
<1>3. ASSUME NEW t \in Threads, TurnRuns(t) PROVE IInv'
  <2>1. Grows /\ AuthorsStay
    BY <1>3, AuthorsSame DEF TurnRuns, Grows, history
  <2>2. ASSUME NEW u \in Settled' PROVE ThreadInv(u)'
    <3>1. u \in Threads /\ SameFiles(u)
      BY <1>3 DEF Settled, TurnRuns, SameFiles, files, history
    <3>2. SameSnaps(u)
      BY <1>3, <3>1 DEF TurnRuns, InTurn, SameSnaps, TypeOK
    <3> QED
      BY <2>1, <3>1, <3>2, Elsewhere
  <2> QED
    BY <1>1, <2>2 DEF IInv
<1>4. ASSUME NEW t \in Threads, TurnSaves(t) PROVE IInv'
  <2> DEFINE snap == turn[t].snap
             m == turn[t].msg
  <2>1. snap \in Files /\ m \in Msgs /\ author[m] = snap.agent /\ snap.agent \in Agents
    BY <1>4 DEF TurnSaves, InTurn, TypeOK, Files
  <2>2. Grows /\ AuthorsStay
    BY <1>4, AuthorsSame DEF TurnSaves, Grows
  <2>3. ASSUME NEW u \in Settled', u # t PROVE ThreadInv(u)'
    <3>1. u \in Threads /\ SameFiles(u)
      BY <1>4, <2>3 DEF Settled, TurnSaves, SameFiles, TypeOK
    <3>2. SameSnaps(u)
      BY <1>4, <2>3, <3>1 DEF TurnSaves, SameSnaps, TypeOK
    <3> QED
      BY <2>2, <3>1, <3>2, Elsewhere
  <2>4. ASSUME t \in Settled' PROVE ThreadInv(t)'
    <3>1. t \in Settled /\ ~InCompaction(t)
      BY <1>4, <2>4 DEF Settled, TurnSaves
    <3>2. \/ live[t] = snap
          \/ live[t] = NoFile /\ Content(snap) = {}
      BY <1>4, <3>1 DEF ThreadInv, Snapped, TurnSaves, InTurn
    <3>3. /\ With(snap, m) \in Files /\ With(snap, m).agent = snap.agent
          /\ Content(With(snap, m)) = Content(snap) \cup {m}
      BY <2>1, WithType
    <3>4. /\ live'[t] = With(snap, m) /\ archived'[t] = archived[t]
          /\ notes'[t] = notes[t] /\ oldNotes'[t] = oldNotes[t]
          /\ owed'[t] = owed[t] \cup {m} /\ author' = author
      BY <1>4 DEF TurnSaves, TypeOK
    <3>5. Own(t) /\ Kept(t)
      BY <3>1 DEF ThreadInv
    <3>6. /\ \A x \in Content(snap) : FitsNow(x, snap.agent)
          /\ notes[t] \in {snap.agent, NoAgent}
      <4>1. CASE live[t] = snap
        BY <2>1, <2>2, <3>5, <4>1, OwnFile, ContentOf
      <4>2. CASE live[t] = NoFile /\ Content(snap) = {}
        BY <3>5, <4>2 DEF Own
      <4> QED
        BY <3>2, <4>1, <4>2
    <3>7. owed[t] \subseteq Content(snap) \cup Content(archived[t])
      BY <3>2, <3>5, ContentNone DEF Kept
    <3> HIDE DEF snap, m
    <3>8. Own(t)' /\ Kept(t)'
      BY <2>1, <2>2, <3>3, <3>4, <3>5, <3>6, <3>7, Written DEF FitsNow
    <3>9. Snapped(t)'
      BY <1>4, <3>1 DEF TurnSaves, InCompaction, Snapped, TypeOK
    <3> QED
      BY <3>8, <3>9 DEF ThreadInv
  <2> QED
    BY <1>1, <2>3, <2>4 DEF IInv
<1>5. ASSUME NEW t \in Threads, NEW audited \in BOOLEAN, TurnFails(t, audited)
      PROVE  IInv'
  <2>1. Grows /\ AuthorsStay
    BY <1>5, AuthorsSame DEF TurnFails, Grows, history
  <2>2. ASSUME NEW u \in Settled' PROVE ThreadInv(u)'
    <3>1. u \in Threads /\ SameFiles(u)
      BY <1>5 DEF Settled, TurnFails, SameFiles, files, history
    <3>2. SameSnaps(u)
      BY <1>5, <3>1 DEF TurnFails, SameSnaps, TypeOK
    <3> QED
      BY <2>1, <3>1, <3>2, Elsewhere
  <2> QED
    BY <1>1, <2>2 DEF IInv
<1>6. ASSUME NEW t \in Threads, NEW a \in Agents, NEW m \in Msgs, Note(t, a, m)
      PROVE  IInv'
  <2> DEFINE f == Materialized(t, a)
  <2>1. AuthorsStay /\ author'[m] = a
    BY <1>6, AuthorsSend DEF Note
  <2>2. Grows
    BY <1>6, <2>1, Raced, ShowsType DEF Note, Grows
  <2>3. ASSUME NEW u \in Settled', u # t PROVE ThreadInv(u)'
    <3>1. u \in Threads /\ SameFiles(u)
      BY <1>6, <2>3 DEF Settled, Note, SameFiles, TypeOK
    <3>2. SameSnaps(u)
      BY <1>6 DEF Note, SameSnaps
    <3> QED
      BY <2>2, <3>1, <3>2, Elsewhere
  <2>4. ASSUME t \in Settled' PROVE ThreadInv(t)'
    <3>1. t \in Settled /\ Own(t) /\ Kept(t)
      BY <2>2, <2>4 DEF Settled, Grows, ThreadInv
    <3>2. f \in Files /\ f.agent = a /\ Content(f) \in SUBSET Msgs
      BY <1>6, MaterializedType, ContentOf DEF Note, MayOpen
    <3>3. (\A x \in Content(f) : FitsNow(x, a)) /\ notes[t] \in {a, NoAgent}
      <4>1. CASE live[t] # NoFile
        BY <1>6, <2>2, <3>1, <4>1, OwnFile, MaterializedType DEF Note, MayOpen
      <4>2. CASE live[t] = NoFile
        BY <1>6, <2>1, <3>1, <4>2, MaterializedType, ShowsFits DEF Note, Own
      <4> QED
        BY <4>1, <4>2
    <3>4. owed[t] \subseteq Content(f) \cup Content(archived[t])
      BY <3>1, MaterializedType, ContentNone DEF Kept
    <3>5. /\ With(f, m) \in Files /\ With(f, m).agent = a
          /\ Content(With(f, m)) = Content(f) \cup {m}
      BY <3>2, WithType
    <3>6. /\ live'[t] = With(f, m) /\ archived'[t] = archived[t]
          /\ notes'[t] = notes[t] /\ oldNotes'[t] = oldNotes[t]
          /\ owed'[t] = owed[t] \cup {m}
      BY <1>6 DEF Note, TypeOK
    <3> HIDE DEF f
    <3>7. Own(t)' /\ Kept(t)'
      BY <2>1, <2>2, <3>1, <3>3, <3>4, <3>5, <3>6, Written DEF FitsNow
    <3>8. Snapped(t)'
      BY <1>6, <2>4, Unsnapped DEF Note
    <3> QED
      BY <3>7, <3>8 DEF ThreadInv
  <2> QED
    BY <1>1, <2>3, <2>4 DEF IInv
<1>7. ASSUME NEW t \in Threads, NEW a \in Agents, Resume(t, a) PROVE IInv'
  <2> DEFINE f == Materialized(t, a)
  <2>1. Grows /\ AuthorsStay
    BY <1>7, AuthorsSame, Raced, ShowsType DEF Resume, Grows
  <2>2. ASSUME NEW u \in Settled', u # t PROVE ThreadInv(u)'
    <3>1. u \in Threads /\ SameFiles(u)
      BY <1>7, <2>2 DEF Settled, Resume, SameFiles, TypeOK, history
    <3>2. SameSnaps(u)
      BY <1>7 DEF Resume, SameSnaps
    <3> QED
      BY <2>1, <3>1, <3>2, Elsewhere
  <2>3. ASSUME t \in Settled' PROVE ThreadInv(t)'
    <3>1. t \in Settled /\ Own(t) /\ Kept(t)
      BY <2>1, <2>3 DEF Settled, Grows, ThreadInv
    <3>2. /\ f \in Files /\ f.agent = a /\ Content(f) \in SUBSET Msgs
          /\ \A x \in Content(f) : FitsNow(x, a)
      BY <1>7, <2>1, MaterializedType, ContentOf, ShowsFits DEF Resume
    <3>3. notes[t] = NoAgent /\ owed[t] \subseteq Content(archived[t])
      BY <1>7, <3>1, ContentNone DEF Own, Kept, Resume
    <3>4. /\ live'[t] = f /\ archived'[t] = archived[t]
          /\ notes'[t] = notes[t] /\ oldNotes'[t] = oldNotes[t]
          /\ owed'[t] = owed[t]
      BY <1>7 DEF Resume, TypeOK, history
    <3> HIDE DEF f
    <3>5. Own(t)' /\ Kept(t)'
      BY <2>1, <3>1, <3>2, <3>3, <3>4, Written
    <3>6. Snapped(t)'
      BY <1>7, <2>3, Unsnapped DEF Resume
    <3> QED
      BY <3>5, <3>6 DEF ThreadInv
  <2> QED
    BY <1>1, <2>2, <2>3 DEF IInv
<1>8. ASSUME NEW t \in Threads, NEW a \in Agents, Rename(t, a) PROVE IInv'
  <2>1. Grows /\ AuthorsStay
    BY <1>8, AuthorsSame, Raced DEF Rename, Grows, history
  <2>2. ASSUME NEW u \in Settled' PROVE ThreadInv(u)'
    <3>1. u \in Threads /\ SameFiles(u) /\ SameSnaps(u)
      BY <1>8 DEF Settled, Rename, SameFiles, SameSnaps, files, history
    <3> QED
      BY <2>1, <3>1, Elsewhere
  <2> QED
    BY <1>1, <2>2 DEF IInv
<1>9. ASSUME NEW t \in Threads, NEW a \in Agents, Memories(t, a) PROVE IInv'
  <2>1. Grows /\ AuthorsStay
    BY <1>9, AuthorsSame DEF Memories, Grows, history
  <2>2. ASSUME NEW u \in Settled', u # t PROVE ThreadInv(u)'
    <3>1. u \in Threads /\ SameFiles(u) /\ SameSnaps(u)
      BY <1>9, <2>2 DEF Settled, Memories, SameFiles, SameSnaps, TypeOK, history
    <3> QED
      BY <2>1, <3>1, Elsewhere
  <2>3. ASSUME t \in Settled' PROVE ThreadInv(t)'
    <3>1. t \in Settled /\ Own(t) /\ Kept(t) /\ Snapped(t)
      BY <2>1, <2>3 DEF Settled, Grows, ThreadInv
    <3>2. live[t] # NoFile /\ live[t] \in Files /\ live[t].agent = a
      BY <1>9 DEF Memories, Owned, TypeOK
    <3>3. /\ live'[t] = live[t] /\ archived'[t] = archived[t]
          /\ notes'[t] = a /\ oldNotes'[t] = oldNotes[t] /\ owed'[t] = owed[t]
      BY <1>9 DEF Memories, TypeOK, history
    <3>4. \A x \in Content(live[t]) : FitsNow(x, a)
      BY <2>1, <3>1, <3>2, OwnFile
    <3>5. Own(t)' /\ Kept(t)'
      BY <2>1, <3>1, <3>2, <3>3, <3>4, Written DEF Kept
    <3>6. Snapped(t)'
      BY <1>9, <3>1 DEF Memories, Snapped, Content
    <3> QED
      BY <3>5, <3>6 DEF ThreadInv
  <2> QED
    BY <1>1, <2>2, <2>3 DEF IInv
<1>10. ASSUME NEW src \in Threads, NEW dst \in Threads, NEW a \in Agents,
              Fork(src, dst, a)
       PROVE  IInv'
  <2> DEFINE f == Materialized(src, a)
  <2>0. /\ live[dst] = NoFile /\ src # dst
        /\ live' = [live EXCEPT ![src] = IF @ = NoFile THEN f ELSE @,
                                ![dst] = [f EXCEPT !.agent = a]]
        /\ tangled' = tangled \cup (IF src \in tangled \cup raced THEN {dst} ELSE {})
        /\ Race({dst} \cup (IF live[src] = NoFile THEN {src} ELSE {}))
        /\ archived' = archived /\ oldNotes' = oldNotes /\ audit' = audit
        /\ turn' = turn /\ compaction' = compaction /\ author' = author
        /\ notes' = [notes EXCEPT ![dst] =
             IF notes[src] = NoAgent THEN @ ELSE notes[src]]
        /\ Shows(src, a)
        /\ owed' = [owed EXCEPT ![dst] = @ \cup Content(f)]
    BY <1>10 DEF Fork, ForkFile
  <2>1. Grows /\ AuthorsStay
    BY <2>0, AuthorsSame, Raced, ShowsType DEF Grows
  <2>2. /\ f \in Files /\ f.agent = a /\ Content(f) \in SUBSET Msgs
        /\ live[src] # NoFile => f = live[src]
        /\ live[src] = NoFile => \A x \in Content(f) : FitsNow(x, a)
    BY <1>10, <2>0, <2>1, MaterializedType, ContentOf, ShowsFits DEF Fork, MayOpen
  <2>3. [f EXCEPT !.agent = a] = f
    BY <2>2 DEF Files
  <2>4. /\ live'[src] = f /\ live'[dst] = f
        /\ \A u \in Threads \ {src, dst} : live'[u] = live[u]
    BY <2>0, <2>2, <2>3 DEF TypeOK
  <2> HIDE DEF f
  <2>5. \A u \in Threads : SameSnaps(u)
    BY <2>0 DEF SameSnaps
  <2>6. ASSUME NEW u \in Settled', u \notin {src, dst} PROVE ThreadInv(u)'
    <3>1. u \in Threads /\ SameFiles(u)
      BY <2>0, <2>4, <2>6 DEF Settled, SameFiles, TypeOK
    <3> QED
      BY <2>1, <2>5, <3>1, Elsewhere
  <2>7. ASSUME src \in Settled' PROVE ThreadInv(src)'
    <3>1. src \in Settled /\ Own(src) /\ Kept(src)
      BY <2>1, <2>7 DEF Settled, Grows, ThreadInv
    <3>2. CASE live[src] # NoFile
      <4>1. SameFiles(src)
        BY <2>0, <2>2, <2>4, <3>2 DEF SameFiles, TypeOK
      <4> QED
        BY <2>1, <2>5, <2>7, <4>1, Elsewhere
    <3>3. CASE live[src] = NoFile
      <4>1. /\ notes'[src] = NoAgent /\ archived'[src] = archived[src]
            /\ oldNotes'[src] = oldNotes[src] /\ owed'[src] = owed[src]
            /\ owed[src] \subseteq Content(archived[src])
        BY <2>0, <3>1, <3>3, ContentNone DEF TypeOK, Own, Kept
      <4>2. Own(src)' /\ Kept(src)'
        BY <2>1, <2>2, <2>4, <3>1, <3>3, <4>1, Written
      <4>3. Snapped(src)'
        BY <2>0, <2>7, <3>3, Unsnapped
      <4> QED
        BY <4>2, <4>3 DEF ThreadInv
    <3> QED
      BY <3>2, <3>3
  <2>8. ASSUME dst \in Settled' PROVE ThreadInv(dst)'
    <3>1. /\ dst \in Settled /\ Own(dst) /\ Kept(dst)
          /\ src \in Settled /\ Own(src)
      BY <2>0, <2>1, <2>8 DEF Settled, Grows, ThreadInv
    <3>2. (\A x \in Content(f) : FitsNow(x, a)) /\ notes[src] \in {a, NoAgent}
      <4>1. CASE live[src] # NoFile
        BY <2>1, <2>2, <3>1, <4>1, OwnFile
      <4>2. CASE live[src] = NoFile
        BY <2>2, <3>1, <4>2 DEF Own
      <4> QED
        BY <4>1, <4>2
    <3>3. notes[dst] = NoAgent /\ owed[dst] \subseteq Content(archived[dst])
      BY <2>0, <3>1, ContentNone DEF Own, Kept
    <3>4. /\ notes'[dst] \in {a, NoAgent} /\ archived'[dst] = archived[dst]
          /\ oldNotes'[dst] = oldNotes[dst] /\ owed'[dst] = owed[dst] \cup Content(f)
      BY <2>0, <3>2, <3>3 DEF TypeOK
    <3>5. Own(dst)' /\ Kept(dst)'
      BY <2>1, <2>2, <2>4, <3>1, <3>2, <3>3, <3>4, Written
    <3>6. Snapped(dst)'
      BY <2>0, <2>8, Unsnapped
    <3> QED
      BY <3>5, <3>6 DEF ThreadInv
  <2> QED
    BY <1>1, <2>6, <2>7, <2>8 DEF IInv
<1>11. ASSUME NEW t \in Threads, NEW a \in Agents, NEW m \in Msgs,
              NEW mode \in {"fail", "append", "overwrite"}, Import(t, a, m, mode)
       PROVE  IInv'
  <2> DEFINE f == [With(live[t], m) EXCEPT !.agent = a]
             g == File(a, {m})
             appends == mode = "append" /\ live[t] # NoFile
  <2>1. AuthorsStay /\ author'[m] = a
    BY <1>11, AuthorsSend DEF Import
  <2>2. Grows
    BY <1>11, <2>1, Raced DEF Import, Grows
  <2>3. ASSUME NEW u \in Settled', u # t PROVE ThreadInv(u)'
    <3>1. u \in Threads /\ SameFiles(u)
      BY <1>11, <2>3 DEF Settled, Import, SameFiles, TypeOK
    <3>2. SameSnaps(u)
      BY <1>11 DEF Import, SameSnaps
    <3> QED
      BY <2>2, <3>1, <3>2, Elsewhere
  <2>4. ASSUME t \in Settled' PROVE ThreadInv(t)'
    <3>1. t \in Settled /\ Own(t) /\ Kept(t) /\ MayOpen(t, a)
      BY <1>11, <2>2, <2>4 DEF Settled, Grows, ThreadInv, Import
    <3>2. notes[t] \in {a, NoAgent}
      BY <2>2, <3>1, OwnFile DEF MayOpen, Own
    <3>3. /\ archived'[t] = archived[t]
          /\ notes'[t] = notes[t] /\ oldNotes'[t] = oldNotes[t]
          /\ live'[t] = IF appends THEN f ELSE g
          /\ owed'[t] = {m} \cup IF appends THEN owed[t] ELSE owed[t] \ Content(live[t])
      BY <1>11 DEF Import, TypeOK
    <3>4. g \in Files /\ g.agent = a /\ Content(g) = {m}
      BY FileType
    <3>5. appends => /\ f \in Files /\ f.agent = a
                     /\ Content(f) = Content(live[t]) \cup {m}
                     /\ \A x \in Content(f) : FitsNow(x, a)
      <4>1. SUFFICES ASSUME appends
                     PROVE  /\ f \in Files /\ f.agent = a
                            /\ Content(f) = Content(live[t]) \cup {m}
                            /\ \A x \in Content(f) : FitsNow(x, a)
        OBVIOUS
      <4>2. live[t] \in Files /\ live[t].agent = a
        BY <3>1, <4>1 DEF TypeOK, MayOpen
      <4>3. With(live[t], m) \in Files /\ With(live[t], m).agent = a
        BY <4>2, WithType
      <4>4. f = With(live[t], m)
        BY <4>3, SameAgent
      <4>5. Content(With(live[t], m)) = Content(live[t]) \cup {m}
        BY <4>2, WithType
      <4> QED
        BY <2>1, <2>2, <3>1, <4>1, <4>2, <4>3, <4>4, <4>5, OwnFile DEF FitsNow
    <3>6. owed'[t] \subseteq Content(live'[t]) \cup Content(archived[t])
      BY <3>1, <3>3, <3>4, <3>5 DEF Kept
    <3> HIDE DEF f, g
    <3>7. ASSUME appends PROVE Own(t)' /\ Kept(t)'
      BY <2>2, <3>1, <3>2, <3>3, <3>5, <3>6, <3>7, Written
    <3>8. ASSUME ~appends PROVE Own(t)' /\ Kept(t)'
      BY <2>1, <2>2, <3>1, <3>2, <3>3, <3>4, <3>6, <3>8, Written DEF FitsNow
    <3>9. Snapped(t)'
      BY <1>11, <2>4, Unsnapped DEF Import
    <3> QED
      BY <3>7, <3>8, <3>9 DEF ThreadInv
  <2> QED
    BY <1>1, <2>3, <2>4 DEF IInv
<1>12. ASSUME NEW t \in Threads, NEW a \in Agents, CompactBegins(t, a) PROVE IInv'
  <2> DEFINE f == Materialized(t, a)
  <2>0. /\ live' = [live EXCEPT ![t] = f]
        /\ compaction' = [compaction EXCEPT ![a] = [thread |-> t, snap |-> f]]
        /\ live[t] = NoFile => Race({t})
        /\ live[t] # NoFile => raced' = raced
        /\ archived' = archived /\ notes' = notes /\ oldNotes' = oldNotes
        /\ audit' = audit /\ turn' = turn /\ author' = author
        /\ owed' = owed /\ tangled' = tangled /\ Shows(t, a)
    BY <1>12 DEF CompactBegins
  <2>1. Grows /\ AuthorsStay
    BY <2>0, AuthorsSame, Raced, ShowsType DEF Grows
  <2>2. ASSUME NEW u \in Settled', u # t PROVE ThreadInv(u)'
    <3>1. u \in Threads /\ SameFiles(u)
      BY <2>0, <2>2 DEF Settled, SameFiles, TypeOK
    <3>2. SameSnaps(u)
      BY <2>0, <2>2 DEF SameSnaps, TypeOK
    <3> QED
      BY <2>1, <3>1, <3>2, Elsewhere
  <2>3. ASSUME t \in Settled' PROVE ThreadInv(t)'
    <3>1. t \in Settled /\ Own(t) /\ Kept(t) /\ Snapped(t)
      BY <2>1, <2>3 DEF Settled, Grows, ThreadInv
    <3>2. /\ f \in Files
          /\ live[t] # NoFile => f = live[t]
          /\ live[t] = NoFile => f.agent = a /\ \A x \in Content(f) : FitsNow(x, a)
      BY <2>0, <2>1, MaterializedType, ShowsFits
    <3>3. live'[t] = f /\ compaction'[a].snap = f
      BY <2>0 DEF TypeOK
    <3> HIDE DEF f
    <3>4. CASE live[t] # NoFile
      <4>1. SameFiles(t)
        BY <2>0, <3>2, <3>3, <3>4 DEF SameFiles
      <4>2. Own(t)' /\ Kept(t)'
        BY <2>1, <3>1, <4>1, OwnStays DEF Kept, SameFiles, Content
      <4>3. Snapped(t)'
        BY <2>0, <3>1, <3>2, <3>3, <3>4 DEF Snapped, Content, TypeOK
      <4> QED
        BY <4>2, <4>3 DEF ThreadInv
    <3>5. CASE live[t] = NoFile
      <4>1. /\ notes'[t] = NoAgent /\ archived'[t] = archived[t]
            /\ oldNotes'[t] = oldNotes[t] /\ owed'[t] \subseteq Content(archived[t])
        BY <2>0, <3>1, <3>5, ContentNone DEF Own, Kept
      <4>2. Own(t)' /\ Kept(t)'
        BY <2>1, <3>1, <3>2, <3>3, <3>5, <4>1, Written
      <4>3. /\ turn[t] = NoTurn
            /\ \A b \in Agents : compaction[b] # NoCompaction => compaction[b].thread # t
        BY <2>0, <2>3, <3>5, Raced DEF Settled
      <4>4. Snapped(t)'
        BY <2>0, <3>3, <4>3 DEF Snapped, TypeOK
      <4> QED
        BY <4>2, <4>4 DEF ThreadInv
    <3> QED
      BY <3>4, <3>5
  <2> QED
    BY <1>1, <2>2, <2>3 DEF IInv
<1>13. ASSUME NEW a \in Agents, CompactSaves(a) PROVE IInv'
  <2>1. PICK t \in Threads, f \in Files :
          compaction[a].thread = t /\ compaction[a].snap = f
    BY <1>13 DEF CompactSaves, TypeOK
  <2> DEFINE g == [f EXCEPT !.hist = {}, !.base = f.hist]
  <2>0. /\ compaction[a] # NoCompaction
        /\ live' = [live EXCEPT ![t] = g]
        /\ owed' = [owed EXCEPT ![t] = @ \ (f.base \ f.hist)]
        /\ compaction' = [compaction EXCEPT ![a] = NoCompaction]
        /\ raced \subseteq raced'
        /\ \/ InTurn(t)
           \/ \E b \in Agents \ {a} :
                compaction[b] # NoCompaction /\ compaction[b].thread = t
           => t \in raced'
        /\ archived' = archived /\ notes' = notes /\ oldNotes' = oldNotes
        /\ audit' = audit /\ turn' = turn /\ author' = author
        /\ replayed' = replayed /\ tangled' = tangled
    BY <1>13, <2>1 DEF CompactSaves
  <2>2. Grows /\ AuthorsStay
    BY <2>0, AuthorsSame DEF Grows
  <2>3. g \in Files /\ g.agent = f.agent /\ Content(g) = f.hist
    <3>1. g \in Files /\ g.agent = f.agent /\ g.hist = {} /\ g.base = f.hist
      BY <2>1 DEF Files
    <3> QED
      BY <3>1, ContentOf
  <2> HIDE DEF g
  <2>4. ASSUME NEW u \in Settled', u # t PROVE ThreadInv(u)'
    <3>1. u \in Threads /\ SameFiles(u)
      BY <2>0, <2>1, <2>4 DEF Settled, SameFiles, TypeOK
    <3>2. SameSnaps(u)
      BY <2>0 DEF SameSnaps, TypeOK
    <3> QED
      BY <2>2, <3>1, <3>2, Elsewhere
  <2>5. ASSUME t \in Settled' PROVE ThreadInv(t)'
    <3>1. t \in Settled /\ Own(t) /\ Kept(t) /\ Snapped(t)
      BY <2>2, <2>5 DEF Settled, Grows, ThreadInv
    <3>2. live[t] = f /\ live[t] # NoFile
      BY <2>0, <2>1, <3>1, ContentOf DEF Snapped
    <3>3. /\ live'[t] = g /\ archived'[t] = archived[t] /\ notes'[t] = notes[t]
          /\ oldNotes'[t] = oldNotes[t] /\ owed'[t] = owed[t] \ (f.base \ f.hist)
      BY <2>0, <2>1 DEF TypeOK
    <3>4. Content(f) = f.hist \cup f.base
      BY <2>1, ContentOf
    <3>5. /\ \A x \in Content(g) : FitsNow(x, g.agent)
          /\ notes'[t] \in {g.agent, NoAgent}
      BY <2>1, <2>2, <2>3, <3>1, <3>2, <3>3, <3>4, OwnFile
    <3>6. owed'[t] \subseteq Content(g) \cup Content(archived[t])
      BY <2>3, <3>1, <3>2, <3>3, <3>4 DEF Kept
    <3>7. Own(t)' /\ Kept(t)'
      BY <2>1, <2>2, <2>3, <3>1, <3>3, <3>5, <3>6, Written
    <3>8. Snapped(t)'
      BY <2>0, <2>5 DEF Snapped, InTurn, Settled, TypeOK
    <3> QED
      BY <3>7, <3>8 DEF ThreadInv
  <2> QED
    BY <1>1, <2>4, <2>5 DEF IInv
<1>14. ASSUME NEW a \in Agents, CompactFails(a) PROVE IInv'
  <2>1. Grows /\ AuthorsStay
    BY <1>14, AuthorsSame DEF CompactFails, Grows, history
  <2>2. ASSUME NEW u \in Settled' PROVE ThreadInv(u)'
    <3>1. u \in Threads /\ SameFiles(u) /\ SameSnaps(u)
      BY <1>14 DEF Settled, CompactFails, SameFiles, SameSnaps, TypeOK, files, history
    <3> QED
      BY <2>1, <3>1, Elsewhere
  <2> QED
    BY <1>1, <2>2 DEF IInv
<1>15. ASSUME NEW t \in Threads, NEW a \in Agents, NEW whole \in BOOLEAN,
              Archive(t, a, whole)
       PROVE  IInv'
  <2>0. Race({t}) /\ UNCHANGED <<audit, turn, compaction, author, owed>>
    BY <1>15 DEF Archive
  <2>1. Grows /\ AuthorsStay
    BY <1>15, <2>0, AuthorsSame, Raced DEF Archive, Grows
  <2>2. ASSUME NEW u \in Settled', u # t PROVE ThreadInv(u)'
    <3>1. u \in Threads /\ SameFiles(u)
      BY <1>15, <2>2 DEF Settled, Archive, SameFiles, TypeOK
    <3>2. SameSnaps(u)
      BY <2>0 DEF SameSnaps
    <3> QED
      BY <2>1, <3>1, <3>2, Elsewhere
  <2>3. ASSUME t \in Settled' PROVE ThreadInv(t)'
    <3>1. t \in Settled /\ Own(t) /\ Kept(t)
      BY <2>1, <2>3 DEF Settled, Grows, ThreadInv
    <3>2. whole = TRUE /\ archived[t] = NoFile /\ oldNotes[t] = NoAgent
      BY <1>15, <2>3, <3>1 DEF Settled, Archive, Own
    <3>3. live[t] # NoFile /\ live[t] \in Files
      BY <1>15 DEF Archive, Owned, TypeOK
    <3>4. live'[t] = NoFile /\ archived'[t] = live[t] /\ owed'[t] = owed[t]
      BY <1>15 DEF Archive, TypeOK
    <3>5. notes'[t] = NoAgent /\ oldNotes'[t] = notes[t]
      BY <1>15, <3>2 DEF Archive, TypeOK
    <3>6. /\ \A x \in Content(live[t]) : FitsNow(x, live[t].agent)
          /\ notes[t] \in {live[t].agent, NoAgent}
      BY <2>1, <3>1, <3>3, OwnFile
    <3>7. Own(t)'
      BY <3>3, <3>4, <3>5, <3>6 DEF Own, By, Fits, FitsNow, Content
    <3>8. Kept(t)'
      BY <3>1, <3>2, <3>4, ContentNone DEF Kept, Content
    <3>9. Snapped(t)'
      BY <2>0, <2>3, Unsnapped
    <3> QED
      BY <3>7, <3>8, <3>9 DEF ThreadInv
  <2> QED
    BY <1>1, <2>2, <2>3 DEF IInv
<1>16. ASSUME NEW t \in Threads, NEW a \in Agents, NEW whole \in BOOLEAN,
              Unarchive(t, a, whole)
       PROVE  IInv'
  <2>0. Race({t}) /\ UNCHANGED <<audit, turn, compaction, author, owed>>
    BY <1>16 DEF Unarchive, Unarchived
  <2>1. Grows /\ AuthorsStay
    BY <1>16, <2>0, AuthorsSame, Raced DEF Unarchive, Unarchived, Grows
  <2>2. ASSUME NEW u \in Settled', u # t PROVE ThreadInv(u)'
    <3>1. u \in Threads /\ SameFiles(u)
      BY <1>16, <2>2 DEF Settled, Unarchive, Unarchived, SameFiles, TypeOK
    <3>2. SameSnaps(u)
      BY <2>0 DEF SameSnaps
    <3> QED
      BY <2>1, <3>1, <3>2, Elsewhere
  <2>3. ASSUME t \in Settled' PROVE ThreadInv(t)'
    <3>1. t \in Settled /\ Own(t) /\ Kept(t)
      BY <2>1, <2>3 DEF Settled, Grows, ThreadInv
    <3>2. live[t] = NoFile /\ notes[t] = NoAgent /\ archived[t] # NoFile /\ whole = TRUE
      BY <1>16, <2>3, <3>1 DEF Settled, Unarchive, Unarchived, Own
    <3>3. live'[t] = archived[t] /\ archived'[t] = NoFile /\ owed'[t] = owed[t]
      BY <1>16 DEF Unarchive, Unarchived, TypeOK
    <3>4. notes'[t] = oldNotes[t] /\ oldNotes'[t] = NoAgent
      BY <1>16, <3>2 DEF Unarchive, Unarchived, TypeOK
    <3>5. /\ \A x \in Content(archived[t]) : FitsNow(x, archived[t].agent)
          /\ oldNotes[t] \in {archived[t].agent, NoAgent}
      BY <2>1, <3>1, <3>2, OwnArchive
    <3>6. Own(t)'
      BY <3>2, <3>3, <3>4, <3>5 DEF Own, By, Fits, FitsNow, Content
    <3>7. Kept(t)'
      BY <3>1, <3>2, <3>3, ContentNone DEF Kept, Content
    <3>8. Snapped(t)'
      BY <2>0, <2>3, Unsnapped
    <3> QED
      BY <3>6, <3>7, <3>8 DEF ThreadInv
  <2> QED
    BY <1>1, <2>2, <2>3 DEF IInv
<1>17. CASE Restart \/ UNCHANGED vars
  <2>1. Grows /\ AuthorsStay
    BY <1>17, AuthorsSame DEF Restart, vars, Grows, history
  <2>2. ASSUME NEW u \in Settled' PROVE ThreadInv(u)'
    <3>1. u \in Threads /\ SameFiles(u) /\ SameSnaps(u)
      BY <1>17 DEF Settled, Restart, vars, SameFiles, SameSnaps, files, history
    <3> QED
      BY <2>1, <3>1, Elsewhere
  <2> QED
    BY <1>1, <2>2 DEF IInv
<1> QED
  BY <1>2, <1>3, <1>4, <1>5, <1>6, <1>7, <1>8, <1>9, <1>10, <1>11, <1>12, <1>13,
     <1>14, <1>15, <1>16, <1>17 DEF Next, Step
----
(* The invariant holds for ever.                                            *)
THEOREM Invariance == Spec => []IInv
<1>1. IInv /\ [Next]_vars => IInv'
  BY InvStep
<1> QED
  BY InitIInv, <1>1, PTL DEF Spec

(* Every variable keeps its type, and a thread is loaded and compacted for  *)
(* its owner only.                                                          *)
THEOREM TypeCorrect == Spec => []TypeOK
<1>1. IInv => TypeOK
  BY DEF IInv
<1> QED
  BY Invariance, <1>1, PTL

(* What an agent can open is what it wrote, on every settled thread.        *)
THEOREM ContentOwned == Spec => []OwnContent
<1>1. IInv => OwnContent
  BY DEF IInv, ThreadInv, Own, OwnContent
<1> QED
  BY Invariance, <1>1, PTL

(* What a settled thread was given is in its live or its archived file.     *)
THEOREM NothingLost == Spec => []Recoverable
<1>1. IInv => Recoverable
  BY DEF IInv, ThreadInv, Kept, Recoverable
<1> QED
  BY Invariance, <1>1, PTL
====
