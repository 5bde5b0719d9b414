---------------------------- MODULE ThreadStore ----------------------------
(* The threads kept on disk (agent/threads.py) and the requests that work   *)
(* on them (thread/*, memories, turn/steer with start off, in               *)
(* agent/serve.py). Turns take a thread's lock, as in TurnEngine; nothing   *)
(* else does. A thread is the paired agent's that its state file names.     *)
(*                                                                          *)
(* A message stands for a turn's pair, a note or an imported batch, and a   *)
(* summary for the messages summarised. A thread's name and its developer   *)
(* instructions are not told apart from what they are saved over.           *)
EXTENDS FiniteSets

CONSTANTS
    Threads, Agents, NoAgent, NoFile, NoTurn, NoCompaction,
    Msgs         \* bound: messages ever sent

ASSUME NoneAssumption == NoAgent \notin Agents

VARIABLES
    live,        \* the state file of each thread
    archived,    \* the one in .archived/
    notes,       \* whose memories lie beside the state file
    oldNotes,    \* and beside the archived one
    audit,       \* the turns audit.jsonl can replay
    turn,        \* the turn that holds the thread's lock, and what it loaded
    compaction,  \* the thread/compact of each agent that waits for its model
    author,      \* history: who sent each message
    replayed,    \* history: whom the audit showed turns of other agents
    owed,        \* history: what each thread was given and not told to forget
    tangled,     \* history: threads that changed hands by import, or whose
                 \* archive was overwritten or left by half
    raced        \* history: threads written while another held a snapshot

files == <<live, archived, notes, oldNotes>>
history == <<owed, replayed, tangled>>
vars == <<files, audit, turn, compaction, author, history, raced>>

Files == [agent : Agents, hist : SUBSET Msgs, base : SUBSET Msgs]
ASSUME NoFileAssumption == NoFile \notin Files

File(a, h) == [agent |-> a, hist |-> h, base |-> {}]
With(f, m) == [f EXCEPT !.hist = @ \cup {m}]
Content(f) == IF f = NoFile THEN {} ELSE f.hist \cup f.base

TypeOK ==
    /\ live \in [Threads -> Files \cup {NoFile}]
    /\ archived \in [Threads -> Files \cup {NoFile}]
    /\ notes \in [Threads -> Agents \cup {NoAgent}]
    /\ oldNotes \in [Threads -> Agents \cup {NoAgent}]
    /\ audit \subseteq Threads \X Agents \X Msgs
    /\ turn \in [Threads -> [running : BOOLEAN, snap : Files, msg : Msgs]
                              \cup {NoTurn}]
    /\ compaction \in [Agents -> [thread : Threads, snap : Files]
                                   \cup {NoCompaction}]
    /\ author \in [Msgs -> Agents \cup {NoAgent}]
    /\ owed \in [Threads -> SUBSET Msgs]
    /\ replayed \subseteq Agents \X Msgs
    /\ tangled \subseteq Threads /\ raced \subseteq Threads
    \* a thread is loaded and compacted for its owner
    /\ \A t \in Threads : turn[t] # NoTurn =>
         turn[t].snap.agent = author[turn[t].msg]
    /\ \A a \in Agents : compaction[a] # NoCompaction =>
         compaction[a].snap.agent = a

Init ==
    /\ live = [t \in Threads |-> NoFile] /\ archived = live
    /\ notes = [t \in Threads |-> NoAgent] /\ oldNotes = notes
    /\ audit = {}
    /\ turn = [t \in Threads |-> NoTurn]
    /\ compaction = [a \in Agents |-> NoCompaction]
    /\ author = [m \in Msgs |-> NoAgent]
    /\ owed = [t \in Threads |-> {}]
    /\ replayed = {} /\ tangled = {} /\ raced = {}

(* replay_audit: the turns of t. Entries of other agents are to be dropped, *)
(* by their agent_id; a turn's entry has none (its owner is under agent).   *)
Replay(t) == {m \in Msgs : \E b \in Agents : <<t, b, m>> \in audit}

(* materialize_state: the file, or what the audit replays.                  *)
Materialized(t, a) == IF live[t] # NoFile THEN live[t] ELSE File(a, Replay(t))

(* What a is then shown of others.                                          *)
Shows(t, a) ==
    replayed' = replayed \cup (IF live[t] # NoFile THEN {}
                               ELSE {a} \X {m \in Replay(t) : author[m] # a})

(* Mutant: the cross-agent check is left out.                               *)
MayOpenAny(t, a) == TRUE

MayOpen(t, a) == live[t] # NoFile => live[t].agent = a
Owned(t, a) == live[t] # NoFile /\ live[t].agent = a

(* Who writes t while a turn or a compaction will save what it had loaded.  *)
InTurn(t) == turn[t] # NoTurn
InCompaction(t) ==
    \E a \in Agents : compaction[a] # NoCompaction /\ compaction[a].thread = t
Race(ts) == raced' = raced \cup {t \in ts : InTurn(t) \/ InCompaction(t)}

(* m is sent by a; which message is next does not matter.                   *)
Sends(a, m) ==
    /\ \E n \in Msgs : author[n] = NoAgent
    /\ m = CHOOSE n \in Msgs : author[n] = NoAgent
    /\ author' = [author EXCEPT ![m] = a]
----
(* Turns *)

TurnLoads(t, a, m) ==
    /\ turn[t] = NoTurn /\ Sends(a, m)
    /\ turn' = [turn EXCEPT ![t] =
         [running |-> FALSE, msg |-> m,
          snap |-> IF live[t] = NoFile THEN File(a, {}) ELSE live[t]]]
    /\ UNCHANGED <<files, audit, compaction, history, raced>>

(* Under the lock; a missing file is a new thread, its audit unread.        *)
TurnBegins(t, a, m) == MayOpen(t, a) /\ TurnLoads(t, a, m)

(* turn/started is out, and the task is in RUNNING.                         *)
TurnRuns(t) ==
    /\ InTurn(t) /\ ~turn[t].running
    /\ turn' = [turn EXCEPT ![t].running = TRUE]
    /\ UNCHANGED <<files, audit, compaction, author, history, raced>>

(* record_turn, the audit's entry and turn/completed.                       *)
TurnSaves(t) ==
    LET m == turn[t].msg IN
    /\ InTurn(t) /\ turn[t].running
    /\ live' = [live EXCEPT ![t] = With(turn[t].snap, m)]
    /\ audit' = audit \cup {<<t, turn[t].snap.agent, m>>}
    /\ owed' = [owed EXCEPT ![t] = @ \cup {m}]
    /\ turn' = [turn EXCEPT ![t] = NoTurn]
    /\ raced' = raced \cup (IF InCompaction(t) THEN {t} ELSE {})
    /\ UNCHANGED <<archived, notes, oldNotes, compaction, author, replayed,
                   tangled>>

(* Cancelled, refused or crashed: replay finds no entry it would show. With *)
(* a provider's error the entry is there and the file is not written.       *)
TurnFails(t, audited) ==
    /\ InTurn(t) /\ (audited => turn[t].running)
    /\ audit' = IF audited THEN audit \cup {<<t, turn[t].snap.agent, turn[t].msg>>}
                           ELSE audit
    /\ turn' = [turn EXCEPT ![t] = NoTurn]
    /\ UNCHANGED <<files, compaction, author, history, raced>>

(* turn/steer with start off, no turn of t being in RUNNING.                *)
Note(t, a, m) ==
    /\ InTurn(t) => ~turn[t].running
    /\ MayOpen(t, a) /\ (live[t] # NoFile \/ Replay(t) # {})
    /\ Sends(a, m)
    /\ live' = [live EXCEPT ![t] = With(Materialized(t, a), m)]
    /\ owed' = [owed EXCEPT ![t] = @ \cup {m}]
    /\ Shows(t, a) /\ Race({t})
    /\ UNCHANGED <<archived, notes, oldNotes, audit, turn, compaction,
                   tangled>>
----
(* thread/resume, name/set, memories, fork, import *)

(* A missing file is rebuilt from the audit, or created.                    *)
Resume(t, a) ==
    /\ live[t] = NoFile
    /\ live' = [live EXCEPT ![t] = Materialized(t, a)]
    /\ Shows(t, a) /\ Race({t})
    /\ UNCHANGED <<archived, notes, oldNotes, audit, turn, compaction,
                   author, owed, tangled>>

(* name/set, or a resume with new developer instructions: the file is       *)
(* loaded and saved in one step.                                            *)
Rename(t, a) ==
    /\ Owned(t, a) /\ Race({t})
    /\ UNCHANGED <<files, audit, turn, compaction, author, history>>

Memories(t, a) ==
    /\ Owned(t, a)
    /\ notes' = [notes EXCEPT ![t] = a]
    /\ UNCHANGED <<live, archived, oldNotes, audit, turn, compaction,
                   author, history, raced>>

ForkFile(src, dst, a) ==
    LET f == Materialized(src, a) IN
    /\ live[dst] = NoFile /\ src # dst /\ Content(f) # {}
    /\ live' = [live EXCEPT ![src] = IF @ = NoFile THEN f ELSE @,
                            ![dst] = [f EXCEPT !.agent = a]]
    /\ notes' = [notes EXCEPT ![dst] =
         IF notes[src] = NoAgent THEN @ ELSE notes[src]]
    /\ owed' = [owed EXCEPT ![dst] = @ \cup Content(f)]
    /\ tangled' = tangled \cup (IF src \in tangled \cup raced THEN {dst} ELSE {})
    /\ Shows(src, a)
    /\ Race({dst} \cup (IF live[src] = NoFile THEN {src} ELSE {}))
    /\ UNCHANGED <<archived, oldNotes, audit, turn, compaction, author>>

Fork(src, dst, a) == MayOpen(src, a) /\ ForkFile(src, dst, a)

(* import_history: "fail" wants no file; "append" and "overwrite" take any. *)
Import(t, a, m, mode) ==
    LET appends == mode = "append" /\ live[t] # NoFile IN
    /\ mode = "fail" => live[t] = NoFile
    /\ Sends(a, m)
    /\ live' = [live EXCEPT ![t] =
         IF appends THEN [With(live[t], m) EXCEPT !.agent = a] ELSE File(a, {m})]
    /\ owed' = [owed EXCEPT ![t] =
         {m} \cup IF appends THEN @ ELSE @ \ Content(live[t])]
    /\ tangled' = tangled \cup (IF MayOpen(t, a) THEN {} ELSE {t})
    /\ Race({t})
    /\ UNCHANGED <<archived, notes, oldNotes, audit, turn, compaction, replayed>>
----
(* thread/compact *)

(* The transcript goes to the model; the handler waits for the summary.     *)
CompactBegins(t, a) ==
    LET f == Materialized(t, a) IN
    /\ compaction[a] = NoCompaction
    /\ MayOpen(t, a) /\ f.hist # {}
    /\ compaction' = [compaction EXCEPT ![a] = [thread |-> t, snap |-> f]]
    /\ live' = [live EXCEPT ![t] = f]
    /\ Shows(t, a)
    /\ IF live[t] = NoFile THEN Race({t}) ELSE UNCHANGED raced
    /\ UNCHANGED <<archived, notes, oldNotes, audit, turn, author, owed, tangled>>

(* The summary of the transcript replaces it, and the summary before it.    *)
CompactSaves(a) ==
    LET t == compaction[a].thread
        f == compaction[a].snap
    IN
    /\ compaction[a] # NoCompaction
    /\ live' = [live EXCEPT ![t] = [f EXCEPT !.hist = {}, !.base = f.hist]]
    /\ owed' = [owed EXCEPT ![t] = @ \ (f.base \ f.hist)]
    /\ compaction' = [compaction EXCEPT ![a] = NoCompaction]
    /\ raced' = raced \cup
         (IF \/ InTurn(t)
             \/ \E b \in Agents \ {a} :
                  compaction[b] # NoCompaction /\ compaction[b].thread = t
            THEN {t} ELSE {})
    /\ UNCHANGED <<archived, notes, oldNotes, audit, turn, author, replayed,
                   tangled>>

CompactFails(a) ==
    /\ compaction[a] # NoCompaction
    /\ compaction' = [compaction EXCEPT ![a] = NoCompaction]
    /\ UNCHANGED <<files, audit, turn, author, history, raced>>
----
(* thread/archive and thread/unarchive: the state moves, then the memories; *)
(* an error or a crash between the two leaves them apart (whole = FALSE).   *)

Archive(t, a, whole) ==
    LET moved == whole /\ notes[t] # NoAgent IN
    /\ Owned(t, a) /\ (whole \/ notes[t] # NoAgent)
    /\ live' = [live EXCEPT ![t] = NoFile]
    /\ archived' = [archived EXCEPT ![t] = live[t]]
    /\ oldNotes' = IF moved THEN [oldNotes EXCEPT ![t] = notes[t]] ELSE oldNotes
    /\ notes' = IF moved THEN [notes EXCEPT ![t] = NoAgent] ELSE notes
    /\ tangled' = tangled \cup (IF whole /\ archived[t] = NoFile THEN {} ELSE {t})
    /\ Race({t})
    /\ UNCHANGED <<audit, turn, compaction, author, owed, replayed>>

Unarchived(t, a, whole) ==
    LET moved == whole /\ oldNotes[t] # NoAgent IN
    /\ archived[t] # NoFile /\ archived[t].agent = a
    /\ whole \/ oldNotes[t] # NoAgent
    /\ live' = [live EXCEPT ![t] = archived[t]]
    /\ archived' = [archived EXCEPT ![t] = NoFile]
    /\ notes' = IF moved THEN [notes EXCEPT ![t] = oldNotes[t]] ELSE notes
    /\ oldNotes' = IF moved THEN [oldNotes EXCEPT ![t] = NoAgent] ELSE oldNotes
    /\ tangled' = tangled \cup (IF whole THEN {} ELSE {t})
    /\ Race({t})
    /\ UNCHANGED <<audit, turn, compaction, author, owed, replayed>>

(* Mutant: a live state is overwritten.                                     *)
UnarchiveOver(t, a, whole) == MayOpen(t, a) /\ Unarchived(t, a, whole)

Unarchive(t, a, whole) == live[t] = NoFile /\ Unarchived(t, a, whole)

(* The daemon dies and comes back.                                          *)
Restart ==
    /\ turn' = [t \in Threads |-> NoTurn]
    /\ compaction' = [a \in Agents |-> NoCompaction]
    /\ UNCHANGED <<files, audit, author, history, raced>>

Step ==
    \/ \E t \in Threads :
         \/ TurnRuns(t) \/ TurnSaves(t)
         \/ \E audited \in BOOLEAN : TurnFails(t, audited)
         \/ \E a \in Agents :
              \/ Resume(t, a) \/ Rename(t, a) \/ Memories(t, a)
              \/ CompactBegins(t, a)
              \/ \E dst \in Threads : Fork(t, dst, a)
              \/ \E whole \in BOOLEAN : Archive(t, a, whole) \/ Unarchive(t, a, whole)
              \/ \E m \in Msgs :
                   \/ TurnBegins(t, a, m) \/ Note(t, a, m)
                   \/ \E mode \in {"fail", "append", "overwrite"} :
                        Import(t, a, m, mode)
    \/ \E a \in Agents : CompactSaves(a) \/ CompactFails(a)

Next == Step \/ Restart

Spec == Init /\ [][Next]_vars
----
Settled == Threads \ (tangled \cup raced)
Fits(m, a) == author[m] = a \/ <<a, m>> \in replayed
By(a, f, n) == (\A m \in Content(f) : Fits(m, a)) /\ n \in {a, NoAgent}

(* What an agent can open is what it wrote, or a turn that the audit showed *)
(* to it when the thread had no file: no note, no imported batch and no     *)
(* memories of another agent, and none of its turns by any other way, are   *)
(* in a thread's transcript, live or archived; and no memories wait for     *)
(* whoever creates the thread next (the checks of thread/*, archive_thread, *)
(* unarchive_thread, fork).                                                 *)
OwnContent ==
    \A t \in Settled :
       /\ IF live[t] = NoFile THEN notes[t] = NoAgent
                              ELSE By(live[t].agent, live[t], notes[t])
       /\ IF archived[t] = NoFile THEN oldNotes[t] = NoAgent
                                  ELSE By(archived[t].agent, archived[t], oldNotes[t])

(* Nothing a thread was given is lost by archiving it, opening it anew,     *)
(* restoring, forking or compacting it: it is in the live file or in the    *)
(* archived one, unless a save of older state raced with it, an import or a *)
(* later summary replaced it, or the archive was overwritten (record_turn,  *)
(* thread/compact, archive_thread, unarchive_thread).                       *)
Recoverable ==
    \A t \in Settled : owed[t] \subseteq Content(live[t]) \cup Content(archived[t])

(* What a comment promises and the code does not keep.                      *)

(* "Namespacing: drop turns owned by another agent" (replay_audit): no turn *)
(* is replayed to another agent than the one that sent it.                  *)
ReplayOwn == replayed = {}
====
