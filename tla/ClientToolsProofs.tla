------------------------- MODULE ClientToolsProofs -------------------------
(* Proofs about ClientTools, for every set of agents, connections, names    *)
(* and calls.                                                               *)
EXTENDS ClientTools, FiniteSetTheorems, TLAPS

(* The inductive invariant. Ids count the calls made, so that no two calls  *)
(* share one; what is on the wire bears the id of the call it answers; and  *)
(* a call whose future is open can still be found.                          *)
Made == {c \in Calls : pc[c] # "unused"}
Counted == seq = Cardinality(Made)
OwnId == /\ \A c \in Made : fid[c] \in 1..seq
         /\ \A c, d \in Made : fid[c] = fid[d] => c = d
PendingInv == \A p \in pending : p[2] \in Made /\ p = <<fid[p[2]], p[2]>>
WireInv == \A w \in wire : w[3] \in Made /\ w[2] = fid[w[3]]
Under(c) == pc[c] \in {"sending", "written", "waiting"}
WaitInv == \A c \in Calls :
    Under(c) /\ fut[c] = "open" =>
      conn[sock[c]] # "gone" /\ <<fid[c], c>> \in pending
AnswerInv == \A c \in Calls : answer[c] = c
UnusedInv == \A c \in Calls : pc[c] = "unused" => fut[c] = "open"

IInv ==
    /\ TypeOK /\ Counted /\ OwnId /\ PendingInv /\ WireInv /\ WaitInv
    /\ AnswerInv /\ UnusedInv

LEMMA InitIInv == Init => IInv
<1> SUFFICES ASSUME Init PROVE IInv
    OBVIOUS
<1>1. Made = {}
  BY DEF Init, Made
<1>2. Cardinality({}) = 0 /\ Cardinality(Calls) \in Nat
  BY FS_EmptySet, FS_CardinalityType, BoundAssumption
<1>3. TypeOK
  BY <1>2, BoundAssumption DEF Init, TypeOK, Ids, Outcomes
<1>4. Counted /\ OwnId
  BY <1>1, <1>2 DEF Init, Counted, OwnId
<1>5. PendingInv /\ WireInv /\ WaitInv /\ AnswerInv /\ UnusedInv
  BY DEF Init, PendingInv, WireInv, WaitInv, AnswerInv, UnusedInv, Under
<1> QED
  BY <1>3, <1>4, <1>5 DEF IInv
----
(* One more call is made: its id is within the bound and new.               *)
LEMMA NextIdFresh ==
    ASSUME IInv, NEW c \in Calls, pc[c] = "unused", NEW st \in {"sending", "done"},
           pc' = [pc EXCEPT ![c] = st], seq' = seq + 1,
           fid' = [fid EXCEPT ![c] = NextId]
    PROVE  /\ seq \in Nat /\ NextId \in Ids /\ seq' \in Ids
           /\ Made' = Made \cup {c} /\ c \notin Made
           /\ Counted' /\ OwnId'
           /\ \A d \in Made : fid'[d] = fid[d] /\ fid[d] # NextId
<1>1. TypeOK /\ Counted /\ OwnId
  BY DEF IInv
<1>2. IsFiniteSet(Made) /\ c \notin Made /\ Made \subseteq Calls
  BY FS_Subset, BoundAssumption DEF Made
<1>3. Made' = Made \cup {c}
  BY <1>1, <1>2 DEF Made, TypeOK
<1>4. /\ Cardinality(Made \cup {c}) = Cardinality(Made) + 1
      /\ IsFiniteSet(Made \cup {c})
  BY <1>2, FS_AddElement
<1>5. Cardinality(Made \cup {c}) <= Cardinality(Calls) /\ Cardinality(Calls) \in Nat
  BY <1>2, FS_Subset, FS_CardinalityType, BoundAssumption
<1>6. seq \in Nat
  BY <1>1 DEF TypeOK, Ids
<1>7. seq' \in Ids /\ NextId \in Ids /\ Counted'
  BY <1>1, <1>3, <1>4, <1>5, <1>6 DEF Counted, Ids, NextId
<1>8. \A d \in Made : fid'[d] = fid[d] /\ fid[d] # NextId
  BY <1>1, <1>2, <1>6 DEF OwnId, NextId, TypeOK
<1>9. fid'[c] = NextId
  BY <1>1 DEF TypeOK
<1>10. OwnId'
  <2>1. \A d \in Made' : fid'[d] \in 1..seq'
    BY <1>1, <1>3, <1>6, <1>8, <1>9 DEF OwnId, NextId
  <2>2. ASSUME NEW d \in Made', NEW e \in Made', fid'[d] = fid'[e] PROVE d = e
    BY <1>1, <1>3, <1>8, <1>9, <2>2 DEF OwnId
  <2> QED
    BY <2>1, <2>2 DEF OwnId
<1> QED
  BY <1>2, <1>3, <1>6, <1>7, <1>8, <1>10

(* No call is made, and the ids stay.                                       *)
LEMMA SameIds ==
    ASSUME IInv, Made' = Made, seq' = seq, fid' = fid
    PROVE  Counted' /\ OwnId'
  BY DEF IInv, Counted, OwnId
----
(* A call that ends by a block which removes its future.                    *)
LEMMA DoneKeeps ==
    ASSUME IInv, NEW c \in Calls, Under(c), tools' \in [Names -> Agents \cup {NoTool}],
           NEW how \in Outcomes \ {"none"}, Done(c, how),
           how = "result" => fut[c] = "answered"
    PROVE  IInv'
<1>1. /\ TypeOK /\ Counted /\ OwnId /\ PendingInv /\ WireInv /\ WaitInv
      /\ AnswerInv /\ UnusedInv
  BY DEF IInv
<1>2. pc' = [pc EXCEPT ![c] = "done"] /\ outcome' = [outcome EXCEPT ![c] = how]
  BY DEF Done, Ends
<1>3. /\ fid' = fid /\ seq' = seq /\ fut' = fut /\ conn' = conn /\ sock' = sock
      /\ wire' = wire /\ answer' = answer /\ drops' = drops /\ tool' = tool
      /\ pending' = {p \in pending : p[1] # fid[c]}
  BY DEF Done, Ends
<1>4. Made' = Made /\ c \in Made
  BY <1>1, <1>2 DEF Made, Under, TypeOK
<1>5. \A p \in pending' : p \in pending /\ p[2] # c
  BY <1>1, <1>3 DEF PendingInv
<1>6. TypeOK'
  BY <1>1, <1>2, <1>3, <1>5 DEF TypeOK
<1>7. Counted' /\ OwnId'
  BY <1>3, <1>4, SameIds
<1>8. PendingInv' /\ WireInv' /\ AnswerInv' /\ UnusedInv'
  BY <1>1, <1>2, <1>3, <1>4, <1>5 DEF PendingInv, WireInv, AnswerInv, UnusedInv, TypeOK
<1>9. WaitInv'
  <2> SUFFICES ASSUME NEW d \in Calls, Under(d)', fut'[d] = "open"
               PROVE  conn'[sock'[d]] # "gone" /\ <<fid'[d], d>> \in pending'
    BY DEF WaitInv
  <2>1. d # c /\ Under(d) /\ d \in Made
    BY <1>1, <1>2 DEF Under, Made, TypeOK
  <2>2. conn[sock[d]] # "gone" /\ <<fid[d], d>> \in pending
    BY <1>1, <1>3, <2>1 DEF WaitInv
  <2>3. fid[d] # fid[c]
    BY <1>1, <1>4, <2>1 DEF OwnId
  <2> QED
    BY <1>3, <2>2, <2>3
<1> QED
  BY <1>6, <1>7, <1>8, <1>9 DEF IInv

LEMMA InvStep == ASSUME IInv, [Next]_vars PROVE IInv'
<1>0. /\ TypeOK /\ Counted /\ OwnId /\ PendingInv /\ WireInv /\ WaitInv
      /\ AnswerInv /\ UnusedInv
  BY DEF IInv
<1> USE <1>0
<1>1. ASSUME NEW s \in Socks, NEW n \in Names, Register(s, n) \/ Unregister(s, n)
      PROVE  IInv'
  <2>1. /\ tools' \in [Names -> Agents \cup {NoTool}]
        /\ UNCHANGED <<pc, tool, sock, fid, fut, pending, seq, conn, wire, outcome,
                       answer, drops>>
    BY <1>1, SocksAssumption DEF Register, Unregister, call, TypeOK
  <2>2. TypeOK'
    BY <2>1 DEF TypeOK
  <2>3. Made' = Made
    BY <2>1 DEF Made
  <2>4. Counted' /\ OwnId'
    BY <2>1, <2>3, SameIds
  <2>5. PendingInv' /\ WireInv' /\ AnswerInv' /\ WaitInv' /\ UnusedInv'
    BY <2>1, <2>3 DEF PendingInv, WireInv, AnswerInv, WaitInv, UnusedInv, Under
  <2> QED
    BY <2>2, <2>4, <2>5 DEF IInv
<1>2. ASSUME NEW c \in Calls, NEW s \in Socks, Call(c, s) PROVE IInv'
  <2>1. /\ pc[c] = "unused" /\ pc' = [pc EXCEPT ![c] = "sending"]
        /\ seq' = seq + 1 /\ fid' = [fid EXCEPT ![c] = NextId]
        /\ sock' = [sock EXCEPT ![c] = s] /\ conn[s] # "gone"
        /\ pending' = {p \in pending : p[1] # NextId} \cup {<<NextId, c>>}
        /\ UNCHANGED <<tools, tool, fut, conn, wire, outcome, answer, drops>>
    BY <1>2 DEF Call, CallOf, Enter, SocksOf
  <2>2. /\ NextId \in Ids /\ seq' \in Ids
        /\ Made' = Made \cup {c} /\ c \notin Made /\ Counted' /\ OwnId'
        /\ \A d \in Made : fid'[d] = fid[d] /\ fid[d] # NextId
    BY <2>1, NextIdFresh
  <2>3. fid'[c] = NextId /\ sock'[c] = s
    BY <2>1 DEF TypeOK
  <2>4. UnusedInv' /\ fut[c] = "open"
    BY <2>1 DEF UnusedInv, TypeOK
  <2>5. \A p \in pending : p[2] \in Made /\ p[1] = fid[p[2]] /\ p[2] # c
    BY <2>2 DEF PendingInv
  <2>6. PendingInv'
    BY <2>1, <2>2, <2>3, <2>5 DEF PendingInv
  <2>7. WireInv' /\ AnswerInv'
    BY <2>1, <2>2 DEF WireInv, AnswerInv
  <2>8. WaitInv'
    <3> SUFFICES ASSUME NEW d \in Calls, Under(d)', fut'[d] = "open"
                 PROVE  conn'[sock'[d]] # "gone" /\ <<fid'[d], d>> \in pending'
      BY DEF WaitInv
    <3>1. CASE d = c
      BY <2>1, <2>3, <3>1
    <3>2. CASE d # c
      <4>1. Under(d) /\ d \in Made /\ sock'[d] = sock[d]
        BY <2>1, <3>2 DEF Under, Made, TypeOK
      <4>2. conn[sock[d]] # "gone" /\ <<fid[d], d>> \in pending /\ fid[d] # NextId
        BY <2>1, <2>2, <4>1 DEF WaitInv
      <4> QED
        BY <2>1, <2>2, <4>1, <4>2
    <3> QED
      BY <3>1, <3>2
  <2>9. TypeOK'
    <3>1. \A d \in Calls : (pc'[d] = "done") = (outcome'[d] # "none")
      BY <2>1 DEF TypeOK
    <3>2. \A p \in pending' :
            /\ fid'[p[2]] = p[1] /\ fut'[p[2]] = "open"
            /\ pc'[p[2]] = "done" => outcome'[p[2]] \in {"unreachable", "cancelled"}
      BY <2>1, <2>2, <2>3, <2>4, <2>5 DEF TypeOK
    <3> QED
      BY <2>1, <2>2, <3>1, <3>2 DEF TypeOK
  <2> QED
    BY <2>2, <2>4, <2>6, <2>7, <2>8, <2>9 DEF IInv
<1>3. ASSUME NEW c \in Calls, NoSocket(c) PROVE IInv'
  <2>1. /\ pc[c] = "unused" /\ pc' = [pc EXCEPT ![c] = "done"]
        /\ seq' = seq + 1 /\ fid' = [fid EXCEPT ![c] = NextId]
        /\ pending' = {p \in pending : p[1] # NextId} \cup {<<NextId, c>>}
        /\ tools' = [tools EXCEPT ![tool[c]] = NoTool]
        /\ outcome' = [outcome EXCEPT ![c] = "unreachable"]
        /\ UNCHANGED <<tool, sock, fut, conn, wire, answer, drops>>
    BY <1>3 DEF NoSocket, CallOf, Enter
  <2>2. /\ NextId \in Ids /\ seq' \in Ids
        /\ Made' = Made \cup {c} /\ c \notin Made /\ Counted' /\ OwnId'
        /\ \A d \in Made : fid'[d] = fid[d] /\ fid[d] # NextId
    BY <2>1, NextIdFresh
  <2>3. fid'[c] = NextId
    BY <2>1 DEF TypeOK
  <2>4. UnusedInv' /\ fut[c] = "open"
    BY <2>1 DEF UnusedInv, TypeOK
  <2>5. \A p \in pending : p[2] \in Made /\ p[1] = fid[p[2]] /\ p[2] # c
    BY <2>2 DEF PendingInv
  <2>6. PendingInv'
    BY <2>1, <2>2, <2>3, <2>5 DEF PendingInv
  <2>7. WireInv' /\ AnswerInv'
    BY <2>1, <2>2 DEF WireInv, AnswerInv
  <2>8. WaitInv'
    <3> SUFFICES ASSUME NEW d \in Calls, Under(d)', fut'[d] = "open"
                 PROVE  conn'[sock'[d]] # "gone" /\ <<fid'[d], d>> \in pending'
      BY DEF WaitInv
    <3>1. d # c /\ Under(d) /\ d \in Made
      BY <2>1 DEF Under, Made, TypeOK
    <3>2. conn[sock[d]] # "gone" /\ <<fid[d], d>> \in pending /\ fid[d] # NextId
      BY <2>1, <2>2, <3>1 DEF WaitInv
    <3> QED
      BY <2>1, <2>2, <3>1, <3>2
  <2>9. TypeOK'
    <3>1. \A d \in Calls : (pc'[d] = "done") = (outcome'[d] # "none")
      BY <2>1 DEF TypeOK
    <3>2. \A p \in pending' :
            /\ fid'[p[2]] = p[1] /\ fut'[p[2]] = "open"
            /\ pc'[p[2]] = "done" => outcome'[p[2]] \in {"unreachable", "cancelled"}
      BY <2>1, <2>2, <2>3, <2>4, <2>5 DEF TypeOK
    <3>3. tools' \in [Names -> Agents \cup {NoTool}]
      BY <2>1 DEF TypeOK
    <3>4. outcome' \in [Calls -> Outcomes]
      BY <2>1 DEF TypeOK, Outcomes
    <3> QED
      BY <2>1, <2>2, <3>1, <3>2, <3>3, <3>4 DEF TypeOK
  <2> QED
    BY <2>2, <2>4, <2>6, <2>7, <2>8, <2>9 DEF IInv
<1>4. ASSUME NEW c \in Calls, Written(c) \/ Waits(c) PROVE IInv'
  <2>1. PICK st \in {"written", "waiting"} : pc' = [pc EXCEPT ![c] = st]
    BY <1>4 DEF Written, Waits
  <2>2. /\ Under(c) /\ wire' \subseteq wire \cup {<<sock[c], fid[c], c>>}
        /\ UNCHANGED <<tools, tool, sock, fid, fut, pending, seq, conn, outcome,
                       answer, drops>>
    BY <1>4 DEF Written, Waits, Under
  <2>3. Made' = Made /\ c \in Made
    BY <2>1, <2>2 DEF Made, Under, TypeOK
  <2>4. TypeOK'
    <3>1. \A d \in Calls : pc'[d] = "done" <=> pc[d] = "done"
      BY <2>1, <2>2 DEF Under, TypeOK
    <3>2. wire' \subseteq Socks \X Ids \X Calls
      BY <2>2 DEF TypeOK
    <3>3. pc' \in [Calls -> {"unused", "sending", "written", "waiting", "done"}]
      BY <2>1 DEF TypeOK
    <3> QED
      BY <2>2, <3>1, <3>2, <3>3 DEF TypeOK, PendingInv, Made
  <2>5. Counted' /\ OwnId'
    BY <2>2, <2>3, SameIds
  <2>6. PendingInv' /\ AnswerInv'
    BY <2>2, <2>3 DEF PendingInv, AnswerInv
  <2>7. WireInv'
    BY <2>2, <2>3 DEF WireInv
  <2>8. WaitInv' /\ UnusedInv'
    BY <2>1, <2>2 DEF WaitInv, UnusedInv, Under, TypeOK
  <2> QED
    BY <2>4, <2>5, <2>6, <2>7, <2>8 DEF IInv
<1>5. ASSUME NEW c \in Calls, SendFails(c) \/ TimesOut(c) \/ Resumes(c) PROVE IInv'
  <2> DEFINE Known == tools' \in [Names -> Agents \cup {NoTool}]
  <2>1. CASE SendFails(c)
    <3>1. Under(c) /\ Known /\ Done(c, "unreachable")
      BY <2>1 DEF SendFails, Under, TypeOK
    <3> QED
      BY <3>1, DoneKeeps DEF Outcomes
  <2>2. CASE TimesOut(c)
    <3>1. Under(c) /\ Known /\ Done(c, "timed out")
      BY <2>2 DEF TimesOut, Under, TypeOK
    <3> QED
      BY <3>1, DoneKeeps DEF Outcomes
  <2>3. CASE Resumes(c)
    <3>1. Under(c) /\ Known
      BY <2>3 DEF Resumes, Under, TypeOK
    <3>2. CASE fut[c] = "answered"
      <4>1. Done(c, "result")
        BY <2>3, <3>2 DEF Resumes
      <4> QED
        BY <3>1, <3>2, <4>1, DoneKeeps DEF Outcomes
    <3>3. CASE fut[c] # "answered"
      <4>1. Done(c, "disconnected")
        BY <2>3, <3>3 DEF Resumes
      <4> QED
        BY <3>1, <4>1, DoneKeeps DEF Outcomes
    <3> QED
      BY <3>2, <3>3
  <2> QED
    BY <1>5, <2>1, <2>2, <2>3
<1>6. ASSUME NEW c \in Calls, Cancelled(c) PROVE IInv'
  <2>1. CASE pc[c] = "waiting" /\ Done(c, "cancelled")
    <3>1. Under(c) /\ tools' \in [Names -> Agents \cup {NoTool}]
      BY <1>6, <2>1 DEF Cancelled, Under, TypeOK
    <3> QED
      BY <2>1, <3>1, DoneKeeps DEF Outcomes
  <2>2. CASE /\ pc[c] \in {"sending", "written"}
             /\ Ends(c, "cancelled") /\ UNCHANGED pending
    <3>1. /\ Under(c) /\ pc' = [pc EXCEPT ![c] = "done"]
          /\ outcome' = [outcome EXCEPT ![c] = "cancelled"]
          /\ UNCHANGED <<tools, tool, sock, fid, fut, pending, seq, conn, wire,
                         answer, drops>>
      BY <1>6, <2>2 DEF Cancelled, Ends, Under
    <3>2. Made' = Made /\ c \in Made
      BY <3>1 DEF Made, Under, TypeOK
    <3>3. TypeOK'
      <4>1. pc' \in [Calls -> {"unused", "sending", "written", "waiting", "done"}]
        BY <3>1 DEF TypeOK
      <4>2. outcome' \in [Calls -> Outcomes]
        BY <3>1 DEF TypeOK, Outcomes
      <4>3. \A d \in Calls : (pc'[d] = "done") = (outcome'[d] # "none")
        BY <3>1 DEF TypeOK
      <4>4. \A p \in pending' :
              /\ fid'[p[2]] = p[1] /\ fut'[p[2]] = "open"
              /\ pc'[p[2]] = "done" => outcome'[p[2]] \in {"unreachable", "cancelled"}
        BY <3>1 DEF TypeOK, PendingInv, Made
      <4> QED
        BY <3>1, <4>1, <4>2, <4>3, <4>4 DEF TypeOK
    <3>4. Counted' /\ OwnId'
      BY <3>1, <3>2, SameIds
    <3>5. PendingInv' /\ AnswerInv' /\ WireInv'
      BY <3>1, <3>2 DEF PendingInv, AnswerInv, WireInv
    <3>6. WaitInv' /\ UnusedInv'
      BY <3>1 DEF WaitInv, UnusedInv, Under, TypeOK
    <3> QED
      BY <3>3, <3>4, <3>5, <3>6 DEF IInv
  <2> QED
    BY <1>6, <2>1, <2>2 DEF Cancelled
<1>7. ASSUME NEW s \in Socks, NEW i \in Ids, NEW e \in Calls, Answer(s, i, e)
      PROVE  IInv'
  <2> DEFINE found == {c \in Calls : <<i, c>> \in pending}
  <2>1. /\ <<s, i, e>> \in wire /\ wire' = wire \ {<<s, i, e>>}
        /\ pending' = {p \in pending : p[1] # i}
        /\ fut' = [c \in Calls |-> IF c \in found THEN "answered" ELSE fut[c]]
        /\ answer' = [c \in Calls |-> IF c \in found THEN e ELSE answer[c]]
        /\ UNCHANGED <<tools, pc, tool, sock, fid, seq, conn, outcome, drops>>
    BY <1>7 DEF Answer, call
  <2>2. Made' = Made
    BY <2>1 DEF Made
  <2>3. e \in Made /\ fid[e] = i
    BY <2>1 DEF WireInv
  <2>4. \A c \in found : c = e
    BY <2>3 DEF PendingInv, OwnId
  <2>5. AnswerInv'
    BY <2>1, <2>4 DEF AnswerInv
  <2>6. \A p \in pending' : p \in pending /\ p[2] \notin found
    BY <2>1 DEF PendingInv
  <2>7. TypeOK'
    <3>1. fut' \in [Calls -> {"open", "answered", "failed"}]
      BY <2>1 DEF TypeOK
    <3>2. answer' \in [Calls -> Calls]
      BY <2>1 DEF TypeOK
    <3>3. \A p \in pending' : fut'[p[2]] = "open"
      BY <2>1, <2>6 DEF TypeOK
    <3> QED
      BY <2>1, <3>1, <3>2, <3>3 DEF TypeOK
  <2>8. Counted' /\ OwnId'
    BY <2>1, <2>2, SameIds
  <2>9. PendingInv' /\ WireInv'
    BY <2>1, <2>2, <2>6 DEF PendingInv, WireInv
  <2>10. WaitInv'
    BY <2>1 DEF WaitInv, Under
  <2>11. UnusedInv'
    BY <2>1, <2>3, <2>4 DEF UnusedInv, Made
  <2> QED
    BY <2>5, <2>7, <2>8, <2>9, <2>10, <2>11 DEF IInv
<1>8. ASSUME NEW s \in Socks, Dies(s) PROVE IInv'
  <2>1. /\ conn[s] = "open" /\ drops < Drops
        /\ conn' = [conn EXCEPT ![s] = "dead"] /\ wire' \subseteq wire
        /\ drops' = drops + 1
        /\ UNCHANGED <<tools, pc, tool, sock, fid, fut, pending, seq, outcome, answer>>
    BY <1>8 DEF Dies, call
  <2>2. TypeOK'
    BY <2>1, BoundAssumption DEF TypeOK
  <2>3. Made' = Made
    BY <2>1 DEF Made
  <2>4. Counted' /\ OwnId'
    BY <2>1, <2>3, SameIds
  <2>5. PendingInv' /\ AnswerInv' /\ WireInv' /\ UnusedInv'
    BY <2>1, <2>3 DEF PendingInv, AnswerInv, WireInv, UnusedInv
  <2>6. WaitInv'
    BY <2>1 DEF WaitInv, Under, TypeOK
  <2> QED
    BY <2>2, <2>4, <2>5, <2>6 DEF IInv
<1>9. ASSUME NEW s \in Socks, Drop(s) PROVE IInv'
  <2>1. /\ conn[s] = "dead" /\ conn' = [conn EXCEPT ![s] = "gone"]
        /\ fut' = [c \in Calls |->
             IF \E p \in pending : p[2] = c THEN "failed" ELSE fut[c]]
        /\ pending' = {}
        /\ UNCHANGED <<tools, pc, tool, sock, fid, seq, wire, outcome, answer, drops>>
    BY <1>9 DEF Drop, call
  <2>2. TypeOK'
    BY <2>1 DEF TypeOK
  <2>3. Made' = Made
    BY <2>1 DEF Made
  <2>4. Counted' /\ OwnId'
    BY <2>1, <2>3, SameIds
  <2>5. PendingInv' /\ AnswerInv' /\ WireInv'
    BY <2>1, <2>3 DEF PendingInv, AnswerInv, WireInv
  <2>6. UnusedInv'
    BY <2>1 DEF UnusedInv, PendingInv, Made
  <2>7. ASSUME NEW c \in Calls, Under(c), fut'[c] = "open" PROVE FALSE
    <3>1. fut[c] = "open" /\ ~ \E p \in pending : p[2] = c
      BY <2>1, <2>7
    <3>2. <<fid[c], c>> \in pending
      BY <2>7, <3>1 DEF WaitInv
    <3> QED
      BY <3>1, <3>2
  <2>8. WaitInv'
    BY <2>1, <2>7 DEF WaitInv, Under
  <2> QED
    BY <2>2, <2>4, <2>5, <2>6, <2>8 DEF IInv
<1>10. ASSUME NEW s \in Socks, Connects(s) PROVE IInv'
  <2>1. /\ conn[s] = "gone" /\ conn' = [conn EXCEPT ![s] = "open"]
        /\ UNCHANGED <<tools, pc, tool, sock, fid, fut, pending, seq, wire, outcome,
                       answer, drops>>
    BY <1>10 DEF Connects, call
  <2>2. TypeOK'
    BY <2>1 DEF TypeOK
  <2>3. Made' = Made
    BY <2>1 DEF Made
  <2>4. Counted' /\ OwnId'
    BY <2>1, <2>3, SameIds
  <2>5. PendingInv' /\ AnswerInv' /\ WireInv' /\ UnusedInv'
    BY <2>1, <2>3 DEF PendingInv, AnswerInv, WireInv, UnusedInv
  <2>6. WaitInv'
    BY <2>1 DEF WaitInv, Under, TypeOK
  <2> QED
    BY <2>2, <2>4, <2>5, <2>6 DEF IInv
<1>11. CASE UNCHANGED vars
  <2>1. UNCHANGED <<tools, pc, tool, sock, fid, fut, pending, seq, conn, wire,
                    outcome, answer, drops>>
    BY <1>11 DEF vars, call
  <2>2. TypeOK' /\ Made' = Made
    BY <2>1 DEF TypeOK, Made
  <2>3. Counted' /\ OwnId'
    BY <2>1, <2>2, SameIds
  <2>4. PendingInv' /\ AnswerInv' /\ WireInv' /\ UnusedInv' /\ WaitInv'
    BY <2>1, <2>2 DEF PendingInv, AnswerInv, WireInv, UnusedInv, WaitInv, Under
  <2> QED
    BY <2>2, <2>3, <2>4 DEF IInv
<1> QED
  BY <1>1, <1>2, <1>3, <1>4, <1>5, <1>6, <1>7, <1>8, <1>9, <1>10, <1>11 DEF Next
----
(* The inductive invariant holds in every reachable state.                  *)
THEOREM Invariance == Spec => []IInv
<1>1. Init => IInv
  BY InitIInv
<1>2. IInv /\ [Next]_vars => IInv'
  BY InvStep
<1> QED
  BY <1>1, <1>2, PTL DEF Spec

(* Every state is well typed; a pending future is open and belongs to the   *)
(* call its id names.                                                       *)
THEOREM TypeCorrect == Spec => []TypeOK
<1>1. IInv => TypeOK
  BY DEF IInv
<1> QED
  BY <1>1, Invariance, PTL

(* No wait outlives its client (drop_client_waits fails every pending       *)
(* future when any connection goes, and a pending one can be found).        *)
THEOREM NoWaitOrphaned == Spec => []NoOrphanedWait
<1>1. IInv => NoOrphanedWait
  BY DEF IInv, WaitInv, Under, NoOrphanedWait
<1> QED
  BY <1>1, Invariance, PTL

(* An answer resolves the very call it was meant for, however late it comes *)
(* (_tool_call_seq is never used twice).                                    *)
THEOREM AnswersOwn == Spec => []AnswerIsOwn
<1>1. IInv => AnswerIsOwn
  BY DEF IInv, AnswerInv, AnswerIsOwn
<1> QED
  BY <1>1, Invariance, PTL
====
