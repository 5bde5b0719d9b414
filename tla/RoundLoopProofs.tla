------------------------- MODULE RoundLoopProofs -------------------------
(* Proofs about RoundLoop, for every set of calls and replies, every        *)
(* ceiling, budget and number of messages.                                  *)
EXTENDS RoundLoop, TLAPS

(* The loop has ended exactly when it is past the rounds, and it was billed *)
(* before anything but an error is told to the clients; only its handler    *)
(* can be cut.                                                              *)
EndInv ==
    /\ how = "looping" <=> pc \in {"next", "stream", "metered", "announce", "decide", "tools"}
    /\ how \in {"cancelled", "crashed"} => pc \in {"closing", "closed", "over"}
    /\ pc \in {"closing", "closed", "over"} => "billed" \in told
    /\ "cut" \in told => pc = "over" /\ how \in {"cancelled", "crashed"}

(* A round that is about to begin is still owed by the ceiling, a reprompt  *)
(* or a message; the goal check only asks under the ceiling.                *)
Allowed == turn.max + Extra("syntax") + Extra("continue") + applied
RoundInv ==
    /\ rounds <= Allowed
    /\ pc = "next" => rounds < Allowed
    /\ (pc \in {"announce", "decide"} /\ goal = "re-ask") => rounds < turn.max

(* What is known of a round without calls before it is decided upon.        *)
Undecided == pc \in {"announce", "decide"} /\ calls = <<>>
GoalInv ==
    (Undecided /\ failed # {} /\ rounds < turn.max) =>
        \/ goal = "re-ask" \/ "unfinished" \in flags
        \/ "broke" \in text /\ "syntax" \notin flags
AnnounceInv ==
    (Undecided /\ "spoke" \in text /\ "truncated" \notin flags /\ goal # "re-ask") => final = rounds

IInv ==
    /\ TypeOK /\ EndInv /\ RoundInv /\ GoalInv /\ AnnounceInv
    /\ FailuresStated /\ AnswerAnnounced /\ ClientTold

LEMMA InitIInv == Init => IInv
<1> SUFFICES ASSUME Init PROVE IInv
    OBVIOUS
<1>1. TypeOK
  BY BoundsAssumption DEF Init, TypeOK, Reprompts
<1>2. RoundInv
  BY BoundsAssumption DEF Init, RoundInv, Allowed, Extra
<1> QED
  BY <1>1, <1>2 DEF Init, IInv, EndInv, GoalInv, AnnounceInv, Undecided, FailuresStated,
                    AnswerAnnounced, ClientTold
----
(* Type correctness, for the actions that do not just move pc.              *)
LEMMA GoalType ==
    ASSUME TypeOK, NEW b \in BOOLEAN
    PROVE  /\ Goal(b) \in {"none", "re-ask", "unfinished"}
           /\ Goal(b) = "re-ask" => rounds < turn.max
           /\ (failed # {} /\ rounds < turn.max) =>
                \/ Goal(b) \in {"re-ask", "unfinished"} \/ "unfinished" \in flags
                \/ b /\ "syntax" \notin flags
<1>1. rounds \in Nat /\ turn.max \in Nat
  BY BoundsAssumption DEF TypeOK
<1> QED
  BY <1>1 DEF Goal, GoalState

LEMMA StreamType ==
    ASSUME TypeOK, Stream
    PROVE  TypeOK'
<1>1. CASE StreamFails
  BY <1>1 DEF StreamFails, TypeOK, round, guards, tokens, messages, history
<1>2. ASSUME NEW reply \in Replies, StreamRepeats(reply)
      PROVE  TypeOK'
  <2>1. last' \in Seq(Calls) /\ repeats' \in Nat
    BY <1>2, CallsAssumption DEF StreamRepeats, Streak, TypeOK
  <2> QED
    BY <1>2, <2>1 DEF StreamRepeats, Streaming, Stop, Break, TypeOK, round, tokens, messages, history
<1>3. ASSUME NEW reply \in Replies,
             NEW b \in BOOLEAN, NEW silent \in BOOLEAN, NEW cut \in BOOLEAN,
             StreamEnds(reply, b, silent, cut)
      PROVE  TypeOK'
  <2>1. /\ last' \in Seq(Calls) /\ repeats' \in Nat
        /\ calls' \in Seq(Calls)
    BY <1>3, CallsAssumption DEF StreamEnds, Streak, TypeOK
  <2>2. goal' \in {"none", "re-ask", "unfinished"}
    BY <1>3, GoalType DEF StreamEnds
  <2>3. /\ flags' \in SUBSET ({"truncated", "worked", "unfinished"} \cup Reprompts)
        /\ text' \in SUBSET {"broke", "spoke"} /\ final' \in Nat
        /\ pc' \in {"announce", "decide"}
    BY <1>3 DEF StreamEnds, TypeOK, Reprompts
  <2> QED
    BY <1>3, <2>1, <2>2, <2>3 DEF StreamEnds, TypeOK, tokens, messages
<1>4. CASE UsageBlock
  BY <1>4, BoundsAssumption DEF UsageBlock, TypeOK, round, guards, messages, history
<1> QED
  BY <1>1, <1>2, <1>3, <1>4 DEF Stream

LEMMA StepType ==
    ASSUME TypeOK, Next
    PROVE  TypeOK'
<1> USE BoundsAssumption DEF TypeOK, Reprompts, round, guards, tokens, messages, history
<1>1. CASE BeginRound
  <2>1. pc' \in {"stream", "close"} /\ how' \in {how, "stopped"}
    BY <1>1 DEF BeginRound, Stop, Break
  <2>2. flags' \in SUBSET ({"truncated", "worked", "unfinished"} \cup Reprompts)
    BY <1>1 DEF BeginRound, Stop
  <2> QED
    BY <1>1, <2>1, <2>2 DEF BeginRound
<1>2. CASE Stream
  BY <1>2, StreamType
<1>3. CASE TimeUp
  BY <1>3 DEF TimeUp, Stop, Break
<1>4. CASE Steered
  BY <1>4 DEF Steered, Drain
<1>5. CASE AskAgain
  BY <1>5 DEF AskAgain, Reprompt
<1>6. CASE Answer
  BY <1>6 DEF Answer, Break
<1>7. CASE BeginCalls
  BY <1>7 DEF BeginCalls, Drain
<1>8. ASSUME NEW outcome \in {"ok", "failed", "denied", "blocked"}, Call(outcome)
      PROVE  TypeOK'
  <2>1. Head(calls) \in Calls /\ Tail(calls) \in Seq(Calls)
    BY <1>8 DEF Call
  <2>2. failed' \in SUBSET Tools
    BY <1>8, <2>1, CallsAssumption DEF Call
  <2> QED
    BY <1>8, <2>1, <2>2 DEF Call
<1>9. CASE EndCalls
  BY <1>9 DEF EndCalls, Stop, Break
<1>10. CASE Close
  BY <1>10 DEF Close, Bill
<1>11. CASE ErrorSent
  BY <1>11 DEF ErrorSent, Bill
<1>12. CASE FirstSent
  BY <1>12 DEF FirstSent
<1>13. CASE LastSent
  BY <1>13 DEF LastSent
<1>14. CASE Cancel
  <2>1. pc' \in {"closing", "over"} /\ how' \in {how, "cancelled"}
    BY <1>14 DEF Cancel
  <2>2. told' \in {told \cup {"cut"}, told \cup {"billed"}} /\ spent' \in {spent, spent + usage}
    BY <1>14 DEF Cancel, Bill
  <2>3. UNCHANGED <<usage, used, final>>
    BY <1>14 DEF Cancel, Bill
  <2>4. UNCHANGED <<turn, rounds, flags, round, guards, messages>>
    BY <1>14 DEF Cancel
  <2> QED
    BY <2>1, <2>2, <2>3, <2>4
<1>15. CASE Crash
  BY <1>15 DEF Crash, Bill
<1>16. CASE Steer
  BY <1>16 DEF Steer
<1>17. CASE OtherBilled
  BY <1>17 DEF OtherBilled
<1> QED
  BY <1>1, <1>2, <1>3, <1>4, <1>5, <1>6, <1>7, <1>8, <1>9, <1>10, <1>11, <1>12, <1>13,
     <1>14, <1>15, <1>16, <1>17
     DEF Next, TurnStep
----
(* What the invariant's parts need of the types.                            *)
LEMMA Numbers ==
    ASSUME TypeOK
    PROVE  rounds \in Nat /\ turn.max \in Nat /\ applied \in Nat /\ steer \in Nat
  BY BoundsAssumption DEF TypeOK

(* The loop's end is reached, billed and told in that order.                *)
LEMMA StepEnd ==
    ASSUME TypeOK, EndInv, ClientTold, Next
    PROVE  EndInv' /\ ClientTold'
<1> USE DEF EndInv, ClientTold, round, guards, tokens, messages, history
<1>1. CASE BeginRound
  BY <1>1 DEF BeginRound, Stop, Break
<1>2. CASE Stream
  <2>1. CASE StreamFails
    BY <2>1 DEF StreamFails, Streaming
  <2>2. ASSUME NEW reply \in Replies, StreamRepeats(reply)
        PROVE  EndInv' /\ ClientTold'
    BY <2>2 DEF StreamRepeats, Streaming, Stop, Break
  <2>3. ASSUME NEW reply \in Replies,
               NEW b \in BOOLEAN, NEW silent \in BOOLEAN, NEW cut \in BOOLEAN,
               StreamEnds(reply, b, silent, cut)
        PROVE  EndInv' /\ ClientTold'
    <3>1. pc \in Streaming /\ pc' \in {"announce", "decide"} /\ UNCHANGED <<how, told>>
      BY <2>3 DEF StreamEnds
    <3> QED
      BY <3>1 DEF Streaming
  <2>4. CASE UsageBlock
    BY <2>4 DEF UsageBlock
  <2> QED
    BY <1>2, <2>1, <2>2, <2>3, <2>4 DEF Stream
<1>3. CASE TimeUp \/ Answer \/ EndCalls
  BY <1>3 DEF TimeUp, Answer, EndCalls, Stop, Break
<1>4. CASE Steered \/ AskAgain \/ BeginCalls
  BY <1>4 DEF Steered, AskAgain, BeginCalls
<1>5. ASSUME NEW outcome \in {"ok", "failed", "denied", "blocked"}, Call(outcome)
      PROVE  EndInv' /\ ClientTold'
  BY <1>5 DEF Call
<1>6. CASE Close \/ ErrorSent
  BY <1>6 DEF Close, ErrorSent, Bill
<1>7. CASE FirstSent \/ LastSent
  BY <1>7 DEF FirstSent, LastSent
<1>8. CASE Cancel
  BY <1>8 DEF Cancel, Awaits, Streaming, Bill
<1>9. CASE Crash
  BY <1>9 DEF Crash, Streaming, Bill
<1>10. CASE Steer \/ OtherBilled
  BY <1>10 DEF Steer, OtherBilled
<1> QED
  BY <1>1, <1>2, <1>3, <1>4, <1>5, <1>6, <1>7, <1>8, <1>9, <1>10 DEF Next, TurnStep
----
(* The rounds: what begins one is the ceiling, a reprompt or a message.     *)
LEMMA StepRounds ==
    ASSUME TypeOK, RoundInv, Next
    PROVE  RoundInv'
<1> USE Numbers DEF RoundInv, Allowed, Extra, round, guards, tokens, messages, history
<1>1. CASE BeginRound
  <2>1. rounds' = rounds + 1 /\ flags \subseteq flags' /\ UNCHANGED <<turn, applied>>
    BY <1>1 DEF BeginRound, Stop
  <2>2. pc' \in {"stream", "close"} /\ ("syntax" \in flags' <=> "syntax" \in flags)
        /\ ("continue" \in flags' <=> "continue" \in flags)
    BY <1>1 DEF BeginRound, Stop, Break
  <2> QED
    BY <1>1, <2>1, <2>2 DEF BeginRound
<1>2. CASE Stream
  <2>1. CASE StreamFails
    BY <2>1 DEF StreamFails, Streaming
  <2>2. ASSUME NEW reply \in Replies, StreamRepeats(reply)
        PROVE  RoundInv'
    BY <2>2 DEF StreamRepeats, Streaming, Stop, Break
  <2>3. ASSUME NEW reply \in Replies,
               NEW b \in BOOLEAN, NEW silent \in BOOLEAN, NEW cut \in BOOLEAN,
               StreamEnds(reply, b, silent, cut)
        PROVE  RoundInv'
    <3>1. pc' \in {"announce", "decide"} /\ UNCHANGED <<turn, rounds, applied>>
      BY <2>3 DEF StreamEnds
    <3>2. /\ "syntax" \in flags' <=> "syntax" \in flags
          /\ "continue" \in flags' <=> "continue" \in flags
      BY <2>3 DEF StreamEnds
    <3>3. goal' \in {"none", Goal(b)}
      BY <2>3 DEF StreamEnds
    <3>4. goal' = "re-ask" => rounds < turn.max
      BY <3>3, GoalType
    <3> QED
      BY <3>1, <3>2, <3>4
  <2>4. CASE UsageBlock
    BY <2>4 DEF UsageBlock
  <2> QED
    BY <1>2, <2>1, <2>2, <2>3, <2>4 DEF Stream
<1>3. CASE TimeUp
  BY <1>3 DEF TimeUp, Stop, Break
<1>4. CASE Steered
  BY <1>4 DEF Steered, Drain
<1>5. CASE AskAgain
  BY <1>5 DEF AskAgain, Reprompt
<1>6. CASE Answer
  BY <1>6 DEF Answer, Break
<1>7. CASE BeginCalls
  BY <1>7 DEF BeginCalls, Drain
<1>8. ASSUME NEW outcome \in {"ok", "failed", "denied", "blocked"}, Call(outcome)
      PROVE  RoundInv'
  <2>1. pc = "tools" /\ UNCHANGED <<pc, turn, rounds, applied>>
        /\ ("syntax" \in flags' <=> "syntax" \in flags)
        /\ ("continue" \in flags' <=> "continue" \in flags)
    BY <1>8 DEF Call
  <2> QED
    BY <2>1
<1>9. CASE EndCalls
  BY <1>9 DEF EndCalls, Stop, Break
<1>10. CASE Close \/ ErrorSent \/ FirstSent \/ LastSent
  BY <1>10 DEF Close, ErrorSent, FirstSent, LastSent
<1>11. CASE Cancel \/ Crash
  BY <1>11 DEF Cancel, Crash
<1>12. CASE Steer \/ OtherBilled
  BY <1>12 DEF Steer, OtherBilled
<1> QED
  BY <1>1, <1>2, <1>3, <1>4, <1>5, <1>6, <1>7, <1>8, <1>9, <1>10, <1>11, <1>12
     DEF Next, TurnStep
----
(* A round's text is decided upon: the goal check and the announcement of   *)
(* the stream's end still hold of it, and so they hold of the answer.       *)
Answered == GoalInv /\ AnnounceInv /\ FailuresStated /\ AnswerAnnounced

LEMMA StepAnswer ==
    ASSUME TypeOK, EndInv, Answered, Next
    PROVE  Answered'
<1> USE DEF Answered, GoalInv, AnnounceInv, FailuresStated, AnswerAnnounced, Undecided, EndInv,
            round, guards, tokens, messages, history
<1>1. CASE BeginRound
  BY <1>1 DEF BeginRound, Stop, Break
<1>2. CASE Stream
  <2>1. CASE StreamFails
    BY <2>1 DEF StreamFails, Streaming
  <2>2. ASSUME NEW reply \in Replies, StreamRepeats(reply)
        PROVE  Answered'
    BY <2>2 DEF StreamRepeats, Streaming, Stop, Break
  <2>3. ASSUME NEW reply \in Replies,
               NEW b \in BOOLEAN, NEW silent \in BOOLEAN, NEW cut \in BOOLEAN,
               StreamEnds(reply, b, silent, cut)
        PROVE  Answered'
    <3>1. how' = "looping" /\ UNCHANGED <<turn, rounds, failed>> /\ flags \subseteq flags'
      BY <2>3 DEF StreamEnds, Streaming
    <3>2. GoalInv'
      <4>1. SUFFICES ASSUME calls' = <<>>, failed # {}, rounds < turn.max
                     PROVE  \/ goal' = "re-ask" \/ "unfinished" \in flags'
                            \/ "broke" \in text' /\ "syntax" \notin flags'
        BY <3>1
      <4>2. goal' = Goal(b)
        BY <2>3, <4>1 DEF StreamEnds
      <4>3. "unfinished" \in flags \/ goal' = "unfinished" => "unfinished" \in flags'
        BY <2>3 DEF StreamEnds
      <4>4. b => "broke" \in text'
        BY <2>3 DEF StreamEnds
      <4>5. "syntax" \in flags' => "syntax" \in flags
        BY <2>3 DEF StreamEnds
      <4> QED
        BY <4>1, <4>2, <4>3, <4>4, <4>5, GoalType
    <3>3. AnnounceInv'
      <4>1. SUFFICES ASSUME calls' = <<>>, "spoke" \in text', "truncated" \notin flags',
                            goal' # "re-ask"
                     PROVE  final' = rounds
        BY <3>1
      <4>2. ~WillLoop(calls', goal')
        BY <4>1 DEF WillLoop
      <4> QED
        BY <2>3, <4>1, <4>2 DEF StreamEnds
    <3> QED
      BY <3>1, <3>2, <3>3
  <2>4. CASE UsageBlock
    BY <2>4 DEF UsageBlock
  <2> QED
    BY <1>2, <2>1, <2>2, <2>3, <2>4 DEF Stream
<1>3. CASE TimeUp
  BY <1>3 DEF TimeUp, Stop, Break
<1>4. CASE Steered
  BY <1>4 DEF Steered
<1>5. CASE AskAgain
  BY <1>5 DEF AskAgain
<1>6. CASE Answer
  BY <1>6 DEF Answer, Break, Reprompt
<1>7. CASE BeginCalls
  BY <1>7 DEF BeginCalls
<1>8. ASSUME NEW outcome \in {"ok", "failed", "denied", "blocked"}, Call(outcome)
      PROVE  Answered'
  BY <1>8 DEF Call
<1>9. CASE EndCalls
  BY <1>9 DEF EndCalls, Stop, Break
<1>10. CASE Close \/ ErrorSent
  BY <1>10 DEF Close, ErrorSent, Bill
<1>11. CASE FirstSent \/ LastSent
  BY <1>11 DEF FirstSent, LastSent
<1>12. CASE Cancel
  BY <1>12 DEF Cancel, Bill
<1>13. CASE Crash
  BY <1>13 DEF Crash, Bill
<1>14. CASE Steer \/ OtherBilled
  BY <1>14 DEF Steer, OtherBilled
<1> QED
  BY <1>1, <1>2, <1>3, <1>4, <1>5, <1>6, <1>7, <1>8, <1>9, <1>10, <1>11, <1>12, <1>13,
     <1>14 DEF Next, TurnStep
----
LEMMA NextIInv == IInv /\ [Next]_vars => IInv'
<1> SUFFICES ASSUME IInv, [Next]_vars PROVE IInv'
    OBVIOUS
<1>1. CASE Next
  <2>1. Answered
    BY DEF IInv, Answered
  <2> QED
    BY <1>1, <2>1, StepType, StepEnd, StepRounds, StepAnswer DEF IInv, Answered
<1>2. CASE UNCHANGED vars
  BY <1>2 DEF IInv, TypeOK, EndInv, RoundInv, Allowed, Extra, GoalInv, AnnounceInv,
              Undecided, FailuresStated, AnswerAnnounced, ClientTold,
              vars, round, guards, tokens, messages, history
<1> QED
  BY <1>1, <1>2

(* What is known of a turn at every moment, whatever the model answers.     *)
THEOREM Invariance == Spec => []IInv
  BY InitIInv, NextIInv, PTL DEF Spec

(* TypeOK: the turn's variables keep their types in every run.              *)
THEOREM TypeCorrect == Spec => []TypeOK
<1>1. IInv => TypeOK
  BY DEF IInv
<1> QED
  BY <1>1, Invariance, PTL

(* RoundsBounded: for every ceiling and every model, max_rounds is overshot *)
(* by no more than the two reprompts and the user's own messages.           *)
THEOREM CeilingHolds == Spec => []RoundsBounded
<1>1. IInv => RoundsBounded
  BY DEF IInv, RoundInv, Allowed, RoundsBounded
<1> QED
  BY <1>1, Invariance, PTL

(* FailuresStated: the goal check cannot be skipped below the ceiling: a    *)
(* turn never closes there over a failed tool without saying so.            *)
THEOREM FailuresAlwaysStated == Spec => []FailuresStated
<1>1. IInv => FailuresStated
  BY DEF IInv
<1> QED
  BY <1>1, Invariance, PTL

(* AnswerAnnounced: the text a turn closes on was announced as its answer.  *)
THEOREM AnswersAnnounced == Spec => []AnswerAnnounced
<1>1. IInv => AnswerAnnounced
  BY DEF IInv
<1> QED
  BY <1>1, Invariance, PTL

(* EveryTurnBilled: no way out of _run_turn leaves its tokens unbilled.     *)
THEOREM TurnsBilled == Spec => []EveryTurnBilled
<1>1. IInv => EveryTurnBilled
  BY DEF IInv, EndInv, EveryTurnBilled
<1> QED
  BY <1>1, Invariance, PTL

(* ClientTold: a turn is over, however it ended, only once its clients were *)
(* told so, unless the handler that was telling them was cancelled.         *)
THEOREM ClientsTold == Spec => []ClientTold
<1>1. IInv => ClientTold
  BY DEF IInv
<1> QED
  BY <1>1, Invariance, PTL
----
(* TurnAdvances. What a step leaves alone of the measure is taken from its  *)
(* UNCHANGED; a round that begins is one less of those that are left.       *)
LEMMA RoundsLeftNat ==
    ASSUME IInv
    PROVE  RoundsLeft \in Int /\ 0 <= RoundsLeft /\ (pc = "next" => 0 < RoundsLeft)
  BY Numbers DEF IInv, RoundInv, Allowed, Extra, RoundsLeft

LEMMA StepNears ==
    ASSUME IInv, TurnStep \/ Cancel \/ Crash
    PROVE  Nearer
<1> USE DEF round, guards, tokens, messages, history
<1>0. rounds \in Nat /\ turn.max \in Nat /\ applied \in Nat /\ steer \in Nat
  BY Numbers DEF IInv
<1>1. CASE BeginRound
  <2>1. RoundsLeft' = RoundsLeft - 1
    BY <1>1, <1>0 DEF BeginRound, RoundsLeft
  <2> QED
    BY <1>1, <2>1, RoundsLeftNat DEF BeginRound, Nearer
<1>2. ASSUME UNCHANGED RoundsLeft, pc \in {"stream", "metered", "announce", "decide", "tools", "next"},
             pc' \in {"close", "failing", "closing"},
             pc' = "closing" => how' \in {"cancelled", "crashed"}
      PROVE  Nearer
  BY <1>2 DEF Nearer, Stage, Handled
<1>3. CASE Stream
  <2>1. CASE StreamFails
    <3>1. UNCHANGED RoundsLeft
      BY <2>1 DEF StreamFails, RoundsLeft
    <3> QED
      BY <1>2, <2>1, <3>1 DEF StreamFails, Streaming
  <2>2. ASSUME NEW reply \in Replies, StreamRepeats(reply) PROVE Nearer
    <3>1. UNCHANGED RoundsLeft
      BY <2>2 DEF StreamRepeats, RoundsLeft
    <3> QED
      BY <1>2, <2>2, <3>1 DEF StreamRepeats, Streaming, Stop, Break
  <2>3. ASSUME NEW reply \in Replies,
               NEW b \in BOOLEAN, NEW silent \in BOOLEAN, NEW cut \in BOOLEAN,
               StreamEnds(reply, b, silent, cut)
        PROVE  Nearer
    <3>1. UNCHANGED RoundsLeft
      BY <2>3 DEF StreamEnds, RoundsLeft
    <3>2. pc \in {"stream", "metered"} /\ pc' \in {"announce", "decide"}
      BY <2>3 DEF StreamEnds, Streaming
    <3> QED
      BY <3>1, <3>2 DEF Nearer, Stage
  <2>4. CASE UsageBlock
    <3>1. UNCHANGED RoundsLeft
      BY <2>4 DEF UsageBlock, RoundsLeft
    <3> QED
      BY <2>4, <3>1 DEF UsageBlock, Nearer, Stage
  <2> QED
    BY <1>3, <2>1, <2>2, <2>3, <2>4 DEF Stream
<1>4. CASE TimeUp \/ Answer
  <2>1. UNCHANGED RoundsLeft
    BY <1>4 DEF TimeUp, Answer, RoundsLeft
  <2> QED
    BY <1>2, <1>4, <2>1 DEF TimeUp, Answer, Stop, Break
<1>5. CASE Steered \/ AskAgain \/ BeginCalls
  <2>1. ASSUME AskAgain PROVE UNCHANGED RoundsLeft
    BY <2>1 DEF AskAgain, RoundsLeft
  <2>2. ASSUME Steered \/ BeginCalls PROVE UNCHANGED RoundsLeft
    <3>1. /\ turn' = turn /\ rounds' = rounds
          /\ steer' = 0 /\ applied' = applied + steer
      BY <2>2 DEF Steered, BeginCalls, Drain
    <3>2. RoundsLeft' = turn.max + 2 + (applied + steer) + 0 - rounds
      BY <3>1 DEF RoundsLeft
    <3> QED
      BY <1>0, <3>2 DEF RoundsLeft
  <2>3. UNCHANGED RoundsLeft
    BY <1>5, <2>1, <2>2
  <2> QED
    BY <1>5, <2>3 DEF Steered, AskAgain, BeginCalls, Nearer, Stage
<1>6. ASSUME NEW outcome \in {"ok", "failed", "denied", "blocked"}, Call(outcome)
      PROVE  Nearer
  <2>1. UNCHANGED <<RoundsLeft, Stage>>
    BY <1>6 DEF Call, RoundsLeft, Stage, Handled
  <2>2. Len(calls') < Len(calls)
    BY <1>6 DEF Call, IInv, TypeOK
  <2> QED
    BY <2>1, <2>2 DEF Nearer
<1>7. CASE EndCalls
  <2>1. UNCHANGED RoundsLeft
    BY <1>7 DEF EndCalls, RoundsLeft
  <2> QED
    BY <1>7, <2>1 DEF EndCalls, Stop, Break, Nearer, Stage
<1>8. CASE Close \/ ErrorSent \/ FirstSent \/ LastSent
  <2>1. UNCHANGED <<RoundsLeft, how>>
    BY <1>8 DEF Close, ErrorSent, FirstSent, LastSent, RoundsLeft
  <2> QED
    BY <1>8, <2>1 DEF Close, ErrorSent, FirstSent, LastSent, Nearer, Stage, Handled, IInv, EndInv
<1>9. CASE Cancel
  <2>1. UNCHANGED RoundsLeft
    BY <1>9 DEF Cancel, RoundsLeft
  <2>2. CASE Handled
    <3>1. pc \in {"closing", "closed"} /\ pc' = "over"
      BY <1>9, <2>2 DEF Cancel, Awaits, Handled, IInv, EndInv
    <3>2. Stage \in {1, 2} /\ Stage' = 0
      BY <2>2, <3>1 DEF Stage
    <3> QED
      BY <2>1, <3>2 DEF Nearer
  <2>3. CASE ~Handled
    BY <1>9, <2>1, <2>3 DEF Cancel, Awaits, Nearer, Stage, Handled
  <2> QED
    BY <2>2, <2>3
<1>10. CASE Crash
  <2>1. UNCHANGED RoundsLeft
    BY <1>10 DEF Crash, RoundsLeft
  <2> QED
    BY <1>2, <1>10, <2>1 DEF Crash, Streaming
<1> QED
  BY <1>1, <1>3, <1>4, <1>5, <1>6, <1>7, <1>8, <1>9, <1>10 DEF TurnStep

(* TurnAdvances: whatever the model answers, whatever fails and whoever     *)
(* cancels, each step of a turn brings it nearer to its end, in an order in *)
(* which nothing descends for ever. Only messages add rounds, one each.     *)
THEOREM TurnsAdvance == Spec => TurnAdvances
<1>1. IInv /\ [Next]_vars => [Steer \/ OtherBilled \/ Nearer]_vars
  BY StepNears DEF Next
<1> QED
  BY <1>1, Invariance, PTL DEF Spec, TurnAdvances

(* A message that is typed at a turn buys it one round and moves nothing    *)
(* else of the measure; other turns of its agent move none of it.           *)
LEMMA SteerAddsOne ==
    ASSUME IInv, Steer \/ OtherBilled
    PROVE  /\ RoundsLeft' \in {RoundsLeft, RoundsLeft + 1}
           /\ UNCHANGED <<Stage, calls>>
<1>1. UNCHANGED <<turn, pc, how, rounds, calls, applied>> /\ steer' \in {steer, steer + 1}
  BY DEF Steer, OtherBilled, round, messages
<1>2. UNCHANGED <<Stage, calls>>
  BY <1>1 DEF Stage, Handled
<1>3. rounds \in Nat /\ turn.max \in Nat /\ applied \in Nat /\ steer \in Nat
  BY Numbers DEF IInv
<1> QED
  BY <1>1, <1>2, <1>3 DEF RoundsLeft
====
