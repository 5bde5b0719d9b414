---------------------------- MODULE RoundLoop ----------------------------
(* One turn's rounds (agent/serve.py, _execute_turn, run_tool_loop and the  *)
(* handlers of _run_turn): ask the model, run the tools it calls, ask it    *)
(* again, until it stops asking, a guard stops it, it fails or is cancelled.*)
(*                                                                          *)
(* A step is what the turn does between two awaits; the clients, the clock  *)
(* and the agent's other turns act while it awaits.                         *)
EXTENDS Integers, Sequences

CONSTANTS
    Calls, Tools, ToolOf,  \* what a model can ask for, and of which tool
    Writes,                \* the calls that need approval
    Replies,               \* the sequences of calls a round can ask for
    RunCall,               \* what a message "run ..." stands for
    Limit,                 \* the agent's token budget
    Params,                \* what turns are started with: a ceiling, and
                           \* whether limited, read-only, a message "run ..."
    MaxSteers, MaxSpent    \* bounds: queued messages, other turns' tokens

ASSUME CallsAssumption ==
    /\ ToolOf \in [Calls -> Tools] /\ RunCall \in Calls
    /\ Replies \subseteq Seq(Calls)
ASSUME BoundsAssumption ==
    /\ Params \subseteq [max : Nat \ {0}, is : SUBSET {"limited", "readonly", "run"}]
    /\ Limit \in Nat /\ MaxSteers \in Nat /\ MaxSpent \in Nat

VARIABLES
    turn,       \* what the turn was started with
    pc, how,    \* where it is, and how its loop ended
    rounds,
    flags,      \* what is set in the turn: truncated, that it worked (a tool
                \* entry is in its output), the reprompts and statements made
    calls, goal, text,   \* the round's calls, goal check, and whether its
                         \* text had unreadable syntax and was announced
    last, repeats,       \* _last_calls_sig, _repeat_calls
    failed,     \* _failed_tools
    steer, applied,      \* messages queued for it; history: folded in
    usage,      \* turn["usage"]: tokens of the last usage block
    spent,      \* policy.json: the agent's tokens
    used,       \* history: tokens its rounds used, up to the budget
    final,      \* history: the last round announced as final
    told        \* history: turn/completed was sent, the turn was billed, its
                \* ending handler was cancelled itself

round == <<calls, goal, text>>
guards == <<last, repeats, failed>>
tokens == <<usage, spent, used>>
messages == <<steer, applied>>
history == <<final, told>>
vars == <<turn, pc, how, rounds, flags, round, guards, tokens, messages, history>>

Reprompts == {"syntax", "goal", "continue"}

TypeOK ==
    /\ turn \in Params
    /\ pc \in {"next", "stream", "metered", "announce", "decide", "tools", "failing", "close",
               "closing", "closed", "over"}
    /\ how \in {"looping", "answer", "stopped", "error", "cancelled", "crashed"}
    /\ rounds \in Nat /\ final \in Nat /\ repeats \in Nat
    /\ flags \in SUBSET ({"truncated", "worked", "unfinished"} \cup Reprompts)
    /\ calls \in Seq(Calls) /\ last \in Seq(Calls)
    /\ goal \in {"none", "re-ask", "unfinished"}
    /\ text \in SUBSET {"broke", "spoke"}
    /\ failed \in SUBSET Tools
    /\ steer \in Nat /\ applied \in Nat
    /\ usage \in Nat /\ spent \in Nat /\ used \in 0..Limit
    /\ told \in SUBSET {"billed", "completed", "cut"}

Init ==
    /\ turn \in Params
    /\ pc = "next" /\ how = "looping" /\ rounds = 0 /\ flags = {}
    /\ calls = <<>> /\ goal = "none" /\ text = {}
    /\ last = <<>> /\ repeats = 0 /\ failed = {}
    /\ steer = 0 /\ applied = 0
    /\ usage = 0 /\ spent = 0 /\ used = 0
    /\ final = 0 /\ told = {}

(* break out of the loop: what follows the loop runs next.                  *)
Break(why) == pc' = "close" /\ how' = why
Stop == Break("stopped") /\ flags' = flags \cup {"truncated"}
----
(* The model *)

(* A round begins; over the budget it ends the turn instead. The owner is   *)
(* never limited.                                                           *)
BeginRound ==
    /\ pc = "next"
    /\ rounds' = rounds + 1
    /\ calls' = <<>> /\ goal' = "none" /\ text' = {}
    /\ IF "limited" \in turn.is /\ spent >= Limit
         THEN Stop
         ELSE pc' = "stream" /\ UNCHANGED <<how, flags>>
    /\ UNCHANGED <<turn, guards, tokens, messages, history>>

Streaming == {"stream", "metered"}

(* The stream's usage block: turn["usage"] = delta["usage"]. Tokens are     *)
(* counted in what a round uses.                                            *)
UsageBlock ==
    /\ pc = "stream"
    /\ pc' = "metered"
    /\ usage' = 1 /\ used' = IF used < Limit THEN used + 1 ELSE used
    /\ UNCHANGED <<turn, how, rounds, flags, round, guards, spent, messages, history>>

StreamFails ==
    /\ pc \in Streaming
    /\ pc' = "failing" /\ how' = "error"
    /\ UNCHANGED <<turn, rounds, flags, round, guards, tokens, messages, history>>

(* Mutant: the model is asked, the user is told nothing.                    *)
GoalStateUnsaid == IF failed = {} \/ "goal" \in flags THEN "none" ELSE "re-ask"

(* _goal_state                                                              *)
GoalState ==
    IF failed = {} THEN "none"
    ELSE IF "goal" \notin flags THEN "re-ask"
    ELSE IF "unfinished" \notin flags THEN "unfinished" ELSE "none"

(* The re-ask waits when there is no round to ask in, or an unreadable call *)
(* has the better claim on it.                                              *)
Goal(b) ==
    IF GoalState = "re-ask" /\ (rounds >= turn.max \/ (b /\ "syntax" \notin flags))
      THEN "none" ELSE GoalState

(* Mutant: any failure counts as another round, asked for or not.           *)
WillLoopFailed(cs, g) == (cs # <<>> \/ failed # {}) /\ rounds < turn.max

(* will_loop                                                                *)
WillLoop(cs, g) == (cs # <<>> \/ g = "re-ask") /\ rounds < turn.max

Streak(reply) == IF reply = last THEN repeats + 1 ELSE 1

(* The stream ends, or is cut at the round's time limit: its calls are      *)
(* read, the goal checked and the round announced, unless it was silent.    *)
StreamEnds(reply, b, silent, cut) ==
    LET cs == IF reply = <<>> /\ rounds = 1 /\ "run" \in turn.is THEN <<RunCall>> ELSE reply
        g == IF cs = <<>> THEN Goal(b) ELSE "none"
    IN  /\ pc \in Streaming /\ ~(reply # <<>> /\ Streak(reply) >= 3)
        /\ flags' = flags \cup (IF cut THEN {"truncated"} ELSE {})
                          \cup (CASE g = "re-ask" -> {"goal"}
                                  [] g = "unfinished" -> {"unfinished"}
                                  [] OTHER -> {})
        /\ IF reply # <<>>
             THEN last' = reply /\ repeats' = Streak(reply)
             ELSE UNCHANGED <<last, repeats>>
        /\ calls' = cs /\ goal' = g
        /\ text' = (IF b THEN {"broke"} ELSE {})
                   \cup (IF silent /\ g # "unfinished" THEN {} ELSE {"spoke"})
        /\ pc' = IF "spoke" \in text' THEN "announce" ELSE "decide"
        /\ final' = IF "spoke" \in text' /\ ~WillLoop(cs, g) /\ "truncated" \notin flags'
                     THEN rounds ELSE final
        /\ UNCHANGED <<turn, how, rounds, failed, tokens, messages, told>>

(* The same calls for the third time: they are not run.                     *)
StreamRepeats(reply) ==
    /\ pc \in Streaming /\ reply # <<>> /\ Streak(reply) >= 3
    /\ Stop
    /\ last' = reply /\ repeats' = Streak(reply)
    /\ UNCHANGED <<turn, rounds, round, failed, tokens, messages, history>>
----
(* The end of a round *)

(* The turn's time limit is looked at here only, and may have passed at any *)
(* time; it ends the turn.                                                  *)
TimeUp ==
    /\ pc \in {"announce", "decide"}
    /\ Stop
    /\ UNCHANGED <<turn, rounds, round, guards, tokens, messages, history>>

(* _drain_steer                                                             *)
Drain == steer' = 0 /\ applied' = applied + steer

(* No calls, but the user spoke up: another round, whatever the ceiling.    *)
Steered ==
    /\ pc \in {"announce", "decide"} /\ calls = <<>> /\ steer > 0
    /\ Drain
    /\ pc' = "next"
    /\ UNCHANGED <<turn, how, rounds, flags, round, guards, tokens, history>>

(* What the model is asked once more before its text is the answer.         *)
Reprompt ==
    IF "broke" \in text /\ "syntax" \notin flags THEN {"syntax"}
    ELSE IF goal = "re-ask" THEN {"goal"}
    ELSE IF "worked" \in flags /\ "continue" \notin flags THEN {"continue"} ELSE {}

(* Mutant: what was asked is not remembered.                                *)
AskForever ==
    /\ pc \in {"announce", "decide"} /\ calls = <<>> /\ steer = 0
    /\ Reprompt # {}
    /\ pc' = "next"
    /\ UNCHANGED <<turn, how, rounds, flags, round, guards, tokens, messages, history>>

AskAgain ==
    /\ pc \in {"announce", "decide"} /\ calls = <<>> /\ steer = 0
    /\ Reprompt # {}
    /\ flags' = flags \cup Reprompt
    /\ pc' = "next"
    /\ UNCHANGED <<turn, how, rounds, round, guards, tokens, messages, history>>

Answer ==
    /\ pc \in {"announce", "decide"} /\ calls = <<>> /\ steer = 0
    /\ Reprompt = {}
    /\ Break("answer")
    /\ UNCHANGED <<turn, rounds, flags, round, guards, tokens, messages, history>>

(* Calls: queued messages join the next round, and the calls are run.       *)
BeginCalls ==
    /\ pc \in {"announce", "decide"} /\ calls # <<>>
    /\ Drain
    /\ pc' = "tools"
    /\ UNCHANGED <<turn, how, rounds, flags, round, guards, tokens, history>>

Outcomes(c) ==
    IF c \notin Writes THEN {"ok", "failed"}
    ELSE IF "readonly" \in turn.is THEN {"blocked"} ELSE {"ok", "failed", "denied"}

(* Mutant: a blocked call is tried again.                                   *)
CallAgain(outcome) ==
    /\ pc = "tools" /\ calls # <<>> /\ outcome \in Outcomes(Head(calls))
    /\ failed' = CASE outcome = "ok" -> failed \ {ToolOf[Head(calls)]}
                   [] outcome = "failed" -> failed \cup {ToolOf[Head(calls)]}
                   [] OTHER -> failed
    /\ flags' = flags \cup {"worked"}
    /\ calls' = IF outcome = "blocked" THEN calls ELSE Tail(calls)
    /\ UNCHANGED <<turn, pc, how, rounds, goal, text, last, repeats, tokens, messages,
                   history>>

(* One call of run_tool_loop. Blocked and denied calls leave an entry in    *)
(* the output, and are no failures (_note_tool_outcome is not called).      *)
Call(outcome) ==
    /\ pc = "tools" /\ calls # <<>> /\ outcome \in Outcomes(Head(calls))
    /\ failed' = CASE outcome = "ok" -> failed \ {ToolOf[Head(calls)]}
                   [] outcome = "failed" -> failed \cup {ToolOf[Head(calls)]}
                   [] OTHER -> failed
    /\ flags' = flags \cup {"worked"}
    /\ calls' = Tail(calls)
    /\ UNCHANGED <<turn, pc, how, rounds, goal, text, last, repeats, tokens, messages,
                   history>>

(* Mutant: the backstop is one round late.                                  *)
EndCallsLate ==
    /\ pc = "tools" /\ calls = <<>>
    /\ IF rounds > turn.max THEN Stop ELSE pc' = "next" /\ UNCHANGED <<how, flags>>
    /\ UNCHANGED <<turn, rounds, round, guards, tokens, messages, history>>

EndCalls ==
    /\ pc = "tools" /\ calls = <<>>
    /\ IF rounds >= turn.max THEN Stop ELSE pc' = "next" /\ UNCHANGED <<how, flags>>
    /\ UNCHANGED <<turn, rounds, round, guards, tokens, messages, history>>
----
(* The end of the turn *)

(* _accrue_turn_usage                                                       *)
Bill ==
    /\ told' = told \cup {"billed"} /\ spent' = spent + usage
    /\ UNCHANGED <<usage, used, final>>

Close ==
    /\ pc = "close"
    /\ Bill
    /\ pc' = "closing"
    /\ UNCHANGED <<turn, how, rounds, flags, round, guards, messages>>

(* Mutant: the error path forgets to bill.                                  *)
ErrorSentFree ==
    /\ pc = "failing"
    /\ pc' = "closed"
    /\ UNCHANGED <<turn, how, rounds, flags, round, guards, tokens, messages, history>>

(* The first of two closing broadcasts: an error is billed after it.        *)
ErrorSent ==
    /\ pc = "failing"
    /\ Bill
    /\ pc' = "closed"
    /\ UNCHANGED <<turn, how, rounds, flags, round, guards, messages>>

(* Mutant: a cancelled turn's clients get an error and no terminal event.   *)
FirstSentAlone ==
    /\ pc = "closing"
    /\ pc' = IF how = "cancelled" THEN "over" ELSE "closed"
    /\ UNCHANGED <<turn, how, rounds, flags, round, guards, tokens, messages, history>>

FirstSent ==
    /\ pc = "closing"
    /\ pc' = "closed"
    /\ UNCHANGED <<turn, how, rounds, flags, round, guards, tokens, messages, history>>

(* turn/completed is sent.                                                  *)
LastSent ==
    /\ pc = "closed"
    /\ pc' = "over" /\ told' = told \cup {"completed"}
    /\ UNCHANGED <<turn, how, rounds, flags, round, guards, tokens, messages, final>>

Awaits == {"stream", "metered", "announce", "tools", "failing", "closing", "closed"}

(* The task is cancelled while it awaits. The handler bills the turn, once  *)
(* more if it was closing; a second cancellation ends the handler.          *)
Cancel ==
    /\ pc \in Awaits
    /\ IF how \in {"cancelled", "crashed"}
         THEN pc' = "over" /\ told' = told \cup {"cut"} /\ UNCHANGED <<how, tokens, final>>
         ELSE pc' = "closing" /\ how' = "cancelled" /\ Bill
    /\ UNCHANGED <<turn, rounds, flags, round, guards, messages>>

(* An exception in the loop: a message that cannot be built or read, an     *)
(* audit that cannot be written. The provider's own are StreamFails.        *)
Crash ==
    /\ pc \in {"next", "announce", "decide", "tools"} \cup Streaming
    /\ pc' = "closing" /\ how' = "crashed"
    /\ Bill
    /\ UNCHANGED <<turn, rounds, flags, round, guards, messages>>
----
(* While the turn awaits *)

Steer ==
    /\ pc \in Awaits /\ steer + applied < MaxSteers
    /\ steer' = steer + 1
    /\ UNCHANGED <<turn, pc, how, rounds, flags, round, guards, tokens, applied,
                   history>>

(* Another turn of the agent is billed; it matters to a limited one.        *)
OtherBilled ==
    /\ pc \in Awaits /\ "limited" \in turn.is /\ spent < MaxSpent
    /\ spent' = spent + 1
    /\ UNCHANGED <<turn, pc, how, rounds, flags, round, guards, usage, used,
                   messages, history>>
----
Stream ==
    \/ UsageBlock \/ StreamFails
    \/ \E reply \in Replies :
         \/ StreamRepeats(reply)
         \/ \E b, silent, cut \in BOOLEAN :
              /\ b => reply = <<>> /\ ~silent
              /\ silent => reply = <<>>
              /\ StreamEnds(reply, b, silent, cut)

TurnStep ==
    \/ BeginRound \/ Stream
    \/ TimeUp \/ Steered \/ AskAgain \/ Answer \/ BeginCalls
    \/ (\E outcome \in {"ok", "failed", "denied", "blocked"} : Call(outcome)) \/ EndCalls
    \/ Close \/ ErrorSent \/ FirstSent \/ LastSent

Next == TurnStep \/ Cancel \/ Crash \/ Steer \/ OtherBilled

Spec == Init /\ [][Next]_vars

(* The loop's awaits end: streams at the round's time limit, tools by their *)
(* timeouts, approvals by their answers.                                    *)
FairSpec == Spec /\ WF_vars(TurnStep)
----
(* Properties *)

(* max_rounds only stops rounds that call tools. Every other round is one   *)
(* of two reprompts or follows a message: the ceiling is overshot by no     *)
(* more than that.                                                          *)
Extra(x) == IF x \in flags THEN 1 ELSE 0
RoundsBounded == rounds <= turn.max + Extra("syntax") + Extra("continue") + applied

(* Finding 29 #4: a turn that closes with an answer over a failed tool has  *)
(* said so to the user, unless the ceiling left no round to ask the model   *)
(* in.                                                                      *)
FailuresStated ==
    (how = "answer" /\ failed # {} /\ rounds < turn.max) => "unfinished" \in flags

(* The round whose text is the answer was announced as final, so the client *)
(* shows it as the answer, unless it said nothing or a stream was cut.      *)
AnswerAnnounced ==
    (how = "answer" /\ "spoke" \in text /\ "truncated" \notin flags) => final = rounds

(* Every way a turn ends bills it to its agent.                             *)
EveryTurnBilled == pc = "over" => "billed" \in told

(* "Terminal event: without this the client waits forever": a turn that is  *)
(* over, answered, stopped, failed, cancelled or crashed, has sent          *)
(* turn/completed, unless the handler that was sending it was cancelled.    *)
ClientTold == pc = "over" => told \cap {"completed", "cut"} # {}

(* Every turn ends, whatever the model does: rounds that call tools are     *)
(* bounded by the ceiling, the others by the reprompts and the messages.    *)
TurnEnds == <>(pc = "over")

(* Why it ends: a bound on the rounds a turn may still begin, its place in  *)
(* the round or in its end, and the calls of the round still to be run.     *)
RoundsLeft == turn.max + 2 + applied + steer - rounds
Handled    == how \in {"cancelled", "crashed"}
Stage ==
    CASE pc = "stream"                -> 10
      [] pc = "metered"               -> 9
      [] pc \in {"announce", "decide"} -> 8
      [] pc = "tools"                 -> 7
      [] pc = "next"                  -> 6
      [] pc \in {"close", "failing"}  -> 5
      [] pc = "closing"               -> IF Handled THEN 2 ELSE 4
      [] pc = "closed"                -> IF Handled THEN 1 ELSE 3
      [] pc = "over"                  -> 0

(* Every step of a turn, a cancellation and an exception included, brings   *)
(* it nearer to its end, for whatever the model answers: no reprompt, fold, *)
(* failure or repeated call can send it back to where it was.               *)
Nearer ==
    \/ 0 <= RoundsLeft' /\ RoundsLeft' < RoundsLeft
    \/ RoundsLeft' = RoundsLeft /\ Stage' < Stage
    \/ UNCHANGED <<RoundsLeft, Stage>> /\ Len(calls') < Len(calls)
TurnAdvances == [][Steer \/ OtherBilled \/ Nearer]_vars

(* What the documents say and the code does not do. "It cannot disagree     *)
(* with what actually happens": no round follows one announced as final.    *)
FinalIsLast == final = 0 \/ rounds = final

(* "The statement is inside that text -- what the client renders": an       *)
(* answer over a failed tool ends with the engine's statement.              *)
AnswerSaysUnfinished ==
    (how = "answer" /\ failed # {} /\ "unfinished" \in flags /\ "spoke" \in text) =>
        goal = "unfinished"

(* "A single round may overshoot -- the next round stops": no round is      *)
(* asked of the model once the agent's tokens, this turn's included, are    *)
(* over its budget.                                                         *)
BudgetStopsTurn ==
    (pc = "stream" /\ "limited" \in turn.is /\ rounds > 1) => spent + used < Limit
====
