------------------------------ MODULE AgentLoop ------------------------------
(***************************************************************************)
(* ai/agent.py: HackrfAgent.chat(), one turn after another over one        *)
(* message history that is trimmed before each request.  The model may     *)
(* answer anything that the client can translate; the executor returns     *)
(* whenever it is done, or lets an exception out.                          *)
(***************************************************************************)
EXTENDS OpenRouterClient

CONSTANTS max_history_messages, max_tool_calls_per_turn,
          None,              \* no tool_use
          MaxTurns           \* bound: lines typed at the prompt

(* Of a history of one message, a request after a tool call would be empty. *)
ASSUME HistoryHoldsAPair == max_history_messages \in Nat \ {0, 1}
ASSUME TurnBounds == {max_tool_calls_per_turn, MaxTurns} \subseteq Nat \ {0}
ASSUME NoneIsNoCall == None \notin Nat

VARIABLES agent,       \* where chat() is
          messages,    \* self._messages
          tool_calls_this_turn,
          turns,
          answered     \* auxiliary: the tool_use blocks that chat() dispatched
agentVars == <<agent, messages, tool_calls_this_turn, turns, answered>>
vars == <<clientVars, agentVars>>

(* A message, by the tool_use blocks it carries and the one it answers;    *)
(* the ids of tool_use blocks are numbers.                                 *)
Message == [role : {"user", "assistant"}, uses : SUBSET Nat, answers : Nat \cup {None}]
UserText == [role |-> "user", uses |-> {}, answers |-> None]
AssistantTurn(uses) == [role |-> "assistant", uses |-> uses, answers |-> None]
ToolResult(id) == [role |-> "user", uses |-> {}, answers |-> id]

IsToolResult(m) == m.role = "user" /\ m.answers # None

(* What send() can return: any stop_reason with any blocks, for nothing    *)
(* ties the finish_reason of a provider to the tool calls it lists.        *)
Response ==
  [stop_reason : {"end_turn", "refusal", "tool_use", "max_tokens"},
   text : BOOLEAN, tool_uses : 0..2,
   first : {"command", "wrong_name", "bad_command", "not_an_object"}]
-----------------------------------------------------------------------------
(* A mutant: the window is cut wherever it falls. *)
Trimmed_Anywhere(history) ==
  IF Len(history) <= max_history_messages THEN history
  ELSE SubSeq(history, Len(history) - max_history_messages + 1, Len(history))

(* _trim_history: the last messages, less the tool results that would come *)
(* first.                                                                  *)
Trimmed(history) ==
  IF Len(history) <= max_history_messages THEN history
  ELSE LET window == SubSeq(history, Len(history) - max_history_messages + 1, Len(history))
           first == CHOOSE i \in 1..Len(window) + 1 :
                      /\ \A j \in 1..i - 1 : IsToolResult(window[j])
                      /\ i <= Len(window) => ~IsToolResult(window[i])
       IN  SubSeq(window, first, Len(window))

(* What the request in hand carries.                                       *)
Request == Trimmed(messages)

(* Ids are fresh: they are numbered in the order in which they appear.     *)
NextId == 2 * Len(messages)

Init ==
  /\ InitClient
  /\ agent = "prompt"
  /\ messages = << >>
  /\ tool_calls_this_turn = 0
  /\ turns = 0
  /\ answered = {}

Chat ==
  /\ agent = "prompt"
  /\ turns < MaxTurns
  /\ turns' = turns + 1
  /\ agent' = "asking"
  /\ messages' = Append(messages, UserText)
  /\ tool_calls_this_turn' = 0
  /\ Send
  /\ UNCHANGED answered

Quit ==
  /\ agent = "prompt"
  /\ agent' = "exited"
  /\ UNCHANGED <<clientVars, messages, tool_calls_this_turn, turns, answered>>

(* The turn is over and what was asked stays in the history unanswered:    *)
(* the request failed, or stopped for a reason that the loop does not know. *)
RequestFails ==
  /\ agent = "asking"
  /\ Answered
  /\ agent' = "prompt"
  /\ UNCHANGED <<messages, tool_calls_this_turn, turns, answered>>

NothingToDo(r) ==
  /\ r.stop_reason = "max_tokens" \/ (r.stop_reason = "tool_use" /\ r.tool_uses = 0)
  /\ agent' = "prompt"
  /\ UNCHANGED <<messages, tool_calls_this_turn, answered>>

(* All the blocks of the response are persisted, tool_use blocks included; *)
(* a response without blocks leaves no message.                            *)
TurnEnds(r) ==
  /\ r.stop_reason \in {"end_turn", "refusal"}
  /\ r.tool_uses > 0 => r.first # "not_an_object"
  /\ messages' = IF r.text \/ r.tool_uses > 0
                 THEN Append(messages, AssistantTurn(NextId..NextId + r.tool_uses - 1))
                 ELSE messages
  /\ agent' = "prompt"
  /\ UNCHANGED <<tool_calls_this_turn, answered>>

(* dict(block.input) raises outside of every try: the exception ends the   *)
(* session.                                                                *)
InputIsNotAnObject(r) ==
  /\ r.tool_uses > 0 /\ r.first = "not_an_object"
  /\ r.stop_reason \in {"end_turn", "refusal", "tool_use"}
  /\ agent' = "exited"
  /\ UNCHANGED <<messages, tool_calls_this_turn, answered>>

(* A mutant: only commands count against the cap. *)
RecoverableError_Free(r) ==
  /\ r.stop_reason = "tool_use" /\ r.tool_uses > 0
  /\ r.first \in {"wrong_name", "bad_command"}
  /\ messages' = Append(Append(messages, AssistantTurn({NextId})), ToolResult(NextId))
  /\ answered' = answered \cup {NextId}
  /\ agent' = "looping"
  /\ UNCHANGED tool_calls_this_turn

(* The count goes up, and the turn ends at the cap.                        *)
CountCall ==
  /\ tool_calls_this_turn' = tool_calls_this_turn + 1
  /\ agent' = IF tool_calls_this_turn' >= max_tool_calls_per_turn THEN "prompt" ELSE "looping"

(* The model is told what was wrong and may try again.                     *)
RecoverableError(r) ==
  /\ r.stop_reason = "tool_use" /\ r.tool_uses > 0
  /\ r.first \in {"wrong_name", "bad_command"}
  /\ messages' = Append(Append(messages, AssistantTurn({NextId})), ToolResult(NextId))
  /\ answered' = answered \cup {NextId}
  /\ CountCall

(* Only the first tool_use is persisted, and executed.                     *)
Dispatch(r) ==
  /\ r.stop_reason = "tool_use" /\ r.tool_uses > 0 /\ r.first = "command"
  /\ messages' = Append(messages, AssistantTurn({NextId}))
  /\ answered' = answered \cup {NextId}
  /\ agent' = "executing"
  /\ UNCHANGED tool_calls_this_turn

ModelAnswers ==
  /\ agent = "asking"
  /\ Answered
  /\ \E r \in Response :
       \/ NothingToDo(r) \/ TurnEnds(r) \/ InputIsNotAnObject(r)
       \/ RecoverableError(r) \/ Dispatch(r)
  /\ UNCHANGED turns

ExecuteReturns ==
  /\ agent = "executing"
  /\ messages' = Append(messages, ToolResult(CHOOSE id \in messages[Len(messages)].uses : TRUE))
  /\ CountCall
  /\ UNCHANGED <<clientVars, turns, answered>>

ExecuteRaises ==
  /\ agent = "executing"
  /\ agent' = "exited"
  /\ UNCHANGED <<clientVars, messages, tool_calls_this_turn, turns, answered>>

AskAgain ==
  /\ agent = "looping"
  /\ agent' = "asking"
  /\ Send
  /\ UNCHANGED <<messages, tool_calls_this_turn, turns, answered>>

ClientRuns == (TakeSlot \/ SleepForSlot \/ WakeUp) /\ UNCHANGED agentVars
TimePasses == Tick /\ UNCHANGED agentVars

Next ==
  \/ Chat \/ Quit \/ RequestFails \/ ModelAnswers \/ ExecuteReturns \/ ExecuteRaises
  \/ AskAgain \/ ClientRuns \/ TimePasses

Spec == Init /\ [][Next]_vars

(* The event loop resumes what is ready, time passes, and the SDK gives up *)
(* on a request that is not answered.  Nothing is assumed of the executor, *)
(* which may wait for the operator.                                        *)
Fairness ==
  /\ WF_vars(ClientRuns) /\ WF_vars(AskAgain) /\ WF_vars(TimePasses)
  /\ WF_vars(RequestFails \/ ModelAnswers)

FairSpec == Spec /\ Fairness
-----------------------------------------------------------------------------
TypeAgent ==
  /\ agent \in {"prompt", "asking", "looping", "executing", "exited"}
  /\ messages \in Seq(Message)
  /\ tool_calls_this_turn \in 0..max_tool_calls_per_turn
  /\ turns \in 0..MaxTurns
  /\ answered \subseteq Nat

TypeOK == TypeClient /\ TypeAgent

Answers(m, n) == n.answers # None /\ m.uses = {n.answers}

(* docs/ai-package.md: a request never has a tool_result without its       *)
(* tool_use in the message before it, never a tool_use that chat() took up *)
(* without its tool_result in the message after it, and its last message   *)
(* is the newest of the history, however it was trimmed.                   *)
RequestIsPairSafe ==
  agent = "asking" =>
    /\ \A i \in DOMAIN Request :
         /\ Request[i].answers # None => i > 1 /\ Answers(Request[i - 1], Request[i])
         /\ Request[i].uses \cap answered # {} =>
              i < Len(Request) /\ Answers(Request[i], Request[i + 1])
    /\ Request # << >> /\ Request[Len(Request)] = messages[Len(messages)]

(* The operator typed nothing since the i-th message.                      *)
NoLineSince(i) == \A j \in i..Len(messages) : messages[j] # UserText

(* A turn takes up at most max_tool_calls_per_turn tool calls of the       *)
(* model, those that it gets wrong included: between two lines of the      *)
(* operator the history grows by no more.                                  *)
TurnIsBounded ==
  \A i \in DOMAIN messages :
    NoLineSince(i) => Len(messages) - i + 1 <= 2 * max_tool_calls_per_turn

(***************************************************************************)
(* Why the two hold.  Ids grow with the history, so that what chat() took  *)
(* up is told apart from what it merely persisted; every result follows    *)
(* its call in the history, which leaves at most one message for the trim  *)
(* to drop; and the turn's messages are counted by its calls.              *)
(***************************************************************************)
Paired(history, taken, pending) ==
  /\ \A i \in DOMAIN history :
       /\ history[i].uses \subseteq {2 * i - 2, 2 * i - 1}
       /\ history[i].answers # None =>
            /\ history[i].role = "user" /\ history[i].uses = {}
            /\ i > 1 /\ Answers(history[i - 1], history[i])
       /\ history[i].uses \cap taken # {} =>
            \/ i < Len(history) /\ Answers(history[i], history[i + 1])
            \/ i = Len(history) /\ pending
  /\ taken \subseteq 0..2 * Len(history) - 1

PairedInv ==
  /\ Paired(messages, answered, agent \in {"executing", "exited"})
  /\ agent \in {"asking", "looping"} => messages # << >>
  /\ agent = "executing" =>
       messages # << >> /\ \E id \in answered : messages[Len(messages)] = AssistantTurn({id})

(* How many messages the turn in hand can have added since its last line.  *)
MessagesOfTurn ==
  CASE agent = "executing" -> 2 * tool_calls_this_turn + 1
    [] agent \in {"asking", "looping"} -> 2 * tool_calls_this_turn
    [] OTHER -> 2 * max_tool_calls_per_turn

CountInv ==
  /\ agent \notin {"prompt", "exited"} => tool_calls_this_turn < max_tool_calls_per_turn
  /\ \A i \in DOMAIN messages : NoLineSince(i) => Len(messages) - i + 1 <= MessagesOfTurn

IInv == TypeAgent /\ PairedInv /\ CountInv

(* A turn comes to its end, unless the executor waits for ever: no slot is *)
(* waited for in vain, no error is retried for ever.                       *)
TurnConcludes ==
  (agent = "asking") ~> (agent \in {"prompt", "executing", "exited"})
=============================================================================
