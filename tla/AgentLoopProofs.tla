--------------------------- MODULE AgentLoopProofs ---------------------------
(***************************************************************************)
(* The history of a conversation, for every window, cap and number of      *)
(* turns: IInv of AgentLoop is inductive, and a trimmed history is pair-   *)
(* safe because the history itself is.  At the end the rate limiter, for   *)
(* every window and maximum: RateInv of OpenRouterClient is inductive.     *)
(***************************************************************************)
EXTENDS AgentLoop, SequenceTheorems, FiniteSetTheorems, TLAPS

(* The trim drops at most one message more than the window asks for, and   *)
(* keeps the rest of the history as it is.                                 *)
LEMMA TrimmedIsASuffix ==
  ASSUME TypeAgent, PairedInv, messages # << >>
  PROVE  \E s \in 1..Len(messages) :
           /\ messages[s].answers = None
           /\ Request = SubSeq(messages, s, Len(messages))
<1> DEFINE n == Len(messages)
           k == n - max_history_messages + 1
           window == SubSeq(messages, k, n)
<1>1. messages \in Seq(Message) /\ n \in Nat /\ n > 0
  BY DEF TypeAgent
<1>2. messages[1].answers = None
  BY <1>1 DEF PairedInv, Paired
<1>3. CASE n <= max_history_messages
  <2>1. Request = messages
    BY <1>3 DEF Request, Trimmed
  <2>2. messages = SubSeq(messages, 1, n)
    BY <1>1
  <2> QED BY <1>1, <1>2, <2>1, <2>2
<1>4. CASE n > max_history_messages
  <2> DEFINE w == max_history_messages
             fits(i) == /\ \A j \in 1..i - 1 : IsToolResult(window[j])
                        /\ i <= Len(window) => ~IsToolResult(window[i])
             first == CHOOSE i \in 1..Len(window) + 1 : fits(i)
  <2>1. Request = SubSeq(window, first, Len(window))
    <3>1. ~ n <= max_history_messages
      BY <1>1, <1>4, HistoryHoldsAPair
    <3> QED BY <3>1, Zenon DEF Request, Trimmed
  <2>2. w \in Nat /\ w >= 2 /\ k \in 2..n - 1 /\ k + w - 1 = n
    BY <1>1, <1>4, HistoryHoldsAPair
  <2>3. Len(window) = w /\ \A j \in 1..w : window[j] = messages[k + j - 1]
    BY <1>1, <2>2
  <2>4. first = CHOOSE i \in 1..w + 1 : fits(i)
    BY <2>3
  <2>5. \A j \in 1..n : IsToolResult(messages[j]) <=> messages[j].answers # None
    BY <1>1 DEF IsToolResult, PairedInv, Paired
  <2> HIDE DEF k, n, first
  <2>6. messages[k].answers # None => messages[k + 1].answers = None
    <3>1. k \in DOMAIN messages /\ k + 1 \in DOMAIN messages /\ k + 1 - 1 = k
      BY <1>1, <2>2 DEF n
    <3>2. messages[k].answers # None => messages[k].uses = {}
      BY <3>1 DEF PairedInv, Paired
    <3>3. \A i \in DOMAIN messages :
            messages[i].answers # None => messages[i - 1].uses = {messages[i].answers}
      BY DEF PairedInv, Paired, Answers
    <3>4. messages[k + 1].answers # None => messages[k].uses = {messages[k + 1].answers}
      BY <3>1, <3>3
    <3> QED BY <3>2, <3>4
  <2>7. IsToolResult(window[1]) => ~IsToolResult(window[2])
    <3>1. window[1] = messages[k] /\ window[2] = messages[k + 1]
      BY <2>2, <2>3
    <3>2. k \in 1..n /\ k + 1 \in 1..n
      BY <1>1, <2>2
    <3> QED BY <2>5, <2>6, <3>1, <3>2
  <2>8. \A i \in 1..w + 1 : fits(i) => i \in {1, 2}
    <3> SUFFICES ASSUME NEW i \in 1..w + 1, fits(i), i > 2
                 PROVE  FALSE
      BY <2>2
    <3>1. 1 \in 1..i - 1 /\ 2 \in 1..i - 1
      OBVIOUS
    <3> QED BY <2>7, <3>1
  <2>9. fits(1) \/ fits(2)
    BY <2>2, <2>3, <2>7
  <2>10. first \in 1..w + 1 /\ fits(first)
    <3> HIDE DEF fits
    <3>1. \E i \in 1..w + 1 : fits(i)
      BY <2>2, <2>9
    <3> QED BY <2>4, <3>1
  <2>11. first \in {1, 2} /\ first <= w
    BY <2>2, <2>8, <2>10
  <2> DEFINE s == k + first - 1
  <2>12. s \in 1..n
    BY <1>1, <2>2, <2>11
  <2>13. messages[s].answers = None
    <3>1. ~IsToolResult(window[first])
      BY <2>3, <2>10, <2>11
    <3>2. window[first] = messages[s]
      BY <2>2, <2>3, <2>11
    <3> QED BY <2>5, <2>12, <3>1, <3>2
  <2>14. SubSeq(window, first, w) = SubSeq(messages, s, n)
    <3> DEFINE m == w - first + 1
    <3>1. m \in Nat /\ m = n - s + 1 /\ first \in 1..w /\ window \in Seq(Message)
      BY <1>1, <2>2, <2>11 DEF n, k
    <3>2. SubSeq(window, first, w) = [i \in 1..m |-> window[first + i - 1]]
      BY <3>1, <2>2, <2>3
    <3>3. SubSeq(messages, s, n) = [i \in 1..m |-> messages[s + i - 1]]
      BY <3>1, <1>1, <2>2, <2>12 DEF n
    <3>4. \A i \in 1..m : window[first + i - 1] = messages[s + i - 1]
      <4> TAKE i \in 1..m
      <4>1. first + i - 1 \in 1..w /\ k + (first + i - 1) - 1 = s + i - 1
        BY <3>1, <2>2
      <4> QED BY <2>3, <4>1
    <3> HIDE DEF m, s, window
    <3> QED BY <3>2, <3>3, <3>4
  <2> QED BY <2>1, <2>3, <2>12, <2>13, <2>14 DEF n
<1> QED BY <1>1, <1>3, <1>4, HistoryHoldsAPair

(* A history that is paired has no request that is not pair-safe.          *)
LEMMA PairedMeansPairSafe ==
  ASSUME TypeAgent, PairedInv
  PROVE  RequestIsPairSafe
<1> SUFFICES ASSUME agent = "asking"
             PROVE  /\ \A i \in DOMAIN Request :
                         /\ Request[i].answers # None =>
                              i > 1 /\ Answers(Request[i - 1], Request[i])
                         /\ Request[i].uses \cap answered # {} =>
                              i < Len(Request) /\ Answers(Request[i], Request[i + 1])
                    /\ Request # << >> /\ Request[Len(Request)] = messages[Len(messages)]
  BY DEF RequestIsPairSafe
<1> DEFINE n == Len(messages)
<1>1. messages \in Seq(Message) /\ messages # << >> /\ n \in Nat
  BY DEF TypeAgent, PairedInv, Paired
<1>2. PICK s \in 1..n : messages[s].answers = None /\ Request = SubSeq(messages, s, n)
  BY <1>1, TrimmedIsASuffix
<1> DEFINE r == n - s + 1
<1>3. Len(Request) = r /\ r \in 1..n /\ DOMAIN Request = 1..r
  BY <1>1, <1>2
<1>4. \A i \in 1..r : Request[i] = messages[s + i - 1] /\ s + i - 1 \in 1..n
  BY <1>1, <1>2
<1>5. ASSUME NEW i \in 1..r, Request[i].answers # None
      PROVE  i > 1 /\ Answers(Request[i - 1], Request[i])
  <2>1. i > 1
    BY <1>2, <1>4, <1>5
  <2>2. Answers(messages[s + i - 2], messages[s + i - 1])
    BY <1>1, <1>4, <1>5 DEF PairedInv, Paired
  <2>3. Request[i - 1] = messages[s + i - 2]
    BY <1>3, <1>4, <2>1
  <2> QED BY <1>4, <2>1, <2>2, <2>3
<1>6. ASSUME NEW i \in 1..r, Request[i].uses \cap answered # {}
      PROVE  i < r /\ Answers(Request[i], Request[i + 1])
  <2>1. s + i - 1 < n /\ Answers(messages[s + i - 1], messages[s + i])
    BY <1>1, <1>4, <1>6 DEF PairedInv, Paired
  <2>2. i < r /\ Request[i + 1] = messages[s + i]
    BY <1>3, <1>4, <2>1
  <2> QED BY <1>4, <2>1, <2>2
<1>7. Request # << >> /\ Request[Len(Request)] = messages[n]
  BY <1>3, <1>4
<1> QED BY <1>3, <1>5, <1>6, <1>7
-----------------------------------------------------------------------------
(* What a step appends is well formed.                                     *)
LEMMA MessageTypes ==
  /\ UserText \in Message
  /\ \A uses \in SUBSET Nat : AssistantTurn(uses) \in Message
  /\ \A id \in Nat : ToolResult(id) \in Message
BY DEF UserText, AssistantTurn, ToolResult, Message

LEMMA NextIdIsFresh ==
  ASSUME TypeAgent
  PROVE  /\ NextId \in Nat
         /\ \A r \in Response : NextId..NextId + r.tool_uses - 1 \in SUBSET {NextId, NextId + 1}
BY DEF TypeAgent, NextId, Response

(* The call that is executed is the one of the last message.               *)
LEMMA CallInHand ==
  ASSUME TypeAgent, PairedInv, agent = "executing"
  PROVE  /\ messages # << >>
         /\ \E id \in answered :
              /\ messages[Len(messages)] = AssistantTurn({id})
              /\ (CHOOSE c \in messages[Len(messages)].uses : TRUE) = id
<1>1. messages # << >> /\ \E id \in answered : messages[Len(messages)] = AssistantTurn({id})
  BY DEF PairedInv, Paired
<1>2. PICK id \in answered : messages[Len(messages)] = AssistantTurn({id})
  BY <1>1
<1>3. messages[Len(messages)].uses = {id}
  BY <1>2 DEF AssistantTurn
<1>4. (CHOOSE c \in messages[Len(messages)].uses : TRUE) = id
  BY <1>3
<1> QED BY <1>1, <1>2, <1>4

(* Every step keeps the types.                                             *)
LEMMA TypeStep ==
  ASSUME IInv, [Next]_vars
  PROVE  TypeAgent'
<1> USE TurnBounds
<1>0. TypeAgent /\ PairedInv /\ CountInv
  BY DEF IInv
<1>1. CASE Chat
  BY <1>0, <1>1, MessageTypes DEF Chat, TypeAgent
<1>2. CASE Quit
  BY <1>0, <1>2 DEF Quit, TypeAgent
<1>3. CASE RequestFails
  BY <1>0, <1>3 DEF RequestFails, TypeAgent
<1>4. CASE ModelAnswers
  <2>0. tool_calls_this_turn < max_tool_calls_per_turn /\ turns' = turns
    BY <1>0, <1>4 DEF ModelAnswers, CountInv
  <2>1. PICK r \in Response : \/ NothingToDo(r) \/ TurnEnds(r) \/ InputIsNotAnObject(r)
                             \/ RecoverableError(r) \/ Dispatch(r)
    BY <1>4 DEF ModelAnswers
  <2>2. CASE NothingToDo(r) \/ InputIsNotAnObject(r)
    BY <1>0, <2>0, <2>2 DEF NothingToDo, InputIsNotAnObject, TypeAgent
  <2>3. CASE TurnEnds(r)
    <3>1. AssistantTurn(NextId..NextId + r.tool_uses - 1) \in Message
      <4>1. NextId..NextId + r.tool_uses - 1 \in SUBSET Nat
        BY <1>0, NextIdIsFresh
      <4> QED BY <4>1, MessageTypes
    <3>2. messages' \in Seq(Message)
      BY <1>0, <2>3, <3>1 DEF TurnEnds, TypeAgent
    <3> QED BY <1>0, <2>0, <2>3, <3>2 DEF TurnEnds, TypeAgent
  <2>4. AssistantTurn({NextId}) \in Message /\ ToolResult(NextId) \in Message
    BY <1>0, NextIdIsFresh, MessageTypes
  <2>5. CASE RecoverableError(r)
    <3>1. messages' \in Seq(Message)
      BY <1>0, <2>4, <2>5 DEF RecoverableError, TypeAgent
    <3>2. answered' \subseteq Nat
      BY <1>0, <2>5, NextIdIsFresh DEF RecoverableError, TypeAgent
    <3> QED BY <1>0, <2>0, <2>5, <3>1, <3>2 DEF RecoverableError, CountCall, TypeAgent
  <2>6. CASE Dispatch(r)
    <3>1. messages' \in Seq(Message)
      BY <1>0, <2>4, <2>6 DEF Dispatch, TypeAgent
    <3>2. answered' \subseteq Nat
      BY <1>0, <2>6, NextIdIsFresh DEF Dispatch, TypeAgent
    <3> QED BY <1>0, <2>0, <2>6, <3>1, <3>2 DEF Dispatch, TypeAgent
  <2> QED BY <2>1, <2>2, <2>3, <2>5, <2>6
<1>5. CASE ExecuteReturns
  <2>1. ToolResult(CHOOSE id \in messages[Len(messages)].uses : TRUE) \in Message
    BY <1>0, <1>5, CallInHand, MessageTypes DEF ExecuteReturns, TypeAgent
  <2>2. tool_calls_this_turn < max_tool_calls_per_turn
    BY <1>0, <1>5 DEF ExecuteReturns, CountInv
  <2> QED BY <1>0, <1>5, <2>1, <2>2 DEF ExecuteReturns, CountCall, TypeAgent
<1>6. CASE ExecuteRaises
  BY <1>0, <1>6 DEF ExecuteRaises, TypeAgent
<1>7. CASE AskAgain
  BY <1>0, <1>7 DEF AskAgain, TypeAgent
<1>8. CASE ClientRuns \/ TimePasses \/ UNCHANGED vars
  BY <1>0, <1>8 DEF ClientRuns, TimePasses, vars, agentVars, TypeAgent
<1> QED BY <1>1, <1>2, <1>3, <1>4, <1>5, <1>6, <1>7, <1>8 DEF Next

(* A message that answers nothing keeps the history paired: a call that    *)
(* is taken up leaves the history waiting for its result.                  *)
LEMMA AppendCall ==
  ASSUME NEW h \in Seq(Message), NEW taken, Paired(h, taken, FALSE),
         NEW m, m.answers = None, m.uses \subseteq {2 * Len(h), 2 * Len(h) + 1},
         NEW more \in SUBSET {2 * Len(h)}, NEW pending \in BOOLEAN,
         m.uses \cap more # {} => pending
  PROVE  Paired(Append(h, m), taken \cup more, pending)
<1> DEFINE n == Len(h)
           g == Append(h, m)
           all == taken \cup more
<1>1. n \in Nat /\ Len(g) = n + 1 /\ DOMAIN g = 1..n + 1 /\ DOMAIN h = 1..n
  OBVIOUS
<1>2. g[n + 1] = m /\ \A i \in 1..n : g[i] = h[i]
  OBVIOUS
<1>3. taken \subseteq 0..2 * n - 1
  BY DEF Paired
<1>4. all \subseteq 0..2 * Len(g) - 1
  BY <1>1, <1>3
<1>5. \A i \in 1..n : h[i].uses \subseteq {2 * i - 2, 2 * i - 1}
  BY <1>1 DEF Paired
<1>6. \A i \in 1..n : h[i].uses \cap all = h[i].uses \cap taken
  BY <1>1, <1>5
<1>7. m.uses \cap all = m.uses \cap more
  BY <1>1, <1>3
<1> HIDE DEF n, g, all
<1>8. ASSUME NEW i \in 1..n + 1
      PROVE  /\ g[i].uses \subseteq {2 * i - 2, 2 * i - 1}
             /\ g[i].answers # None =>
                  /\ g[i].role = "user" /\ g[i].uses = {}
                  /\ i > 1 /\ Answers(g[i - 1], g[i])
             /\ g[i].uses \cap all # {} =>
                  \/ i < n + 1 /\ Answers(g[i], g[i + 1])
                  \/ i = n + 1 /\ pending
  <2>1. CASE i = n + 1
    BY <1>1, <1>2, <1>7, <2>1 DEF n
  <2>2. CASE i \in 1..n
    <3>1. g[i] = h[i] /\ g[i].uses \subseteq {2 * i - 2, 2 * i - 1}
      BY <1>2, <1>5, <2>2
    <3>2. g[i].answers # None =>
            /\ g[i].role = "user" /\ g[i].uses = {}
            /\ i > 1 /\ Answers(g[i - 1], g[i])
      <4>1. h[i].answers # None =>
              /\ h[i].role = "user" /\ h[i].uses = {}
              /\ i > 1 /\ Answers(h[i - 1], h[i])
        BY <1>1, <2>2 DEF Paired
      <4>2. i > 1 => g[i - 1] = h[i - 1]
        BY <1>1, <1>2, <2>2
      <4> QED BY <3>1, <4>1, <4>2
    <3>3. g[i].uses \cap all # {} => i < n + 1 /\ Answers(g[i], g[i + 1])
      <4>1. h[i].uses \cap taken # {} => i < n /\ Answers(h[i], h[i + 1])
        BY <1>1, <2>2 DEF Paired, n
      <4>2. i < n => g[i + 1] = h[i + 1]
        BY <1>1, <1>2, <2>2
      <4> QED BY <1>1, <1>6, <2>2, <3>1, <4>1, <4>2
    <3> QED BY <3>1, <3>2, <3>3
  <2> QED BY <1>1, <2>1, <2>2
<1> QED BY <1>1, <1>4, <1>8 DEF Paired, g, all

(* The result of the last call ends the wait.                              *)
LEMMA AppendResult ==
  ASSUME NEW h \in Seq(Message), NEW taken, Paired(h, taken, TRUE), h # << >>,
         NEW id \in Nat, h[Len(h)].uses = {id}
  PROVE  Paired(Append(h, ToolResult(id)), taken, FALSE)
<1> DEFINE n == Len(h)
           g == Append(h, ToolResult(id))
<1>1. n \in Nat /\ n > 0 /\ Len(g) = n + 1 /\ DOMAIN g = 1..n + 1 /\ DOMAIN h = 1..n
  OBVIOUS
<1>2. g[n + 1] = ToolResult(id) /\ \A i \in 1..n : g[i] = h[i]
  OBVIOUS
<1>3. taken \subseteq 0..2 * Len(g) - 1
  BY <1>1 DEF Paired
<1>4. h[n].uses = {id}
  OBVIOUS
<1>5. Answers(g[n], g[n + 1])
  <2> HIDE DEF g, n
  <2>1. g[n].uses = {id}
    BY <1>1, <1>2, <1>4
  <2>2. g[n + 1].answers = id
    BY <1>2 DEF ToolResult
  <2> QED BY <2>1, <2>2, NoneIsNoCall DEF Answers
<1> HIDE DEF n, g
<1>6. ASSUME NEW i \in 1..n + 1
      PROVE  /\ g[i].uses \subseteq {2 * i - 2, 2 * i - 1}
             /\ g[i].answers # None =>
                  /\ g[i].role = "user" /\ g[i].uses = {}
                  /\ i > 1 /\ Answers(g[i - 1], g[i])
             /\ g[i].uses \cap taken # {} => i < n + 1 /\ Answers(g[i], g[i + 1])
  <2>1. CASE i = n + 1
    <3>1. g[i].uses = {} /\ g[i].role = "user"
      BY <1>2, <2>1 DEF ToolResult
    <3>2. i > 1 /\ i - 1 = n
      BY <1>1, <2>1
    <3> QED BY <1>5, <2>1, <3>1, <3>2
  <2>2. CASE i \in 1..n
    <3>1. g[i] = h[i] /\ h[i].uses \subseteq {2 * i - 2, 2 * i - 1}
      BY <1>1, <1>2, <2>2 DEF Paired
    <3>2. g[i].answers # None =>
            /\ g[i].role = "user" /\ g[i].uses = {}
            /\ i > 1 /\ Answers(g[i - 1], g[i])
      <4>1. h[i].answers # None =>
              /\ h[i].role = "user" /\ h[i].uses = {}
              /\ i > 1 /\ Answers(h[i - 1], h[i])
        BY <1>1, <2>2 DEF Paired
      <4>2. i > 1 => g[i - 1] = h[i - 1]
        BY <1>1, <1>2, <2>2
      <4> QED BY <3>1, <4>1, <4>2
    <3>3. g[i].uses \cap taken # {} => i < n + 1 /\ Answers(g[i], g[i + 1])
      <4>1. h[i].uses \cap taken # {} => (i < n /\ Answers(h[i], h[i + 1])) \/ i = n
        BY <1>1, <2>2 DEF Paired, n
      <4>2. i < n => g[i + 1] = h[i + 1]
        BY <1>1, <1>2, <2>2
      <4> QED BY <1>1, <1>5, <2>2, <3>1, <4>1, <4>2
    <3> QED BY <3>1, <3>2, <3>3
  <2> QED BY <1>1, <2>1, <2>2
<1> QED BY <1>1, <1>3, <1>6 DEF Paired, g

(* Every step keeps the history paired.                                    *)
LEMMA PairedStep ==
  ASSUME IInv, [Next]_vars
  PROVE  PairedInv'
<1> DEFINE n == Len(messages)
<1>0. TypeAgent /\ PairedInv /\ CountInv
  BY DEF IInv
<1>a. messages \in Seq(Message) /\ n \in Nat /\ NextId = 2 * n /\ NextId \in Nat
  BY <1>0 DEF TypeAgent, NextId
<1>b. agent \in {"prompt", "asking", "looping"} => Paired(messages, answered, FALSE)
  BY <1>0 DEF PairedInv, Paired
<1>c. Paired(messages, answered, TRUE)
  BY <1>0 DEF PairedInv, Paired
<1>1. CASE Chat
  <2>1. Paired(Append(messages, UserText), answered \cup {}, FALSE)
    BY <1>a, <1>b, <1>1, AppendCall DEF Chat, UserText
  <2>2. messages' = Append(messages, UserText) /\ answered' = answered /\ agent' = "asking"
    BY <1>1 DEF Chat
  <2>3. messages' # << >>
    BY <1>a, <2>2
  <2> QED BY <2>1, <2>2, <2>3 DEF PairedInv, Paired
<1>2. CASE Quit
  BY <1>c, <1>2 DEF Quit, PairedInv
<1>3. CASE RequestFails
  <2>1. agent = "asking" /\ agent' = "prompt" /\ UNCHANGED <<messages, answered>>
    BY <1>3 DEF RequestFails
  <2> QED BY <1>b, <2>1 DEF PairedInv, Paired
<1>4. CASE ModelAnswers
  <2>0. agent = "asking"
    BY <1>4 DEF ModelAnswers
  <2>1. PICK r \in Response : \/ NothingToDo(r) \/ TurnEnds(r) \/ InputIsNotAnObject(r)
                             \/ RecoverableError(r) \/ Dispatch(r)
    BY <1>4 DEF ModelAnswers
  <2>2. CASE NothingToDo(r)
    <3>1. agent' = "prompt" /\ UNCHANGED <<messages, answered>>
      BY <2>2 DEF NothingToDo
    <3> QED BY <1>b, <2>0, <3>1 DEF PairedInv, Paired
  <2>3. CASE InputIsNotAnObject(r)
    <3>1. agent' = "exited" /\ UNCHANGED <<messages, answered>>
      BY <2>3 DEF InputIsNotAnObject
    <3> QED BY <1>c, <3>1 DEF PairedInv, Paired
  <2>4. CASE TurnEnds(r)
    <3> DEFINE m == AssistantTurn(NextId..NextId + r.tool_uses - 1)
    <3>1. agent' = "prompt" /\ answered' = answered
          /\ (messages' = messages \/ messages' = Append(messages, m))
      BY <2>4 DEF TurnEnds
    <3>2. m.answers = None /\ m.uses \subseteq {2 * n, 2 * n + 1}
      BY <1>0, <1>a, NextIdIsFresh DEF AssistantTurn
    <3>3. Paired(Append(messages, m), answered \cup {}, FALSE)
      <4> HIDE DEF m
      <4> QED BY <1>a, <1>b, <2>0, <3>2, AppendCall
    <3> HIDE DEF m
    <3>4. Paired(messages', answered', FALSE)
      BY <1>b, <2>0, <3>1, <3>3
    <3> QED BY <3>1, <3>4 DEF PairedInv, Paired
  <2> DEFINE call == AssistantTurn({NextId})
  <2>5. call.answers = None /\ call.uses = {2 * n} /\ call \in Message
    BY <1>a, MessageTypes DEF AssistantTurn
  <2>6. Paired(Append(messages, call), answered \cup {NextId}, TRUE)
    <3> HIDE DEF call
    <3> QED BY <1>a, <1>b, <2>0, <2>5, AppendCall
  <2>7. /\ Append(messages, call) \in Seq(Message) /\ Append(messages, call) # << >>
        /\ Append(messages, call)[Len(Append(messages, call))] = call
    <3> HIDE DEF call
    <3> QED BY <1>a, <2>5
  <2>8. CASE RecoverableError(r)
    <3>1. Paired(Append(Append(messages, call), ToolResult(NextId)), answered \cup {NextId}, FALSE)
      <4> DEFINE h == Append(messages, call)
                 taken == answered \cup {NextId}
      <4>1. h[Len(h)].uses = {NextId}
        BY <1>a, <2>5, <2>7
      <4> HIDE DEF h, taken
      <4>2. h \in Seq(Message) /\ h # << >> /\ Paired(h, taken, TRUE)
        BY <2>6, <2>7 DEF h, taken
      <4>3. Paired(Append(h, ToolResult(NextId)), taken, FALSE)
        BY <1>a, <4>1, <4>2, AppendResult
      <4> QED BY <4>3 DEF h, taken
    <3>2. /\ messages' = Append(Append(messages, call), ToolResult(NextId))
          /\ answered' = answered \cup {NextId}
          /\ agent' \in {"prompt", "looping"}
      BY <2>8 DEF RecoverableError, CountCall
    <3> HIDE DEF call
    <3>3. messages' # << >>
      BY <2>7, <3>2
    <3> QED BY <3>1, <3>2, <3>3 DEF PairedInv, Paired
  <2>9. CASE Dispatch(r)
    <3>1. messages' = Append(messages, call) /\ answered' = answered \cup {NextId}
          /\ agent' = "executing"
      BY <2>9 DEF Dispatch
    <3>2. \E id \in answered' : messages'[Len(messages')] = AssistantTurn({id})
      BY <2>7, <3>1
    <3>3. Paired(messages', answered', TRUE) /\ messages' # << >>
      BY <2>6, <2>7, <3>1
    <3> HIDE DEF call
    <3> QED BY <3>1, <3>2, <3>3 DEF PairedInv, Paired
  <2> QED BY <2>1, <2>2, <2>3, <2>4, <2>8, <2>9
<1>5. CASE ExecuteReturns
  <2>1. PICK id \in answered : /\ messages[n] = AssistantTurn({id})
                               /\ (CHOOSE c \in messages[n].uses : TRUE) = id
    BY <1>0, <1>5, CallInHand DEF ExecuteReturns
  <2>2. messages # << >> /\ id \in Nat /\ messages[n].uses = {id}
    BY <1>0, <1>5, <2>1, CallInHand DEF ExecuteReturns, TypeAgent, AssistantTurn
  <2>3. Paired(Append(messages, ToolResult(id)), answered, FALSE)
    BY <1>a, <1>c, <2>2, AppendResult
  <2>4. messages' = Append(messages, ToolResult(id)) /\ answered' = answered
        /\ agent' \in {"prompt", "looping"}
    BY <1>5, <2>1 DEF ExecuteReturns, CountCall
  <2>5. messages' # << >>
    BY <1>a, <2>4
  <2> QED BY <2>3, <2>4, <2>5 DEF PairedInv, Paired
<1>6. CASE ExecuteRaises
  BY <1>c, <1>6 DEF ExecuteRaises, PairedInv, Paired
<1>7. CASE AskAgain
  BY <1>0, <1>7 DEF AskAgain, PairedInv, Paired
<1>8. CASE ClientRuns \/ TimePasses \/ UNCHANGED vars
  <2>1. UNCHANGED <<agent, messages, answered>>
    BY <1>8 DEF ClientRuns, TimePasses, vars, agentVars
  <2> QED BY <1>0, <2>1 DEF PairedInv, Paired, Answers
<1> QED BY <1>1, <1>2, <1>3, <1>4, <1>5, <1>6, <1>7, <1>8 DEF Next

(* The count holds again when the history grows by what the count allows.  *)
LEMMA CountGrows ==
  ASSUME TypeAgent, CountInv, agent \in {"asking", "executing"},
         messages' \in Seq(Message),
         Len(messages) <= Len(messages'),
         \A i \in 1..Len(messages) : messages'[i] = messages[i],
         MessagesOfTurn' \in Nat,
         Len(messages') - Len(messages) + MessagesOfTurn <= MessagesOfTurn'
  PROVE  \A i \in DOMAIN messages' :
           NoLineSince(i)' => Len(messages') - i + 1 <= MessagesOfTurn'
<1> DEFINE n == Len(messages)
           p == Len(messages')
<1>1. messages \in Seq(Message) /\ n \in Nat /\ p \in Nat /\ n <= p /\ DOMAIN messages = 1..n
      /\ DOMAIN messages' = 1..p
  BY DEF TypeAgent
<1>2. MessagesOfTurn \in Nat
  BY TurnBounds DEF MessagesOfTurn, TypeAgent
<1> SUFFICES ASSUME NEW i \in 1..p, NoLineSince(i)'
             PROVE  p - i + 1 <= MessagesOfTurn'
  BY <1>1
<1>3. CASE i \in 1..n
  <2>1. NoLineSince(i)
    <3>1. \A j \in i..p : messages'[j] # UserText
      BY DEF NoLineSince, UserText
    <3>2. \A j \in i..n : j \in i..p /\ messages'[j] = messages[j]
      BY <1>1, <1>3
    <3> QED BY <3>1, <3>2 DEF NoLineSince
  <2>2. n - i + 1 <= MessagesOfTurn
    BY <1>1, <1>3, <2>1 DEF CountInv
  <2> QED BY <1>1, <1>2, <1>3, <2>2
<1>4. CASE i \notin 1..n
  BY <1>1, <1>2, <1>4
<1> QED BY <1>3, <1>4

(* Every step keeps the count.                                             *)
LEMMA CountStep ==
  ASSUME IInv, [Next]_vars
  PROVE  CountInv'
<1> DEFINE n == Len(messages)
           cap == max_tool_calls_per_turn
           count == tool_calls_this_turn
<1> USE TurnBounds
<1>0. TypeAgent /\ PairedInv /\ CountInv /\ TypeAgent'
  BY TypeStep DEF IInv
<1>a. messages \in Seq(Message) /\ n \in Nat /\ messages' \in Seq(Message)
      /\ count \in Nat /\ count' \in Nat /\ cap \in Nat
      /\ count <= cap /\ count' <= cap
  BY <1>0 DEF TypeAgent
<1>1. CASE Chat
  <2>1. messages' = Append(messages, UserText) /\ agent' = "asking" /\ count' = 0
    BY <1>1 DEF Chat
  <2>2. \A i \in DOMAIN messages' : ~ NoLineSince(i)'
    BY <1>a, <2>1 DEF NoLineSince, UserText
  <2> QED BY <1>a, <2>1, <2>2 DEF CountInv
<1>2. CASE UNCHANGED <<messages, tool_calls_this_turn>> /\ agent' \in {"prompt", "exited"}
  <2>1. MessagesOfTurn <= MessagesOfTurn' /\ MessagesOfTurn \in Nat /\ MessagesOfTurn' \in Nat
    <3>1. MessagesOfTurn' = 2 * cap
      BY <1>2 DEF MessagesOfTurn
    <3>2. MessagesOfTurn \in Nat /\ MessagesOfTurn <= 2 * cap
      BY <1>0, <1>a DEF MessagesOfTurn, CountInv
    <3> QED BY <1>a, <3>1, <3>2
  <2>2. \A i \in DOMAIN messages' : NoLineSince(i)' => Len(messages') - i + 1 <= MessagesOfTurn'
    <3> SUFFICES ASSUME NEW i \in DOMAIN messages, NoLineSince(i)
                 PROVE  Len(messages) - i + 1 <= MessagesOfTurn'
      BY <1>2 DEF NoLineSince, UserText
    <3>1. Len(messages) - i + 1 <= MessagesOfTurn /\ i \in Nat
      BY <1>0, <1>a DEF CountInv
    <3> QED BY <1>a, <2>1, <3>1
  <2> QED BY <1>2, <2>2 DEF CountInv
<1>3. CASE ModelAnswers
  <2>0. agent = "asking" /\ MessagesOfTurn = 2 * count /\ count < cap
    BY <1>0, <1>3 DEF ModelAnswers, MessagesOfTurn, CountInv
  <2>1. PICK r \in Response : \/ NothingToDo(r) \/ TurnEnds(r) \/ InputIsNotAnObject(r)
                             \/ RecoverableError(r) \/ Dispatch(r)
    BY <1>3 DEF ModelAnswers
  <2>2. CASE NothingToDo(r) \/ InputIsNotAnObject(r)
    BY <1>2, <2>2 DEF NothingToDo, InputIsNotAnObject
  <2> DEFINE grows == Len(messages) <= Len(messages')
                      /\ \A i \in 1..n : messages'[i] = messages[i]
  <2>3. CASE TurnEnds(r)
    <3> DEFINE m == AssistantTurn(NextId..NextId + r.tool_uses - 1)
    <3>1. agent' = "prompt" /\ (messages' = messages \/ messages' = Append(messages, m))
      BY <2>3 DEF TurnEnds
    <3> HIDE DEF m
    <3>2. grows /\ Len(messages') <= n + 1
      BY <1>a, <3>1
    <3>3. MessagesOfTurn' = 2 * cap
      BY <3>1 DEF MessagesOfTurn
    <3>4. MessagesOfTurn' \in Nat /\ Len(messages') - n + MessagesOfTurn <= MessagesOfTurn'
      BY <1>a, <2>0, <3>2, <3>3
    <3>5. \A i \in DOMAIN messages' : NoLineSince(i)' => Len(messages') - i + 1 <= MessagesOfTurn'
      BY <1>0, <1>a, <2>0, <3>2, <3>4, CountGrows
    <3> QED BY <3>1, <3>5 DEF CountInv
  <2>4. CASE RecoverableError(r)
    <3>1. /\ messages' = Append(Append(messages, AssistantTurn({NextId})), ToolResult(NextId))
          /\ count' = count + 1
          /\ agent' = IF count' >= cap THEN "prompt" ELSE "looping"
      BY <2>4 DEF RecoverableError, CountCall
    <3>2. grows /\ Len(messages') = n + 2
      BY <1>a, <3>1
    <3>3. MessagesOfTurn' = IF count' >= cap THEN 2 * cap ELSE 2 * count'
      BY <3>1 DEF MessagesOfTurn
    <3>4. MessagesOfTurn' \in Nat /\ Len(messages') - n + MessagesOfTurn <= MessagesOfTurn'
      BY <1>a, <2>0, <3>1, <3>2, <3>3
    <3>5. \A i \in DOMAIN messages' : NoLineSince(i)' => Len(messages') - i + 1 <= MessagesOfTurn'
      BY <1>0, <1>a, <2>0, <3>2, <3>4, CountGrows
    <3> QED BY <1>a, <3>1, <3>5 DEF CountInv
  <2>5. CASE Dispatch(r)
    <3>1. messages' = Append(messages, AssistantTurn({NextId})) /\ count' = count
          /\ agent' = "executing"
      BY <2>5 DEF Dispatch
    <3>2. grows /\ Len(messages') = n + 1
      BY <1>a, <3>1
    <3>3. MessagesOfTurn' = 2 * count + 1
      BY <3>1 DEF MessagesOfTurn
    <3>4. MessagesOfTurn' \in Nat /\ Len(messages') - n + MessagesOfTurn <= MessagesOfTurn'
      BY <1>a, <2>0, <3>2, <3>3
    <3>5. \A i \in DOMAIN messages' : NoLineSince(i)' => Len(messages') - i + 1 <= MessagesOfTurn'
      BY <1>0, <1>a, <2>0, <3>2, <3>4, CountGrows
    <3> QED BY <2>0, <3>1, <3>5 DEF CountInv
  <2> QED BY <2>1, <2>2, <2>3, <2>4, <2>5
<1>4. CASE ExecuteReturns
  <2>1. agent = "executing" /\ MessagesOfTurn = 2 * count + 1 /\ count < cap
    BY <1>0, <1>4 DEF ExecuteReturns, MessagesOfTurn, CountInv
  <2>2. PICK m : messages' = Append(messages, m)
    BY <1>4 DEF ExecuteReturns
  <2>3. count' = count + 1 /\ agent' = IF count' >= cap THEN "prompt" ELSE "looping"
    BY <1>4 DEF ExecuteReturns, CountCall
  <2>4. /\ Len(messages') = n + 1
        /\ \A i \in 1..n : messages'[i] = messages[i]
    BY <1>a, <2>2
  <2>5. MessagesOfTurn' = IF count' >= cap THEN 2 * cap ELSE 2 * count'
    BY <2>3 DEF MessagesOfTurn
  <2>6. MessagesOfTurn' \in Nat /\ Len(messages') - n + MessagesOfTurn <= MessagesOfTurn'
    BY <1>a, <2>1, <2>3, <2>4, <2>5
  <2>7. \A i \in DOMAIN messages' : NoLineSince(i)' => Len(messages') - i + 1 <= MessagesOfTurn'
    BY <1>0, <1>a, <2>1, <2>4, <2>6, CountGrows
  <2> QED BY <1>a, <2>3, <2>7 DEF CountInv
<1>5. CASE AskAgain
  <2>1. agent = "looping" /\ agent' = "asking" /\ UNCHANGED <<messages, tool_calls_this_turn>>
    BY <1>5 DEF AskAgain
  <2>2. MessagesOfTurn' = MessagesOfTurn
    BY <2>1 DEF MessagesOfTurn
  <2> QED BY <1>0, <2>1, <2>2 DEF CountInv, NoLineSince, UserText
<1>6. CASE ClientRuns \/ TimePasses \/ UNCHANGED vars
  <2>1. UNCHANGED <<agent, messages, tool_calls_this_turn>>
    BY <1>6 DEF ClientRuns, TimePasses, vars, agentVars
  <2>2. MessagesOfTurn' = MessagesOfTurn
    BY <2>1 DEF MessagesOfTurn
  <2> QED BY <1>0, <2>1, <2>2 DEF CountInv, NoLineSince, UserText
<1>7. Quit \/ RequestFails \/ ExecuteRaises =>
        UNCHANGED <<messages, tool_calls_this_turn>> /\ agent' \in {"prompt", "exited"}
  BY DEF Quit, RequestFails, ExecuteRaises
<1> QED BY <1>1, <1>2, <1>3, <1>4, <1>5, <1>6, <1>7 DEF Next

(* The three parts of the invariant together.                              *)
THEOREM HistoryInvariant == Spec => []IInv
<1>1. Init => IInv
  BY TurnBounds DEF Init, IInv, TypeAgent, PairedInv, Paired, CountInv
<1>2. IInv /\ [Next]_vars => IInv'
  BY TypeStep, PairedStep, CountStep DEF IInv
<1> QED BY <1>1, <1>2, PTL DEF Spec

(* For every window, cap and number of turns, a request that goes out has  *)
(* no result without its call, and no call taken up without its result.    *)
THEOREM RequestsArePairSafe == Spec => []RequestIsPairSafe
<1>1. IInv => RequestIsPairSafe
  BY PairedMeansPairSafe DEF IInv
<1> QED BY <1>1, HistoryInvariant, PTL

(* For every cap, a turn adds no more than its tool calls to the history.  *)
THEOREM TurnsAreBounded == Spec => []TurnIsBounded
<1>1. IInv => TurnIsBounded
  <2> SUFFICES ASSUME IInv, NEW i \in DOMAIN messages, NoLineSince(i)
               PROVE  Len(messages) - i + 1 <= 2 * max_tool_calls_per_turn
    BY DEF TurnIsBounded
  <2>1. MessagesOfTurn <= 2 * max_tool_calls_per_turn /\ MessagesOfTurn \in Nat
    BY TurnBounds DEF IInv, TypeAgent, CountInv, MessagesOfTurn
  <2>2. Len(messages) - i + 1 <= MessagesOfTurn /\ Len(messages) - i + 1 \in Int
    BY DEF IInv, TypeAgent, CountInv
  <2> QED BY <2>1, <2>2, TurnBounds
<1> QED BY <1>1, HistoryInvariant, PTL
-----------------------------------------------------------------------------
(* Every nonempty set of naturals has a least element.                     *)
LEMMA Smallest ==
  ASSUME NEW T \in SUBSET Nat, T # {}
  PROVE  \E x \in T : \A y \in T : x <= y
<1>1. IsWellFoundedOn(OpToRel(<, Nat), Nat)
  BY NatLessThanWellFounded
<1>2. PICK x \in T : \A y \in T : ~ (<<y, x>> \in OpToRel(<, Nat))
  BY <1>1, WFMin
<1>3. ASSUME NEW y \in T PROVE x <= y
  <2>1. ~ (<<y, x>> \in OpToRel(<, Nat))
    BY <1>2
  <2>2. ~ (y < x)
    BY <2>1 DEF OpToRel
  <2> QED BY <2>2
<1> QED BY <1>3

(* Covers, entry by entry.                                                 *)
LEMMA CoversByEntry ==
  ASSUME NEW slots \in Seq(Age), NEW all \in Seq(Age)
  PROVE  Covers(slots, all) <=>
           /\ Len(slots) <= Len(all)
           /\ \A i \in 1..Len(slots) : slots[i] = all[Len(all) - Len(slots) + i]
           /\ \A i \in 1..Len(all) - Len(slots) : all[i] > RATE_LIMIT_WINDOW_S
<1> DEFINE s == Len(slots)
           n == Len(all)
           d == n - s
           tail == SubSeq(all, d + 1, n)
<1>1. s \in Nat /\ n \in Nat
  BY LenProperties
<1>2. CASE s <= n
  <2>1. d \in Nat /\ d >= 0 /\ s = n - (d + 1) + 1
    BY <1>1, <1>2
  <2>2. tail \in Seq(Age) /\ Len(tail) = s /\ \A i \in 1..s : tail[i] = all[d + i]
    <3>1. \A i \in d + 1..n : i \in 1..n
      BY <1>1, <2>1
    <3>2. /\ tail \in Seq(Age)
          /\ Len(tail) = IF d + 1 <= n THEN n - (d + 1) + 1 ELSE 0
          /\ \A i \in 1..n - (d + 1) + 1 : tail[i] = all[d + 1 + i - 1]
      BY <1>1, <2>1, <3>1, SubSeqProperties
    <3>3. \A i \in 1..s : d + 1 + i - 1 = d + i
      BY <2>1
    <3> QED BY <1>1, <2>1, <3>2, <3>3
  <2>3. slots = tail <=> \A i \in 1..s : slots[i] = all[d + i]
    <3> HIDE DEF tail, d
    <3> QED BY <2>2, SeqEqual
  <2> QED BY <1>2, <2>1, <2>3 DEF Covers
<1>3. CASE ~ s <= n
  <2>1. ~ d >= 0
    BY <1>1, <1>3
  <2> QED BY <1>3, <2>1 DEF Covers
<1> QED BY <1>2, <1>3

(* The loop of popleft() stops at the first entry of the window, and       *)
(* leaves what comes after it.                                             *)
LEMMA KeptIsASuffix ==
  ASSUME TypeClient
  PROVE  \E first \in 1..Len(timestamps) + 1 :
           /\ \A j \in 1..first - 1 : ~InWindow(timestamps[j])
           /\ first <= Len(timestamps) => InWindow(timestamps[first])
           /\ Kept = SubSeq(timestamps, first, Len(timestamps))
<1> DEFINE n == Len(timestamps)
           fits(i) == /\ \A j \in 1..i - 1 : ~InWindow(timestamps[j])
                      /\ i <= n => InWindow(timestamps[i])
           T == {i \in 1..n + 1 : i <= n => InWindow(timestamps[i])}
<1>1. n \in Nat
  BY LenProperties DEF TypeClient
<1>2. n + 1 \in T /\ T \in SUBSET Nat
  BY <1>1
<1>3. PICK x \in T : \A y \in T : x <= y
  BY <1>2, Smallest
<1>4. fits(x)
  <2>1. ASSUME NEW j \in 1..x - 1 PROVE ~InWindow(timestamps[j])
    <3>1. j \in 1..n + 1 /\ j <= n /\ ~ x <= j
      BY <1>1, <1>3
    <3>2. j \notin T
      BY <1>3, <3>1
    <3> QED BY <3>1, <3>2
  <2> QED BY <1>3, <2>1
<1> DEFINE first == CHOOSE i \in 1..n + 1 : fits(i)
<1>5. first \in 1..n + 1 /\ fits(first)
  <2>1. \E i \in 1..n + 1 : fits(i)
    BY <1>3, <1>4
  <2> HIDE DEF fits, n
  <2> QED BY <2>1, Zenon
<1>6. Kept = SubSeq(timestamps, first, n)
  BY Zenon DEF Kept
<1> QED BY <1>5, <1>6

(* What is left are the latest requests still, and begins in the window.   *)
LEMMA KeptCovers ==
  ASSUME TypeClient, Covers(timestamps, requests)
  PROVE  /\ Kept \in Seq(Age)
         /\ Len(Kept) <= Len(timestamps)
         /\ Covers(Kept, requests)
         /\ Len(Kept) > 0 => InWindow(Kept[1])
         /\ Len(timestamps) > 0 /\ ~InWindow(timestamps[1]) => Len(Kept) < Len(timestamps)
<1> DEFINE t == Len(timestamps)
           n == Len(requests)
<1>1. timestamps \in Seq(Age) /\ requests \in Seq(Age) /\ t \in Nat /\ n \in Nat
  BY LenProperties DEF TypeClient
<1>2. PICK first \in 1..t + 1 :
        /\ \A j \in 1..first - 1 : ~InWindow(timestamps[j])
        /\ first <= t => InWindow(timestamps[first])
        /\ Kept = SubSeq(timestamps, first, t)
  BY KeptIsASuffix
<1> DEFINE k == Len(Kept)
<1>3. /\ Kept \in Seq(Age) /\ k = t - first + 1
      /\ \A i \in 1..k : Kept[i] = timestamps[first - 1 + i]
  <2>1. \A i \in first..t : i \in 1..t
    BY <1>1
  <2>2. /\ Kept \in Seq(Age)
        /\ k = IF first <= t THEN t - first + 1 ELSE 0
        /\ \A i \in 1..t - first + 1 : Kept[i] = timestamps[first + i - 1]
    BY <1>1, <1>2, <2>1, SubSeqProperties
  <2>3. \A i \in 1..t - first + 1 : first + i - 1 = first - 1 + i
    BY <1>1
  <2>4. k = t - first + 1
    BY <1>1, <2>2
  <2> QED BY <2>2, <2>3, <2>4
<1>4. k \in Nat /\ k <= t /\ t - k = first - 1
  BY <1>1, <1>3
<1>5. /\ t <= n
      /\ \A i \in 1..t : timestamps[i] = requests[n - t + i]
      /\ \A i \in 1..n - t : requests[i] > RATE_LIMIT_WINDOW_S
  BY <1>1, CoversByEntry
<1> HIDE DEF k
<1>6. \A i \in 1..k : Kept[i] = requests[n - k + i]
  <2> SUFFICES ASSUME NEW i \in 1..k
               PROVE  Kept[i] = requests[n - k + i]
    OBVIOUS
  <2>1. first - 1 + i \in 1..t /\ n - t + (first - 1 + i) = n - k + i
    BY <1>1, <1>3, <1>4
  <2> QED BY <1>3, <1>5, <2>1
<1>7. \A i \in 1..n - k : requests[i] > RATE_LIMIT_WINDOW_S
  <2> SUFFICES ASSUME NEW i \in 1..n - k
               PROVE  requests[i] > RATE_LIMIT_WINDOW_S
    OBVIOUS
  <2>1. CASE i \in 1..n - t
    BY <1>5, <2>1
  <2>2. CASE i \notin 1..n - t
    <3> DEFINE j == i - (n - t)
    <3>1. j \in 1..t /\ j \in 1..first - 1 /\ n - t + j = i
      BY <1>1, <1>4, <1>5, <2>2
    <3>2. ~InWindow(timestamps[j]) /\ timestamps[j] = requests[i]
      <4> HIDE DEF j
      <4> QED BY <1>2, <1>5, <3>1
    <3>3. requests[i] \in Int
      <4>1. i \in 1..n
        BY <1>1, <1>4
      <4>2. requests[i] \in Age
        BY <1>1, <4>1, ElementOfSeq
      <4> QED BY <4>2, LimitsArePositive DEF Age
    <3> QED BY <3>2, <3>3, LimitsArePositive DEF InWindow
  <2> QED BY <2>1, <2>2
<1>8. Covers(Kept, requests)
  <2>1. k <= n
    BY <1>1, <1>4, <1>5
  <2> QED BY <1>1, <1>3, <1>6, <1>7, <2>1, CoversByEntry DEF k
<1>9. k > 0 => InWindow(Kept[1])
  <2> HAVE k > 0
  <2>1. first <= t /\ 1 \in 1..k /\ first - 1 + 1 = first
    BY <1>1, <1>4
  <2>2. Kept[1] = timestamps[first]
    BY <1>3, <2>1
  <2> QED BY <1>2, <2>1, <2>2
<1>10. t > 0 /\ ~InWindow(timestamps[1]) => k < t
  <2> HAVE t > 0 /\ ~InWindow(timestamps[1])
  <2>1. first # 1
    BY <1>1, <1>2
  <2> QED BY <1>1, <1>4, <2>1
<1> QED BY <1>3, <1>4, <1>8, <1>9, <1>10 DEF k

(* A slot is taken by a request.                                           *)
LEMMA CoversAppend ==
  ASSUME NEW slots \in Seq(Age), NEW all \in Seq(Age), Covers(slots, all)
  PROVE  Covers(Append(slots, 0), Append(all, 0))
<1> DEFINE s == Len(slots)
           n == Len(all)
           slots1 == Append(slots, 0)
           all1 == Append(all, 0)
<1>1. s \in Nat /\ n \in Nat /\ 0 \in Age
  BY LenProperties, LimitsArePositive DEF Age
<1>2. /\ slots1 \in Seq(Age) /\ Len(slots1) = s + 1 /\ slots1[s + 1] = 0
      /\ all1 \in Seq(Age) /\ Len(all1) = n + 1 /\ all1[n + 1] = 0
      /\ \A i \in 1..s : slots1[i] = slots[i]
      /\ \A i \in 1..n : all1[i] = all[i]
  BY <1>1, AppendProperties
<1>3. /\ s <= n
      /\ \A i \in 1..s : slots[i] = all[n - s + i]
      /\ \A i \in 1..n - s : all[i] > RATE_LIMIT_WINDOW_S
  BY CoversByEntry
<1> HIDE DEF slots1, all1
<1>4. \A i \in 1..s + 1 : slots1[i] = all1[(n + 1) - (s + 1) + i]
  <2> SUFFICES ASSUME NEW i \in 1..s + 1
               PROVE  slots1[i] = all1[n - s + i]
    BY <1>1
  <2>1. CASE i = s + 1
    BY <1>1, <1>2, <2>1
  <2>2. CASE i # s + 1
    <3>1. i \in 1..s /\ n - s + i \in 1..n
      BY <1>1, <1>3, <2>2
    <3> QED BY <1>2, <1>3, <3>1
  <2> QED BY <2>1, <2>2
<1>5. \A i \in 1..(n + 1) - (s + 1) : all1[i] > RATE_LIMIT_WINDOW_S
  <2> SUFFICES ASSUME NEW i \in 1..n - s
               PROVE  all1[i] > RATE_LIMIT_WINDOW_S
    BY <1>1
  <2>1. i \in 1..n
    BY <1>1, <1>3
  <2> QED BY <1>2, <1>3, <2>1
<1>6. s + 1 <= n + 1
  BY <1>1, <1>3
<1>7. Covers(slots1, all1)
  <2>1. slots1 \in Seq(Age) /\ all1 \in Seq(Age) /\ Len(slots1) = s + 1 /\ Len(all1) = n + 1
    BY <1>2
  <2>2. /\ Len(slots1) <= Len(all1)
        /\ \A i \in 1..Len(slots1) : slots1[i] = all1[Len(all1) - Len(slots1) + i]
        /\ \A i \in 1..Len(all1) - Len(slots1) : all1[i] > RATE_LIMIT_WINDOW_S
    <3> HIDE DEF s, n
    <3> QED BY <1>4, <1>5, <1>6, <2>1
  <2> QED BY <2>1, <2>2, CoversByEntry
<1> QED BY <1>7 DEF slots1, all1

(* An age that grows stays an age, and does not come back into the window. *)
LEMMA OlderIsNoYounger ==
  ASSUME NEW age \in Age
  PROVE  /\ Older(age) \in Age
         /\ age > RATE_LIMIT_WINDOW_S => Older(age) > RATE_LIMIT_WINDOW_S
         /\ \A w \in Age : age + w > RATE_LIMIT_WINDOW_S =>
              Older(age) + (IF w = 0 THEN 0 ELSE w - 1) > RATE_LIMIT_WINDOW_S
BY LimitsArePositive DEF Age, Older

(* Time passes for all of them alike.                                      *)
LEMMA CoversOlder ==
  ASSUME NEW slots \in Seq(Age), NEW all \in Seq(Age), Covers(slots, all)
  PROVE  /\ AllOlder(slots) \in Seq(Age) /\ AllOlder(all) \in Seq(Age)
         /\ Len(AllOlder(slots)) = Len(slots)
         /\ Covers(AllOlder(slots), AllOlder(all))
<1> DEFINE s == Len(slots)
           n == Len(all)
           slots1 == AllOlder(slots)
           all1 == AllOlder(all)
<1>1. s \in Nat /\ n \in Nat /\ DOMAIN slots = 1..s /\ DOMAIN all = 1..n
  BY LenProperties
<1>2. \A i \in 1..s : slots[i] \in Age
  BY ElementOfSeq
<1>3. \A i \in 1..n : all[i] \in Age
  BY ElementOfSeq
<1>4. slots1 = [i \in 1..s |-> Older(slots[i])] /\ all1 = [i \in 1..n |-> Older(all[i])]
  BY <1>1 DEF AllOlder
<1>5. slots1 \in Seq(Age) /\ Len(slots1) = s
  <2>1. \A i \in 1..s : Older(slots[i]) \in Age
    BY <1>2, OlderIsNoYounger
  <2>2. slots1 \in [1..s -> Age]
    BY <1>4, <2>1
  <2>3. slots1 \in Seq(Age)
    BY <1>1, <2>2, IsASeq
  <2> QED BY <1>1, <2>2, <2>3, LenProperties
<1>6. all1 \in Seq(Age) /\ Len(all1) = n
  <2>1. \A i \in 1..n : Older(all[i]) \in Age
    BY <1>3, OlderIsNoYounger
  <2>2. all1 \in [1..n -> Age]
    BY <1>4, <2>1
  <2>3. all1 \in Seq(Age)
    BY <1>1, <2>2, IsASeq
  <2> QED BY <1>1, <2>2, <2>3, LenProperties
<1>7. /\ s <= n
      /\ \A i \in 1..s : slots[i] = all[n - s + i]
      /\ \A i \in 1..n - s : all[i] > RATE_LIMIT_WINDOW_S
  BY CoversByEntry
<1>8. \A i \in 1..s : slots1[i] = all1[n - s + i]
  <2> SUFFICES ASSUME NEW i \in 1..s
               PROVE  slots1[i] = all1[n - s + i]
    OBVIOUS
  <2>1. n - s + i \in 1..n
    BY <1>1, <1>7
  <2> QED BY <1>4, <1>7, <2>1
<1>9. \A i \in 1..n - s : all1[i] > RATE_LIMIT_WINDOW_S
  <2> SUFFICES ASSUME NEW i \in 1..n - s
               PROVE  all1[i] > RATE_LIMIT_WINDOW_S
    OBVIOUS
  <2>1. i \in 1..n
    BY <1>1, <1>7
  <2>2. all1[i] = Older(all[i]) /\ all[i] \in Age /\ all[i] > RATE_LIMIT_WINDOW_S
    BY <1>3, <1>4, <1>7, <2>1
  <2> QED BY <2>2, OlderIsNoYounger
<1> HIDE DEF slots1, all1
<1>10. Covers(slots1, all1)
  BY <1>5, <1>6, <1>7, <1>8, <1>9, CoversByEntry
<1> QED BY <1>5, <1>6, <1>10 DEF slots1, all1

(* Every step of the client and of the agent keeps the slots in order.     *)
LEMMA RateStep ==
  ASSUME RateInv, [Next]_vars
  PROVE  RateInv'
<1> DEFINE max == RATE_LIMIT_MAX_REQUESTS
           W == RATE_LIMIT_WINDOW_S
<1>0. TypeClient /\ Covers(timestamps, requests) /\ Len(timestamps) <= max
  BY DEF RateInv
<1>a. /\ client \in {"idle", "slot", "sleeping", "sending"}
      /\ timestamps \in Seq(Age) /\ requests \in Seq(Age) /\ wait_s \in Age
      /\ max \in Nat /\ max > 0 /\ W \in Nat /\ W > 0
  BY <1>0, LimitsArePositive DEF TypeClient
<1>1. CASE /\ UNCHANGED <<timestamps, requests, wait_s>>
           /\ client' \in {"idle", "slot", "sending"} \/ client' = client
  BY <1>1 DEF RateInv, TypeClient
<1>2. CASE TakeSlot
  <2>1. Kept \in Seq(Age) /\ Covers(Kept, requests) /\ Len(Kept) \in Nat
    BY <1>0, KeptCovers, LenProperties
  <2>2. /\ timestamps' = Append(Kept, 0) /\ requests' = Append(requests, 0)
        /\ client' = "sending" /\ wait_s' = wait_s /\ Len(Kept) < max
    BY <1>2 DEF TakeSlot
  <2>3. Covers(timestamps, requests)'
    BY <1>a, <2>1, <2>2, CoversAppend DEF Covers
  <2>4. timestamps' \in Seq(Age) /\ requests' \in Seq(Age) /\ Len(timestamps') <= max
    <3>1. 0 \in Age
      BY <1>a DEF Age
    <3>2. Len(timestamps') = Len(Kept) + 1 /\ timestamps' \in Seq(Age) /\ requests' \in Seq(Age)
      BY <1>a, <2>1, <2>2, <3>1, AppendProperties
    <3> QED BY <1>a, <2>1, <2>2, <3>2
  <2> QED BY <1>a, <2>2, <2>3, <2>4 DEF RateInv, TypeClient, Age
<1>3. CASE SleepForSlot
  <2>1. /\ Kept \in Seq(Age) /\ Covers(Kept, requests) /\ Len(Kept) \in Nat
        /\ Len(Kept) <= Len(timestamps) /\ Len(timestamps) \in Nat
    BY <1>0, <1>a, KeptCovers, LenProperties
  <2>2. /\ timestamps' = Kept /\ requests' = requests
        /\ client' = "sleeping" /\ wait_s' = W - Head(Kept) + 1 /\ Len(Kept) >= max
    BY <1>3 DEF SleepForSlot
  <2>3. Len(Kept) > 0
    BY <1>a, <2>1, <2>2
  <2>4. Head(Kept) = Kept[1] /\ Kept[1] \in Age /\ InWindow(Kept[1]) /\ Kept # << >>
    <3>1. Kept # << >> /\ 1 \in 1..Len(Kept)
      BY <2>1, <2>3
    <3> QED BY <1>0, <2>1, <2>3, <3>1, KeptCovers, HeadTailProperties, ElementOfSeq
  <2>5. wait_s' \in Age /\ Kept[1] + wait_s' > W
    BY <1>a, <2>2, <2>4 DEF Age, InWindow
  <2>6. Len(timestamps') <= max
    BY <1>0, <1>a, <2>1, <2>2
  <2>7. Covers(timestamps, requests)'
    BY <2>1, <2>2 DEF Covers
  <2> QED BY <1>a, <2>1, <2>2, <2>4, <2>5, <2>6, <2>7 DEF RateInv, TypeClient, Age
<1>4. CASE Tick
  <2>1. /\ timestamps' = AllOlder(timestamps) /\ requests' = AllOlder(requests)
        /\ wait_s' = IF wait_s = 0 THEN 0 ELSE wait_s - 1
        /\ client' = client
    BY <1>4 DEF Tick
  <2>2. /\ timestamps' \in Seq(Age) /\ requests' \in Seq(Age)
        /\ Len(timestamps') = Len(timestamps)
        /\ Covers(AllOlder(timestamps), AllOlder(requests))
    BY <1>0, <1>a, <2>1, CoversOlder
  <2>3. Covers(timestamps, requests)'
    BY <2>1, <2>2 DEF Covers
  <2>4. wait_s' \in Age
    BY <1>a, <2>1 DEF Age
  <2>5. client' = "sleeping" => timestamps' # << >> /\ timestamps'[1] + wait_s' > W
    <3> HAVE client' = "sleeping"
    <3>1. timestamps # << >> /\ timestamps[1] + wait_s > W
      BY <2>1 DEF RateInv
    <3>2. Len(timestamps) \in Nat /\ Len(timestamps) > 0 /\ DOMAIN timestamps = 1..Len(timestamps)
      BY <1>a, <3>1, LenProperties, EmptySeq
    <3>3. 1 \in 1..Len(timestamps)
      BY <3>2
    <3>4. timestamps[1] \in Age /\ timestamps'[1] = Older(timestamps[1])
      BY <1>a, <2>1, <3>2, <3>3, ElementOfSeq DEF AllOlder
    <3>5. timestamps'[1] + wait_s' > W
      BY <1>a, <2>1, <3>1, <3>4, OlderIsNoYounger
    <3>6. timestamps' # << >>
      BY <2>2, <3>2
    <3> QED BY <3>5, <3>6
  <2> QED BY <1>0, <1>a, <2>1, <2>2, <2>3, <2>4, <2>5 DEF RateInv, TypeClient, Age
<1>5. CASE WakeUp \/ Send \/ Answered
  BY <1>1, <1>5 DEF WakeUp, Send, Answered
<1>6. CASE UNCHANGED clientVars
  BY <1>1, <1>6 DEF clientVars
<1>7. \/ TakeSlot \/ SleepForSlot \/ Tick \/ WakeUp \/ Send \/ Answered
      \/ UNCHANGED clientVars
  BY DEF Next, vars, Chat, Quit, RequestFails, ModelAnswers, ExecuteReturns, ExecuteRaises,
         AskAgain, ClientRuns, TimePasses
<1> QED BY <1>2, <1>3, <1>4, <1>5, <1>6, <1>7

(* The slots are the latest requests, whatever the agent does with them.   *)
LEMMA RateInvariant == Spec => []RateInv
<1>1. Init => RateInv
  <2> SUFFICES ASSUME Init PROVE RateInv
    OBVIOUS
  <2>1. client = "idle" /\ timestamps = << >> /\ wait_s = 0 /\ requests = << >>
    BY DEF Init, InitClient
  <2>2. << >> \in Seq(Age) /\ Len(<< >>) = 0 /\ 0 \in Age
    BY LimitsArePositive DEF Age
  <2>3. Covers(<< >>, << >>)
    <3>1. SubSeq(<< >>, 0 + 1, 0) = << >>
      OBVIOUS
    <3> QED BY <2>2, <3>1 DEF Covers
  <2> QED BY <2>1, <2>2, <2>3, LimitsArePositive DEF RateInv, TypeClient
<1>2. RateInv /\ [Next]_vars => RateInv'
  BY RateStep
<1> QED BY <1>1, <1>2, PTL DEF Spec

(* llm_client.py:140: for every window and every number of slots, no more  *)
(* requests than slots were made within a window that ends now.            *)
THEOREM RateLimitHolds == Spec => []WithinRateLimit
<1>1. RateInv => WithinRateLimit
  <2> SUFFICES ASSUME RateInv PROVE WithinRateLimit
    OBVIOUS
  <2> DEFINE t == Len(timestamps)
             n == Len(requests)
  <2>1. timestamps \in Seq(Age) /\ requests \in Seq(Age) /\ t \in Nat /\ n \in Nat
        /\ DOMAIN requests = 1..n
    BY LenProperties DEF RateInv, TypeClient
  <2>2. t <= n /\ \A i \in 1..n - t : requests[i] > RATE_LIMIT_WINDOW_S
    BY <2>1, CoversByEntry DEF RateInv
  <2>3. \A i \in 1..n : requests[i] \in Int
    <3> SUFFICES ASSUME NEW i \in 1..n PROVE requests[i] \in Int
      OBVIOUS
    <3>1. requests[i] \in Age
      BY <2>1, ElementOfSeq
    <3> QED BY <3>1, LimitsArePositive DEF Age
  <2>4. Recent \in SUBSET (n - t + 1..n)
    <3> SUFFICES ASSUME NEW i \in 1..n, requests[i] <= RATE_LIMIT_WINDOW_S
                 PROVE  i \in n - t + 1..n
      BY <2>1 DEF Recent
    <3>1. i \notin 1..n - t
      BY <2>2, <2>3, LimitsArePositive
    <3> QED BY <2>1, <2>2, <3>1
  <2>5. IsFiniteSet(n - t + 1..n) /\ Cardinality(n - t + 1..n) = t
    <3>1. n - t + 1 \in Int /\ n \in Int
      BY <2>1
    <3>2. /\ IsFiniteSet(n - t + 1..n)
          /\ Cardinality(n - t + 1..n) = IF n - t + 1 > n THEN 0 ELSE n - (n - t + 1) + 1
      BY <3>1, FS_Interval
    <3> QED BY <2>1, <3>2
  <2>6. Cardinality(Recent) <= t /\ Cardinality(Recent) \in Nat
    BY <2>4, <2>5, FS_Subset, FS_CardinalityType
  <2> QED BY <2>1, <2>6, LimitsArePositive DEF RateInv, WithinRateLimit
<1> QED BY <1>1, RateInvariant, PTL

(* llm_client.py:152: a sleep is never cut so short that it must be slept  *)
(* again: the oldest entry is out of the window by the time it ends.       *)
THEOREM SleepsOnce == Spec => OneSleepIsEnough
<1>1. RateInv => [WakeUp => Len(Kept) < RATE_LIMIT_MAX_REQUESTS]_clientVars
  <2> SUFFICES ASSUME RateInv, WakeUp
               PROVE  Len(Kept) < RATE_LIMIT_MAX_REQUESTS
    OBVIOUS
  <2>1. client = "sleeping" /\ wait_s = 0
    BY DEF WakeUp
  <2>2. timestamps \in Seq(Age) /\ timestamps # << >> /\ timestamps[1] + 0 > RATE_LIMIT_WINDOW_S
    BY <2>1 DEF RateInv, TypeClient
  <2>3. Len(timestamps) \in Nat /\ Len(timestamps) > 0 /\ 1 \in 1..Len(timestamps)
    BY <2>2, LenProperties, EmptySeq
  <2>4. timestamps[1] \in Age
    BY <2>2, <2>3, ElementOfSeq
  <2>5. ~InWindow(timestamps[1])
    BY <2>2, <2>4, LimitsArePositive DEF InWindow, Age
  <2>6. Len(Kept) < Len(timestamps) /\ Kept \in Seq(Age)
    BY <2>3, <2>5, KeptCovers DEF RateInv
  <2>7. Len(Kept) \in Nat
    BY <2>6, LenProperties
  <2> QED BY <2>3, <2>6, <2>7, LimitsArePositive DEF RateInv
<1> QED BY <1>1, RateInvariant, PTL DEF Spec, OneSleepIsEnough
=============================================================================
