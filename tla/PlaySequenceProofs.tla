------------------------- MODULE PlaySequenceProofs -------------------------
(***************************************************************************)
(* A session with play_sequence is a session of single commands, for every *)
(* set of sequences and every cap, so that what is proved of the latter    *)
(* holds of the former.                                                    *)
(***************************************************************************)
EXTENDS PlaySequence, ChatSessionProofs

InFunnel == {"listing", "assessing", "approval", "offline", "radio"}

LEMMA OneCallMore ==
  ASSUME NEW m \in Nat, NEW t \in Nat, NEW c \in Nat, t < c
  PROVE  m * t + m <= m * c
<1>1. PICK d \in Nat : c = t + 1 + d
  <2>1. c - t - 1 \in Nat /\ c = t + 1 + (c - t - 1)
    OBVIOUS
  <2> QED
    BY <2>1
<1>2. m * c = m * t + m + m * d
  BY <1>1
<1>3. m * d \in Nat
  OBVIOUS
<1> QED
  BY <1>2, <1>3

LEMMA SuccessesAreBoolean == Successes \subseteq BOOLEAN
  BY Zenon DEF Successes

(* The commands that a running sequence has still to send fit under the    *)
(* cap of its call.                                                        *)
LEMMA RunningFits ==
  ASSUME SequenceInv, plan # None
  PROVE  /\ tool_calls - 1 \in Nat
         /\ MAX_STEPS * (tool_calls - 1) + MAX_STEPS = MAX_STEPS * tool_calls
         /\ MAX_STEPS * tool_calls <= max_commands_per_turn
         /\ plan.steps \in Seq(Commands \cup {UnknownAction})
         /\ Len(plan.steps) <= MAX_STEPS
<1>1. RunningInv /\ tool_calls \in Nat /\ tool_calls <= max_tool_calls_per_turn
      /\ MAX_STEPS \in Nat /\ max_tool_calls_per_turn \in Nat
  BY CapsAgree DEF SequenceInv
<1>2. tool_calls - 1 \in Nat /\ (tool_calls - 1) + 1 = tool_calls
  BY <1>1 DEF RunningInv
<1>3. MAX_STEPS * (tool_calls - 1) + MAX_STEPS = MAX_STEPS * tool_calls
  BY <1>1, <1>2
<1>4. MAX_STEPS * tool_calls <= MAX_STEPS * max_tool_calls_per_turn
  <2>1. CASE tool_calls = max_tool_calls_per_turn
    BY <1>1, <2>1
  <2>2. CASE tool_calls < max_tool_calls_per_turn
    BY <1>1, <2>2, OneCallMore
  <2> QED
    BY <1>1, <2>1, <2>2
<1>5. plan.steps \in Seq(Commands \cup {UnknownAction}) /\ Len(plan.steps) <= MAX_STEPS
  BY <1>1, PlansArePlans DEF RunningInv, Validates
<1> QED
  BY <1>2, <1>3, <1>4, <1>5, CapsAgree

(* A step that the sequence sends is a command that the session may still  *)
(* submit by itself.                                                       *)
LEMMA SendingIsSubmitting ==
  ASSUME SequenceInv, SendStep
  PROVE  Submit
<1>1. plan # None /\ pc = "thinking" /\ StepsLeft /\ NextStep # UnknownAction /\ Receive(NextStep)
  BY DEF SendStep, BetweenSteps
<1>2. Len(results) \in Nat /\ Len(results) < Len(plan.steps)
  BY <1>1 DEF SequenceInv, StepsLeft
<1>3. NextStep \in Commands
  BY <1>1, <1>2, RunningFits DEF NextStep
<1>4. calls <= MAX_STEPS * (tool_calls - 1) + Len(results)
  BY <1>1, <1>2 DEF SequenceInv, RunningInv
<1>5. calls < max_commands_per_turn
  <2>1. MAX_STEPS * (tool_calls - 1) \in Nat /\ MAX_STEPS * tool_calls \in Nat
        /\ max_commands_per_turn \in Nat
    BY <1>1, RunningFits, CapsAgree, TurnBounds DEF SequenceInv
  <2>2. calls \in Nat
    BY DEF SequenceInv
  <2> QED
    BY <1>1, <1>2, <1>4, <2>1, <2>2, RunningFits, CapsAgree
<1> QED
  BY <1>1, <1>3, <1>5, Zenon DEF Submit, SendStep

LEMMA SequenceStepIsSingle ==
  ASSUME SequenceInv, [NextSequence]_allVars
  PROVE  [Next]_vars
<1>1. CASE NewTurn /\ tool_calls' = 0 /\ UNCHANGED sequenceVars
  BY <1>1 DEF Next
<1>2. CASE SingleCommand
  BY <1>2 DEF SingleCommand, Next
<1>3. CASE \E p \in Plans : PlaySequence(p)
  BY <1>3 DEF PlaySequence
<1>4. CASE SendStep
  BY <1>4, SendingIsSubmitting DEF Next
<1>5. CASE SkipUnknown \/ ReportSequence
  BY <1>5 DEF SkipUnknown, ReportSequence
<1>6. CASE Alone(Funnel) \/ Alone(KillTask) \/ Alone(TurnCancelled) \/ Alone(Terminate)
  BY <1>6 DEF Alone, Next
<1>7. CASE Alone(Others)
  BY <1>7 DEF Alone, Others, Next
<1>8. CASE UNCHANGED allVars
  BY <1>8 DEF allVars, vars
<1> QED
  BY <1>1, <1>2, <1>3, <1>4, <1>5, <1>6, <1>7, <1>8, Zenon DEF NextSequence, SequenceSteps

(* A command that is under way stays so, ends, or ends the session.        *)
LEMMA UnderWayMoves ==
  ASSUME pc \in InFunnel,
         Funnel \/ KillTask \/ TurnCancelled \/ Terminate \/ Others
  PROVE  pc' \in InFunnel \cup {"thinking", "exited"}
<1> USE DEF InFunnel
<1>1. CASE Funnel
  BY <1>1 DEF Funnel, ListActive, Refuse, AskOperator, Proceed, Dispatch, DispatchFails,
              DispatchOffline, DispatchRadio, Leave, Result, OfflineDone, OfflineEscapes,
              TransferEscapes, Escapes, TxReturns, RxKilled, NextSweep, RxReturns, DeviceRuns,
              CoroutineRuns, TransferFails, execVars
<1>2. CASE KillTask
  BY <1>2 DEF KillTask, execVars
<1>3. CASE TurnCancelled \/ Terminate
  BY <1>3 DEF TurnCancelled, Terminate
<1>4. CASE OperatorAnswers
  BY <1>4 DEF OperatorAnswers, Approve, Deny, Dispatch, DispatchFails, DispatchOffline,
              DispatchRadio, Leave
<1>5. CASE CtrlC \/ DoubleCtrlC
  BY <1>5 DEF CtrlC, DoubleCtrlC, execVars
<1>6. CASE EndTurn \/ Quit \/ DeviceRunsOn \/ OperatorPressesEnter \/ OtherTerminal
           \/ TimePasses \/ Ended
  BY <1>6 DEF EndTurn, Quit, DeviceRunsOn, OperatorPressesEnter, OtherTerminal, TimePasses,
              Ended, execVars
<1> QED
  BY <1>1, <1>2, <1>3, <1>4, <1>5, <1>6 DEF Others

LEMMA OthersCountNothing ==
  ASSUME Funnel \/ KillTask \/ TurnCancelled \/ Terminate \/ Others
  PROVE  calls' = calls
<1>1. CASE Funnel \/ KillTask \/ TurnCancelled \/ Terminate
  BY <1>1 DEF Funnel, KillTask, TurnCancelled, Terminate, replVars
<1>2. CASE Others
  BY <1>2 DEF Others, EndTurn, Quit, OperatorAnswers, CtrlC, DoubleCtrlC, DeviceRunsOn,
              OperatorPressesEnter, OtherTerminal, TimePasses, Ended, vars, replVars
<1> QED
  BY <1>1, <1>2

LEMMA AloneStep ==
  ASSUME SequenceInv, ~BetweenSteps, KeepResults, tool_calls' = tool_calls,
         Funnel \/ KillTask \/ TurnCancelled \/ Terminate \/ Others
  PROVE  SequenceInv'
<1>1. calls' = calls
  BY OthersCountNothing
<1>2. CASE plan = None
  <2>1. plan' = None /\ (results' = results \/ results' = << >>)
    BY <1>2 DEF KeepResults, sequenceVars
  <2>2. results' \in Seq(BOOLEAN)
    <3>1. results \in Seq(BOOLEAN)
      BY DEF SequenceInv
    <3>2. << >> \in Seq(BOOLEAN)
      OBVIOUS
    <3> QED
      BY <2>1, <3>1, <3>2, Zenon
  <2> QED
    BY <1>1, <1>2, <2>1, <2>2 DEF SequenceInv
<1>3. CASE plan # None
  <2>1. pc \in InFunnel /\ pc' \in InFunnel \cup {"thinking", "exited"}
    BY <1>3, UnderWayMoves DEF SequenceInv, RunningInv, BetweenSteps, InFunnel
  <2>2. /\ Len(results) + 1 <= Len(plan.steps)
        /\ calls <= MAX_STEPS * (tool_calls - 1) + (Len(results) + 1)
    BY <1>3, <2>1 DEF SequenceInv, RunningInv, InFunnel
  <2>3. CASE pc' = "thinking"
    <3>1. plan' = plan /\ \E ok \in BOOLEAN : results' = Append(results, ok)
      BY <1>3, <2>1, <2>3, SuccessesAreBoolean DEF KeepResults, InFunnel
    <3>2. results' \in Seq(BOOLEAN) /\ Len(results') = Len(results) + 1
      BY <3>1 DEF SequenceInv
    <3> QED
      BY <1>1, <1>3, <2>2, <2>3, <3>1, <3>2 DEF SequenceInv, RunningInv, Validates
  <2>4. CASE pc' = "exited"
    <3>1. plan' = None /\ results' = << >>
      BY <1>3, <2>4 DEF KeepResults
    <3>2. calls <= MAX_STEPS * tool_calls
      <4>1. /\ calls \in Nat /\ Len(results) \in Nat /\ MAX_STEPS \in Nat
            /\ MAX_STEPS * (tool_calls - 1) \in Nat /\ Len(plan.steps) \in Nat
        BY <1>3, RunningFits, CapsAgree DEF SequenceInv
      <4> QED
        BY <1>3, <2>2, <4>1, RunningFits
    <3>3. results' \in Seq(BOOLEAN)
      BY <3>1
    <3> QED
      BY <1>1, <3>1, <3>2, <3>3 DEF SequenceInv
  <2>5. CASE pc' \in InFunnel
    <3>1. plan' = plan /\ results' = results
      BY <1>3, <2>5 DEF KeepResults, InFunnel, sequenceVars
    <3> QED
      BY <1>1, <1>3, <2>2, <2>5, <3>1 DEF SequenceInv, RunningInv, Validates, InFunnel
  <2> QED
    BY <2>1, <2>3, <2>4, <2>5
<1> QED
  BY <1>2, <1>3

LEMMA SequenceInvStep ==
  ASSUME SequenceInv, [NextSequence]_allVars
  PROVE  SequenceInv'
<1>0. /\ MAX_STEPS \in Nat \ {0} /\ max_tool_calls_per_turn \in Nat
      /\ tool_calls \in Nat /\ calls \in Nat /\ results \in Seq(BOOLEAN)
      /\ MAX_STEPS * tool_calls \in Nat
      /\ MAX_STEPS * (tool_calls + 1) = MAX_STEPS * tool_calls + MAX_STEPS
  <2>1. MAX_STEPS \in Nat \ {0} /\ tool_calls \in Nat
    BY CapsAgree DEF SequenceInv
  <2> QED
    BY <2>1, CapsAgree DEF SequenceInv
<1>1. CASE NewTurn /\ tool_calls' = 0 /\ UNCHANGED sequenceVars
  <2>1. plan = None
    BY <1>1 DEF NewTurn, SequenceInv, RunningInv
  <2> QED
    BY <1>0, <1>1, <2>1 DEF NewTurn, SequenceInv, sequenceVars
<1>2. CASE SingleCommand
  <2>1. plan = None /\ calls' = calls + 1 /\ tool_calls' = tool_calls + 1
        /\ tool_calls < max_tool_calls_per_turn /\ UNCHANGED sequenceVars
    BY <1>2 DEF SingleCommand, Submit
  <2> QED
    BY <1>0, <2>1 DEF SequenceInv, sequenceVars
<1>3. ASSUME NEW p \in Plans, PlaySequence(p)
      PROVE  SequenceInv'
  <2>1. /\ plan = None /\ pc = "thinking" /\ pc' = pc /\ calls' = calls
        /\ tool_calls' = tool_calls + 1 /\ tool_calls < max_tool_calls_per_turn
    BY <1>3 DEF PlaySequence, vars
  <2>2. CASE Validates(p)
    <3>1. plan' = p /\ results' = << >>
      BY <1>3, <2>2 DEF PlaySequence
    <3>2. Len(p.steps) \in Nat /\ 0 <= Len(p.steps)
      BY <2>2 DEF Validates
    <3>3. calls <= MAX_STEPS * tool_calls /\ (tool_calls + 1) - 1 = tool_calls
      BY <1>0, <2>1 DEF SequenceInv
    <3>4. Validates(p)' /\ results' \in Seq(BOOLEAN) /\ Len(results') = 0
      BY <2>2, <3>1 DEF Validates
    <3>5. RunningInv'
      BY <1>0, <2>1, <2>2, <3>1, <3>2, <3>3, <3>4 DEF RunningInv, Validates
    <3>6. MAX_STEPS * tool_calls <= MAX_STEPS * tool_calls'
      BY <1>0, <2>1
    <3> QED
      BY <1>0, <2>1, <3>1, <3>3, <3>4, <3>5, <3>6 DEF SequenceInv
  <2>3. CASE ~Validates(p)
    BY <1>0, <1>3, <2>1, <2>3 DEF PlaySequence, SequenceInv, sequenceVars
  <2> QED
    BY <2>2, <2>3
<1>4. CASE SendStep
  <2>1. /\ plan # None /\ pc = "thinking" /\ pc' = "listing" /\ calls' = calls + 1
        /\ UNCHANGED <<plan, results, tool_calls>>
    BY <1>4 DEF SendStep, BetweenSteps, Receive, sequenceVars
  <2>2. Len(results) < Len(plan.steps) /\ Len(results) \in Nat /\ Len(plan.steps) \in Nat
    BY <1>0, <1>4, <2>1, RunningFits DEF SendStep, StepsLeft
  <2>3. calls <= MAX_STEPS * (tool_calls - 1) + Len(results)
        /\ MAX_STEPS * (tool_calls - 1) \in Nat
    <3>1. calls <= MAX_STEPS * (tool_calls - 1) + (Len(results) + 0)
      BY <2>1 DEF SequenceInv, RunningInv
    <3> QED
      BY <1>0, <2>1, <2>2, <3>1, RunningFits
  <2>4. /\ Len(results) + 1 <= Len(plan.steps)
        /\ calls + 1 <= MAX_STEPS * (tool_calls - 1) + (Len(results) + 1)
    BY <1>0, <2>2, <2>3
  <2>5. RunningInv'
    BY <2>1, <2>4 DEF SequenceInv, RunningInv, Validates
  <2> QED
    BY <1>0, <2>1, <2>5 DEF SequenceInv
<1>5. CASE SkipUnknown
  <2>1. /\ plan # None /\ pc = "thinking" /\ results' = Append(results, FALSE)
        /\ UNCHANGED <<plan, pc, calls, tool_calls>>
    BY <1>5 DEF SkipUnknown, BetweenSteps, vars
  <2>2. results' \in Seq(BOOLEAN) /\ Len(results') = Len(results) + 1 /\ Len(results) \in Nat
    BY <1>0, <2>1
  <2>3. Len(results) + 1 <= Len(plan.steps)
    <3>1. Len(results) < Len(plan.steps) /\ Len(plan.steps) \in Nat
      BY <1>5, <2>1, RunningFits DEF SkipUnknown, StepsLeft
    <3> QED
      BY <2>2, <3>1
  <2>4. calls <= MAX_STEPS * (tool_calls - 1) + (Len(results) + 1)
    <3>1. calls <= MAX_STEPS * (tool_calls - 1) + (Len(results) + 0)
          /\ MAX_STEPS * (tool_calls - 1) \in Nat
      BY <1>0, <2>1, RunningFits DEF SequenceInv, RunningInv
    <3> QED
      BY <1>0, <2>2, <3>1
  <2>5. RunningInv'
    BY <2>1, <2>2, <2>3, <2>4 DEF SequenceInv, RunningInv, Validates
  <2> QED
    BY <1>0, <2>1, <2>2, <2>5 DEF SequenceInv
<1>6. CASE ReportSequence
  <2>1. /\ plan # None /\ pc = "thinking" /\ plan' = None /\ results' = << >>
        /\ UNCHANGED <<calls, tool_calls>>
    BY <1>6 DEF ReportSequence, BetweenSteps, vars
  <2>2. results' \in Seq(BOOLEAN)
    BY <2>1
  <2>3. calls <= MAX_STEPS * tool_calls
    <3>1. /\ Len(results) + 0 <= Len(plan.steps)
          /\ calls <= MAX_STEPS * (tool_calls - 1) + (Len(results) + 0)
      BY <2>1 DEF SequenceInv, RunningInv
    <3>2. Len(results) \in Nat /\ Len(plan.steps) \in Nat /\ MAX_STEPS * (tool_calls - 1) \in Nat
      BY <1>0, <2>1, RunningFits
    <3> QED
      BY <1>0, <2>1, <3>1, <3>2, RunningFits
  <2> QED
    BY <1>0, <2>1, <2>2, <2>3 DEF SequenceInv
<1>7. CASE Alone(Funnel) \/ Alone(KillTask) \/ Alone(TurnCancelled) \/ Alone(Terminate)
           \/ Alone(Others)
  BY <1>7, AloneStep DEF Alone
<1>8. CASE UNCHANGED allVars
  BY <1>8 DEF allVars, SequenceInv, RunningInv, Validates
<1> QED
  BY <1>1, <1>2, <1>3, <1>4, <1>5, <1>6, <1>7, <1>8, Zenon DEF NextSequence, SequenceSteps

LEMMA SequenceInvInitial == InitSequence => SequenceInv
<1> SUFFICES ASSUME InitSequence PROVE SequenceInv
  OBVIOUS
<1>1. plan = None /\ tool_calls = 0 /\ results = << >> /\ calls = 0
  BY DEF InitSequence, Init
<1>2. results \in Seq(BOOLEAN)
  BY <1>1
<1> QED
  BY <1>1, <1>2, CapsAgree DEF SequenceInv

(* docs/execute_command_schema.md:553, "No batching bypass": a sequence    *)
(* does nothing that its steps could not have done as commands of their    *)
(* own.                                                                    *)
THEOREM SequencesAreSingleCalls == SequenceSpec => NoBatchingBypass
<1>1. InitSequence => SequenceInv /\ Init
  BY SequenceInvInitial DEF InitSequence
<1>2. SequenceInv /\ [NextSequence]_allVars => SequenceInv' /\ [Next]_vars
  BY SequenceInvStep, SequenceStepIsSingle
<1> QED
  BY <1>1, <1>2, PTL DEF SequenceSpec, NoBatchingBypass, Spec

(* Hence what a sequence transmits is authorised step by step, and within  *)
(* the budgets of the session.                                             *)
THEOREM SequencesAreAuthorised == SequenceSpec => [](Authorised /\ SessionBudgetsHold)
  BY SequencesAreSingleCalls, OnlyAuthorised, BudgetsHold, PTL DEF NoBatchingBypass

(* And after Ctrl-C the steps that are left put nothing on the air.        *)
THEOREM KilledSequencesAreSilent == SequenceSpec => KilledTurnIsSilent
  BY SequencesAreSingleCalls, KilledStaysSilent, PTL DEF NoBatchingBypass
-----------------------------------------------------------------------------
(* What the control state and the driver say of the outcome of a command.  *)
LEMMA OutcomeStep ==
  ASSUME IInv, OutcomeInv, [Next]_vars
  PROVE  OutcomeInv'
<1>0. /\ CommandInv /\ stop_event \in BOOLEAN
      /\ sent \in Nat /\ (cmd \in Commands => cmd.length \in Nat)
  BY LengthIsNat DEF IInv, HostInv, HostTypes, TypeKillSwitch, TypeDriver
<1> USE DEF OutcomeInv, CommandInv, TxStates, RxStates, driverVars, txVars, rxVars, execVars,
            commandVars, killVars
<1>1. CASE NewTurn \/ EndTurn \/ Quit \/ Terminate
  BY <1>0, <1>1 DEF NewTurn, EndTurn, Quit, Terminate
<1>2. CASE Submit \/ ListActive \/ AskOperator
  BY <1>0, <1>2 DEF Submit, Receive, ListActive, AskOperator
<1>3. CASE Refuse \/ Deny \/ OfflineDone \/ OfflineEscapes("exited")
  BY <1>0, <1>3 DEF Refuse, Deny, OfflineDone, OfflineEscapes, Result, Leave
<1>4. CASE Proceed \/ Approve
  <2>1. PICK log, who, at : Dispatch(log, who, at) /\ transfer = "idle" /\ UNCHANGED stop_event
    BY <1>0, <1>4 DEF Proceed, Approve, Dispatch
  <2>2. CASE DispatchFails(log)
    BY <2>1, <2>2 DEF DispatchFails, Leave
  <2>3. CASE DispatchOffline /\ Dispatched(log, who, at)
    BY <2>1, <2>3 DEF DispatchOffline, Dispatched, RadioActions
  <2>4. CASE DispatchRadio /\ Dispatched(log, who, at)
    BY <2>1, <2>4 DEF DispatchRadio, Dispatched, BeginTx, BeginRx
  <2> QED BY <2>1, <2>2, <2>3, <2>4 DEF Dispatch
<1>5. CASE TransferEscapes("exited") \/ TxReturns \/ RxKilled \/ RxReturns
  BY <1>0, <1>5 DEF TransferEscapes, Escapes, Abandon, TxReturns, RxKilled, RxReturns,
                    Result, Leave, TxDone, RxDone
<1>11. CASE TurnCancelled
  <2>1. CASE UNCHANGED execVars /\ \E late \in {{}, {"set_up"}, {"start"}, {"stop"}} : Unwind(late)
    BY <1>0, <1>11, <2>1 DEF TurnCancelled, Unwind, Streaming
  <2>2. CASE transfer' = "idle" /\ pc' = "exited"
    BY <2>2
  <2> QED
    BY <1>11, <2>1, <2>2 DEF TurnCancelled, TransferCancelled, Escapes, Abandon, Leave
<1>6. CASE NextSweep
  BY <1>0, <1>6 DEF NextSweep, BeginRx, RxDone, Result, Leave
<1>7. CASE RadioRuns
  <2>1. UNCHANGED <<pc, cmd, stop_event>>
    BY <1>7, RadioSteps DEF LeftoversRun
  <2>2. CASE StartTx \/ TxCheck \/ TxHandOver(cmd.length) \/ TxRaises \/ StartRx \/ RxCallback
             \/ RxDrain(cmd.length) \/ RxStopped(cmd.length)
    BY <1>0, <2>1, <2>2 DEF StartTx, TxCheck, TxCallback, TxHandOver, TxRaises, StartRx, RxCallback,
                            RxDrain, RxStopped
  <2>3. CASE TxEnd(cmd.length) \/ TxFlush
    BY <1>0, <2>1, <2>3 DEF TxEnd, TxCallback, TxFlush
  <2>4. CASE Unwind({})
    BY <2>1, <2>4 DEF Unwind, Streaming
  <2>5. CASE LateMoves
    <3>1. CASE pc = "radio"
      <4>1. left = {}
        BY <3>1 DEF IInv, HaltInv
      <4> QED BY <2>1, <2>5, <3>1, <4>1 DEF LateMoves, LateCallReturns, CutOff, LateBuffer
    <3>2. CASE pc # "radio"
      BY <2>1, <2>5, <3>2 DEF LateMoves, LateCallReturns, CutOff, LateBuffer
    <3> QED BY <3>1, <3>2
  <2> QED BY <1>7, <2>2, <2>3, <2>4, <2>5, RadioSteps DEF DeviceMoves
<1>8. CASE CtrlC \/ DoubleCtrlC \/ KillTask
  BY <1>0, <1>8 DEF CtrlC, FirstPress, DoubleCtrlC, SecondPress, KillTask, RevokeAndLog,
                    RevokeFailed
<1>9. CASE OperatorPressesEnter \/ OtherTerminal \/ TimePasses
  BY <1>0, <1>9 DEF OperatorPressesEnter, OtherTerminal, TimePasses
<1>10. CASE UNCHANGED vars
  BY <1>10 DEF vars
<1> QED
  BY <1>1, <1>2, <1>3, <1>4, <1>5, <1>6, <1>7, <1>8, <1>9, <1>10, <1>11
     DEF Next, Funnel, DeviceRunsOn, RadioRuns, OperatorAnswers, Ended

(* A command that stays in the funnel stays the same, and a transmission   *)
(* that ends leaves it.                                                    *)
LEMMA UnderWayKeeps ==
  ASSUME CommandInv, [Next]_vars, pc \in InFunnel, pc' \in InFunnel
  PROVE  cmd' = cmd /\ (Transmitting => Transmitting')
<1> USE DEF InFunnel, CommandInv, Transmitting, TxStates, RxStates, driverVars, txVars, rxVars,
            execVars, commandVars
<1>1. CASE NewTurn \/ Submit \/ EndTurn \/ Quit \/ Terminate
  BY <1>1 DEF NewTurn, Submit, Receive, EndTurn, Quit, Terminate
<1>2. CASE ListActive \/ AskOperator
  BY <1>2 DEF ListActive, AskOperator
<1>3. CASE Refuse \/ Deny \/ OfflineDone \/ OfflineEscapes("exited") \/ TransferEscapes("exited")
           \/ TxReturns \/ RxKilled \/ RxReturns \/ TurnCancelled
  BY <1>3 DEF Refuse, Deny, OfflineDone, OfflineEscapes, TransferEscapes, Escapes, TxReturns,
              RxKilled, RxReturns, TurnCancelled, Result, Leave
<1>4. CASE Proceed \/ Approve
  BY <1>4 DEF Proceed, Approve, Dispatch, DispatchFails, DispatchOffline, DispatchRadio,
              Dispatched, Leave
<1>5. CASE NextSweep
  BY <1>5 DEF NextSweep, Result, Leave
<1>6. CASE RadioRuns
  <2>1. CASE LateMoves
    BY <1>6, <2>1, RadioSteps DEF LateMoves, LateCallReturns, CutOff, LateBuffer, LeftoversRun
  <2>2. CASE DeviceMoves \/ RxDrain(cmd.length) \/ RxStopped(cmd.length) \/ Unwind({})
    BY <1>6, <2>2, RadioSteps
       DEF DeviceMoves, StartTx, TxCheck, TxCallback, TxHandOver, TxEnd, TxRaises, TxFlush, StartRx,
           RxCallback, RxDrain, RxStopped, Unwind, LeftoversRun
  <2> QED BY <1>6, <2>1, <2>2, RadioSteps
<1>7. CASE CtrlC \/ DoubleCtrlC \/ KillTask \/ OperatorPressesEnter \/ OtherTerminal \/ TimePasses
  BY <1>7 DEF CtrlC, DoubleCtrlC, KillTask, OperatorPressesEnter, OtherTerminal, TimePasses
<1>8. CASE UNCHANGED vars
  BY <1>8 DEF vars
<1> QED
  BY <1>1, <1>2, <1>3, <1>4, <1>5, <1>6, <1>7, <1>8
     DEF Next, Funnel, DeviceRunsOn, RadioRuns, OperatorAnswers, Ended

(* The air gets what the step sends: while the command is in the funnel    *)
(* the two counts move together, and when it leaves the air gets no more.  *)
LEMMA AirMoves ==
  ASSUME IInv, IInv', [Next]_vars, pc \in InFunnel
  PROVE  /\ pc' \in InFunnel => on_air' - sent' = on_air - sent
         /\ pc' = "thinking" => on_air' = on_air /\ sent' = 0
<1>1. /\ HostTypes /\ CommandInv /\ CommandInv' /\ SentInv /\ SentInv'
      /\ sent \in Nat /\ sent' \in Nat /\ on_air \in Nat /\ on_air' \in Nat
  BY DEF IInv, HostInv, HostTypes, AirtimeInv, TypeDriver
<1>2. pc' = "thinking" => ~Transmitting' /\ sent' = 0
  BY <1>1 DEF CommandInv, SentInv, Transmitting, TxStates
<1>3. CASE KeysUp
  BY <1>1, <1>2, <1>3 DEF KeysUp, BeginTx, txVars
<1>4. CASE HandsOver
  <2>1. ~LateBuffer
    BY DEF IInv, HaltInv, InFunnel, LateBuffer
  <2>2. CASE TxCheck
    BY <1>1, <1>2, <2>2 DEF TxCheck
  <2>3. CASE TxHandOver(cmd.length)
    <3>1. on_air' = on_air + 1 /\ sent' = sent + 1
      BY <2>3 DEF TxHandOver
    <3> QED BY <1>1, <1>2, <3>1
  <2> QED BY <1>4, <2>1, <2>2, <2>3 DEF HandsOver
<1>5. CASE Silences
  <2>1. pc' \notin InFunnel
    BY <1>1, <1>5, UnderWayKeeps DEF Silences, Transmitting, TxStates
  <2> QED BY <1>2, <1>5, <2>1 DEF Silences
<1>6. CASE GivesUp \/ Rests
  <2>1. sent' = sent /\ on_air' = on_air
    BY <1>1, <1>6 DEF GivesUp, Rests, SentInv
  <2> QED BY <1>1, <1>2, <2>1
<1>7. [HostNext]_hostVars
  BY InvariantStep
<1> QED BY <1>1, <1>3, <1>4, <1>5, <1>6, <1>7, RadioMoves

(* What the sequence is told is what the radio did.                        *)
LEMMA StepOutcome ==
  ASSUME IInv, OutcomeInv, pc \in InFunnel, NEW ok \in Successes
  PROVE  /\ cmd \in Commands
         /\ cmd.action # "transmit_iq" => sent = 0
         /\ cmd.action = "transmit_iq" /\ ok => sent = cmd.length
         /\ cmd.action = "transmit_iq" /\ ~cmd.valid => sent = 0 /\ ~ok
<1>1. CommandInv /\ SentInv /\ sent \in Nat
  BY DEF IInv, HostInv, HostTypes, AirtimeInv, TypeDriver
<1>2. cmd \in Commands /\ cmd.length \in Nat
  BY <1>1, LengthIsNat DEF CommandInv, InFunnel
<1>3. cmd.action # "transmit_iq" => sent = 0
  BY <1>1 DEF CommandInv, SentInv
<1>4. ASSUME cmd.action = "transmit_iq", ok
      PROVE  sent = cmd.length
  <2>1. pc # "offline"
    BY <1>4 DEF OutcomeInv
  <2>2. pc = "radio" /\ (\/ transfer = "tx_stopping" /\ ~stop_event
                         \/ transfer = "storing" /\ sweeps_left <= 1)
    BY <1>4, <2>1, Zenon DEF Successes
  <2>3. transfer = "tx_stopping" /\ ~stop_event
    BY <1>4, <2>2 DEF OutcomeInv, RxStates
  <2>4. sent >= cmd.length
    BY <2>2, <2>3 DEF OutcomeInv
  <2>5. sent <= cmd.length
    BY <1>1, <2>3 DEF SentInv, Transmitting, TxStates
  <2> QED BY <1>1, <1>2, <2>4, <2>5
<1>5. ASSUME cmd.action = "transmit_iq", ~cmd.valid
      PROVE  sent = 0 /\ ~ok
  <2>1. pc # "offline" /\ pc # "radio"
    BY <1>1, <1>5 DEF OutcomeInv, CommandInv
  <2>2. ~ok
    BY <2>1, Zenon DEF Successes
  <2>3. ~Transmitting
    BY <1>1, <2>1 DEF CommandInv, Transmitting, TxStates, InFunnel
  <2> QED BY <1>1, <2>2, <2>3 DEF SentInv
<1> QED BY <1>2, <1>3, <1>4, <1>5

(* A step that is added leaves the results before it as they were.         *)
LEMMA ResultAppended ==
  ASSUME NEW ok \in BOOLEAN, NEW air \in Nat, NEW n \in Nat, n = Len(results),
         results \in Seq(BOOLEAN), odometer \in Seq(Nat), Len(odometer) = n + 1,
         results' = Append(results, ok), odometer' = Append(odometer, air)
  PROVE  /\ odometer' \in Seq(Nat) /\ Len(odometer') = Len(results') + 1
         /\ DOMAIN results' = DOMAIN results \cup {n + 1}
         /\ Len(results') = n + 1
         /\ odometer'[Len(odometer')] = air
         /\ results'[n + 1] = ok
         /\ Aired(n + 1)' = air - odometer[Len(odometer)]
         /\ \A i \in DOMAIN results : results'[i] = results[i] /\ Aired(i)' = Aired(i)
<1>1. n \in Nat /\ DOMAIN results = 1..n /\ Len(odometer) = n + 1
  OBVIOUS
<1>2. /\ Len(results') = n + 1 /\ DOMAIN results' = 1..n + 1
      /\ results'[n + 1] = ok
      /\ \A i \in 1..n : results'[i] = results[i]
  OBVIOUS
<1>3. /\ odometer' \in Seq(Nat) /\ Len(odometer') = n + 2
      /\ odometer'[n + 2] = air
      /\ \A i \in 1..n + 1 : odometer'[i] = odometer[i]
  BY <1>1
<1>4. Aired(n + 1)' = air - odometer[n + 1]
  <2>1. n + 1 \in 1..n + 1 /\ (n + 1) + 1 = n + 2
    BY <1>1
  <2> QED BY <1>3, <2>1 DEF Aired
<1>5. \A i \in 1..n : Aired(i)' = Aired(i)
  <2> SUFFICES ASSUME NEW i \in 1..n PROVE Aired(i)' = Aired(i)
    OBVIOUS
  <2>1. i \in 1..n + 1 /\ i + 1 \in 1..n + 1
    BY <1>1
  <2> QED BY <1>3, <2>1 DEF Aired
<1> QED BY <1>1, <1>2, <1>3, <1>4, <1>5

(* What is to be said of one result.                                       *)
TrueOf(i) ==
  LET step == plan.steps[i]
      transmission == step # UnknownAction /\ step.action = "transmit_iq"
  IN /\ ~transmission => Aired(i) = 0
     /\ transmission /\ results[i] => Aired(i) = step.length
     /\ transmission /\ ~step.valid => Aired(i) = 0 /\ ~results[i]

LEMMA TrueOneByOne ==
  ResultsAreTrue <=>
    (plan # None => \A i \in DOMAIN results :
       TrueOf(i) /\ (plan.stop_on_error /\ ~results[i] => i = Len(results) /\ pc = "thinking"))
BY Zenon DEF ResultsAreTrue, TrueOf

LEMMA TrueOneByOneNext ==
  ResultsAreTrue' <=>
    (plan' # None => \A i \in DOMAIN results' :
       TrueOf(i)' /\ (plan'.stop_on_error /\ ~results'[i]
                        => i = Len(results') /\ pc' = "thinking"))
BY Zenon DEF ResultsAreTrue, TrueOf

SequenceTruth == SequenceInv /\ OutcomeInv /\ OdometerInv /\ ResultsAreTrue

(* A step of the sequence that has just come back.                         *)
LEMMA ResultStep ==
  ASSUME SequenceTruth, IInv, [Next]_vars, IInv', SequenceInv',
         plan # None, plan' = plan, pc' = "thinking",
         NEW ok \in BOOLEAN, results' = Append(results, ok),
         odometer' = Append(odometer, on_air'),
         \/ pc \in InFunnel /\ ok \in Successes
         \/ /\ pc = "thinking" /\ UNCHANGED vars /\ StepsLeft
            /\ NextStep = UnknownAction /\ ok = FALSE
  PROVE  OdometerInv' /\ ResultsAreTrue'
<1>0. PICK n \in Nat : n = Len(results)
  BY DEF SequenceTruth, SequenceInv
<1>1. /\ results \in Seq(BOOLEAN) /\ odometer \in Seq(Nat) /\ Len(odometer) = n + 1
      /\ on_air = odometer[Len(odometer)] + sent
      /\ n \in Nat /\ DOMAIN results = 1..n
      /\ odometer[Len(odometer)] \in Nat
  <2>1. /\ results \in Seq(BOOLEAN) /\ odometer \in Seq(Nat) /\ Len(odometer) = n + 1
        /\ on_air = odometer[Len(odometer)] + sent
    BY <1>0 DEF SequenceTruth, SequenceInv, OdometerInv
  <2> QED BY <1>0, <2>1
<1>2. sent \in Nat /\ sent' \in Nat /\ on_air \in Nat /\ on_air' \in Nat
  BY DEF IInv, HostInv, HostTypes, TypeDriver
<1>3. on_air' = on_air /\ sent' = 0
  <2>1. CASE pc \in InFunnel
    BY <2>1, AirMoves
  <2>2. CASE pc = "thinking" /\ UNCHANGED vars
    BY <2>2 DEF vars, IInv, HostInv, CommandInv, AirtimeInv, SentInv, Transmitting,
                TxStates
  <2> QED BY <2>1, <2>2
<1>4. /\ odometer' \in Seq(Nat) /\ Len(odometer') = Len(results') + 1
      /\ DOMAIN results' = DOMAIN results \cup {n + 1}
      /\ Len(results') = n + 1
      /\ odometer'[Len(odometer')] = on_air'
      /\ results'[n + 1] = ok
      /\ Aired(n + 1)' = on_air' - odometer[Len(odometer)]
      /\ \A i \in DOMAIN results : results'[i] = results[i] /\ Aired(i)' = Aired(i)
  BY <1>0, <1>1, <1>2, ResultAppended
<1>5. OdometerInv'
  BY <1>2, <1>3, <1>4 DEF OdometerInv
<1>6. Aired(n + 1)' = sent
  BY <1>1, <1>2, <1>3, <1>4
<1>7. plan.stop_on_error => \A i \in DOMAIN results : results[i]
  BY DEF SequenceTruth, OdometerInv, StepsLeft, InFunnel
<1>8. \A i \in DOMAIN results : TrueOf(i)
  BY TrueOneByOne DEF SequenceTruth
<1>9. ASSUME NEW i \in DOMAIN results
      PROVE  TrueOf(i)' /\ (plan.stop_on_error => results'[i])
  BY <1>4, <1>7, <1>8, <1>9 DEF TrueOf
<1>10. TrueOf(n + 1)'
  <2>1. CASE pc \in InFunnel /\ ok \in Successes
    <3>1. cmd = plan.steps[n + 1]
      BY <1>0, <2>1 DEF SequenceTruth, OdometerInv, InFunnel, NextStep
    <3>2. /\ cmd \in Commands /\ cmd # UnknownAction
          /\ cmd.action # "transmit_iq" => sent = 0
          /\ cmd.action = "transmit_iq" /\ ok => sent = cmd.length
          /\ cmd.action = "transmit_iq" /\ ~cmd.valid => sent = 0 /\ ~ok
      BY <2>1, StepOutcome, UnknownIsNoCommand DEF SequenceTruth
    <3> QED BY <1>4, <1>6, <3>1, <3>2 DEF TrueOf
  <2>2. CASE pc = "thinking" /\ NextStep = UnknownAction /\ UNCHANGED vars
    <3>1. plan.steps[n + 1] = UnknownAction /\ sent = 0
      BY <1>0, <1>2, <1>3, <2>2 DEF NextStep, vars
    <3> QED BY <1>6, <3>1 DEF TrueOf
  <2> QED BY <2>1, <2>2
<1>11. \A i \in DOMAIN results' :
         TrueOf(i)' /\ (plan'.stop_on_error /\ ~results'[i]
                          => i = Len(results') /\ pc' = "thinking")
  BY <1>4, <1>9, <1>10
<1> QED BY <1>5, <1>11, TrueOneByOneNext

(* While a step is in the funnel the results are what they were.           *)
LEMMA FunnelStep ==
  ASSUME SequenceTruth, IInv, [Next]_vars, IInv',
         plan # None, UNCHANGED sequenceVars, pc' \in InFunnel,
         pc \in InFunnel \/ (pc = "thinking" /\ StepsLeft /\ Receive(NextStep))
  PROVE  OdometerInv' /\ ResultsAreTrue'
<1>1. UNCHANGED <<plan, results, odometer>>
  BY DEF sequenceVars
<1>2. plan.stop_on_error => \A i \in DOMAIN results : results[i]
  BY DEF SequenceTruth, OdometerInv, StepsLeft, InFunnel
<1>3. sent \in Nat /\ sent' \in Nat /\ on_air \in Nat /\ on_air' \in Nat
  BY DEF IInv, HostInv, HostTypes, TypeDriver
<1>4. /\ odometer \in Seq(Nat) /\ Len(odometer) = Len(results) + 1
      /\ on_air = odometer[Len(odometer)] + sent /\ odometer[Len(odometer)] \in Nat
  <2>1. results \in Seq(BOOLEAN) /\ odometer \in Seq(Nat) /\ Len(odometer) = Len(results) + 1
        /\ on_air = odometer[Len(odometer)] + sent
    BY DEF SequenceTruth, SequenceInv, OdometerInv
  <2> QED BY <2>1
<1>5. on_air' - sent' = on_air - sent /\ cmd' = NextStep
  <2>1. CASE pc \in InFunnel
    <3>1. cmd = NextStep /\ cmd' = cmd
      BY <2>1, UnderWayKeeps DEF SequenceTruth, OdometerInv, InFunnel, IInv, HostInv
    <3> QED BY <2>1, <3>1, AirMoves
  <2>2. CASE Receive(NextStep)
    BY <1>3, <2>2 DEF Receive, driverVars, txVars
  <2> QED BY <2>1, <2>2
<1>6. on_air' = odometer[Len(odometer)] + sent'
  BY <1>3, <1>4, <1>5
<1>7. OdometerInv'
  BY <1>1, <1>2, <1>4, <1>5, <1>6 DEF OdometerInv, NextStep
<1>8. \A i \in DOMAIN results : TrueOf(i)
  BY TrueOneByOne DEF SequenceTruth
<1>9. \A i \in DOMAIN results' :
        TrueOf(i)' /\ (plan'.stop_on_error /\ ~results'[i]
                         => i = Len(results') /\ pc' = "thinking")
  BY <1>1, <1>2, <1>8 DEF TrueOf, Aired
<1> QED BY <1>7, <1>9, TrueOneByOneNext

LEMMA TruthStep ==
  ASSUME SequenceTruth, SequenceInv', IInv, IInv', [NextSequence]_allVars, [Next]_vars
  PROVE  OdometerInv' /\ ResultsAreTrue'
<1>0. plan' = None => OdometerInv' /\ ResultsAreTrue'
  BY DEF OdometerInv, ResultsAreTrue
<1>1. CASE plan = None /\ UNCHANGED sequenceVars
  BY <1>0, <1>1 DEF sequenceVars
<1>2. CASE NewTurn /\ tool_calls' = 0 /\ UNCHANGED sequenceVars
  <2>1. plan = None
    BY <1>2 DEF SequenceTruth, NewTurn, SequenceInv, RunningInv
  <2> QED BY <1>1, <1>2, <2>1
<1>3. CASE SingleCommand
  BY <1>1, <1>3 DEF SingleCommand
<1>4. ASSUME NEW p \in Plans, PlaySequence(p)
      PROVE  OdometerInv' /\ ResultsAreTrue'
  <2>1. plan = None /\ pc = "thinking" /\ UNCHANGED vars
    BY <1>4 DEF PlaySequence
  <2>2. CASE Validates(p)
    <3>1. plan' = p /\ results' = << >> /\ odometer' = <<on_air>> /\ pc' = "thinking"
      BY <1>4, <2>1, <2>2 DEF PlaySequence, vars
    <3>2. on_air' = on_air /\ on_air \in Nat /\ sent' = 0
      BY <2>1 DEF vars, IInv, HostInv, HostTypes, TypeDriver, CommandInv,
                  AirtimeInv, SentInv,
                  Transmitting, TxStates
    <3>3. OdometerInv'
      BY <3>1, <3>2 DEF OdometerInv
    <3>4. ResultsAreTrue'
      BY <3>1 DEF ResultsAreTrue
    <3> QED BY <3>3, <3>4
  <2>3. CASE ~Validates(p)
    BY <1>1, <1>4, <2>1, <2>3 DEF PlaySequence
  <2> QED BY <2>2, <2>3
<1>5. CASE SendStep
  <2>1. /\ plan # None /\ pc = "thinking" /\ StepsLeft /\ Receive(NextStep)
        /\ pc' \in InFunnel /\ UNCHANGED sequenceVars
    BY <1>5 DEF SendStep, BetweenSteps, Receive, InFunnel
  <2> QED BY <2>1, FunnelStep
<1>6. CASE SkipUnknown
  <2>1. /\ plan # None /\ pc = "thinking" /\ StepsLeft /\ NextStep = UnknownAction
        /\ results' = Append(results, FALSE) /\ odometer' = Append(odometer, on_air)
        /\ plan' = plan /\ UNCHANGED vars
    BY <1>6 DEF SkipUnknown, BetweenSteps
  <2>2. pc' = "thinking" /\ on_air' = on_air
    BY <2>1 DEF vars
  <2> QED BY <2>1, <2>2, ResultStep
<1>7. CASE ReportSequence
  BY <1>0, <1>7 DEF ReportSequence
<1>8. ASSUME ~BetweenSteps, KeepResults,
             Funnel \/ KillTask \/ TurnCancelled \/ Terminate \/ Others
      PROVE  OdometerInv' /\ ResultsAreTrue'
  <2>1. CASE plan = None
    BY <1>0, <1>1, <1>8, <2>1 DEF KeepResults
  <2>2. CASE plan # None
    <3>1. pc \in InFunnel /\ pc' \in InFunnel \cup {"thinking", "exited"}
      BY <1>8, <2>2, UnderWayMoves
         DEF SequenceTruth, SequenceInv, RunningInv, BetweenSteps, InFunnel
    <3>2. CASE pc' = "thinking"
      <4>1. plan' = plan /\ odometer' = Append(odometer, on_air')
            /\ \E ok \in Successes : results' = Append(results, ok)
        BY <1>8, <2>2, <3>1, <3>2 DEF KeepResults, InFunnel
      <4> QED BY <2>2, <3>1, <3>2, <4>1, SuccessesAreBoolean, ResultStep
    <3>3. CASE pc' = "exited"
      BY <1>0, <1>8, <3>3 DEF KeepResults
    <3>4. CASE pc' \in InFunnel
      <4>1. UNCHANGED sequenceVars
        BY <1>8, <3>4 DEF KeepResults, InFunnel
      <4> QED BY <2>2, <3>1, <3>4, <4>1, FunnelStep
    <3> QED BY <3>1, <3>2, <3>3, <3>4
  <2> QED BY <2>1, <2>2
<1>9. CASE UNCHANGED allVars
  BY <1>9 DEF allVars, SequenceTruth, OdometerInv, ResultsAreTrue, NextStep, Aired
<1>10. CASE Alone(Funnel) \/ Alone(KillTask) \/ Alone(TurnCancelled) \/ Alone(Terminate)
            \/ Alone(Others)
  BY <1>8, <1>10 DEF Alone
<1> QED
  BY <1>2, <1>3, <1>4, <1>5, <1>6, <1>7, <1>9, <1>10, Zenon DEF NextSequence, SequenceSteps

(* domain/executor.py:362-418: whatever a sequence meets (a refusal, a     *)
(* revoked grant, Ctrl-C in the middle of a buffer, a step that no handler *)
(* knows), what it reports of each step is what the radio did for it.      *)
THEOREM SequenceResultsAreTrue == SequenceSpec => []ResultsAreTrue
<1>1. InitSequence => SequenceTruth /\ Init
  <2>1. InitSequence => SequenceInv
    BY SequenceInvInitial
  <2>2. InitSequence => OutcomeInv
    BY DEF InitSequence, Init, InitDriver, OutcomeInv, RxStates
  <2>3. InitSequence => OdometerInv /\ ResultsAreTrue
    BY DEF InitSequence, OdometerInv, ResultsAreTrue
  <2> QED BY <2>1, <2>2, <2>3 DEF SequenceTruth, InitSequence
<1>2. SequenceTruth /\ IInv /\ IInv' /\ [NextSequence]_allVars => SequenceTruth'
  BY SequenceInvStep, SequenceStepIsSingle, OutcomeStep, TruthStep DEF SequenceTruth
<1>3. SequenceSpec => []IInv
  BY SequencesAreSingleCalls, Invariant, PTL DEF NoBatchingBypass
<1>4. SequenceTruth => ResultsAreTrue
  BY DEF SequenceTruth
<1> QED
  BY <1>1, <1>2, <1>3, <1>4, PTL DEF SequenceSpec

(* The trail of every step of a sequence is as true as a single command's. *)
THEOREM SequencesLeaveTrueTrails == SequenceSpec => []TrailTellsTheStory
  BY SequencesAreSingleCalls, TrailIsTrue, PTL DEF NoBatchingBypass
=============================================================================
