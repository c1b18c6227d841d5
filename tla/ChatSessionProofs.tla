------------------------- MODULE ChatSessionProofs -------------------------
(***************************************************************************)
(* The chat session, for every set of commands, grants and bounds.  It is  *)
(* a host of the executor, and inherits what HostProofs proves of hosts;   *)
(* what is its own is what Ctrl-C does to the rest of a turn, and what the *)
(* audit trail tells at every point of the funnel.                         *)
(***************************************************************************)
EXTENDS ChatSession, HostProofs

(* Every step of the session is one that a host may take.                  *)
LEMMA HostStep ==
  ASSUME HostTypes, CommandInv, [Next]_vars
  PROVE  [HostNext]_hostVars
<1>1. /\ clock \in Nat /\ last_press \in Int /\ revoking \in Nat
      /\ stop_event \in BOOLEAN
      /\ transfer # "idle" => pc \in {"radio", "exited"}
  BY Zenon DEF HostTypes, TypePermissions, TypeKillSwitch, CommandInv
<1> USE DEF execVars, commandVars, budgetVars, driverVars, txVars, rxVars, killVars, permVars,
            replVars, Resting
<1>2. CASE NewTurn
  <2>1. stop_event' \in BOOLEAN
    BY <1>2, Zenon DEF NewTurn
  <2>2. HostMoves
    BY <1>1, <1>2, <2>1 DEF NewTurn, HostMoves, TableMoves
  <2> QED BY <2>2 DEF HostNext
<1>3. CASE Submit
  BY <1>3, Zenon DEF Submit, Receives, HostNext
<1>4. CASE EndTurn \/ Quit \/ Terminate
  <2>1. stop_event' \in BOOLEAN
    BY <1>1, <1>4, Zenon DEF EndTurn, Quit, Terminate
  <2>2. HostMoves
    BY <1>1, <1>4, <2>1 DEF EndTurn, Quit, Terminate, HostMoves, TableMoves
  <2> QED BY <2>2 DEF HostNext
<1>5. CASE Funnel
  <2>1. CASE DeviceRuns \/ CoroutineRuns \/ TransferFails
    BY <2>1 DEF RadioRuns, HostNext
  <2>2. CASE OfflineEscapes("exited") \/ TransferEscapes("exited")
    <3>1. IsAborted
      BY <2>2 DEF IsAborted
    <3> QED BY <3>1 DEF HostNext
  <2> QED
    BY <1>5, <2>1, <2>2, Zenon DEF Funnel, Handles, HostNext
<1>6. CASE OperatorAnswers
  BY <1>6, Zenon DEF OperatorAnswers, Handles, HostNext
<1>7. CASE CtrlC \/ DoubleCtrlC
  <2>1. stop_event' \in BOOLEAN /\ (stop_event => stop_event')
    BY <1>1, <1>7, Zenon DEF CtrlC, FirstPress, DoubleCtrlC, SecondPress
  <2>2. HostMoves
    BY <1>1, <1>7, <2>1 DEF CtrlC, FirstPress, DoubleCtrlC, SecondPress, HostMoves, TableMoves
  <2> QED BY <2>2 DEF HostNext
<1>8. CASE KillTask
  <2>1. stop_event' = stop_event
    BY <1>8, Zenon DEF KillTask, RevokeAndLog, RevokeFailed
  <2>2. HostMoves
    BY <1>1, <1>8, <2>1 DEF KillTask, RevokeAndLog, RevokeFailed, HostMoves, TableMoves
  <2> QED BY <2>2 DEF HostNext
<1>9. CASE DeviceRunsOn
  BY <1>9 DEF DeviceRunsOn, RadioRuns, HostNext
<1>10. CASE TurnCancelled
  <2>1. IsCancelled
    BY <1>10 DEF TurnCancelled, IsCancelled
  <2> QED BY <2>1 DEF HostNext
<1>11. CASE OtherTerminal \/ TimePasses
  <2>1. TableMoves
    BY <1>11 DEF OtherTerminal, TimePasses, TableMoves
  <2>2. HostMoves
    BY <1>1, <1>11, <2>1 DEF OtherTerminal, TimePasses, HostMoves
  <2> QED BY <2>2 DEF HostNext
<1>12. CASE OperatorPressesEnter \/ UNCHANGED vars
  BY <1>12 DEF OperatorPressesEnter, vars, hostVars
<1> QED
  BY <1>2, <1>3, <1>4, <1>5, <1>6, <1>7, <1>8, <1>9, <1>10, <1>11, <1>12 DEF Next, Ended

LEMMA ReplType ==
  ASSUME TypeOK, [Next]_vars
  PROVE  /\ turns' \in Nat /\ calls' \in Nat
         /\ reader' \in {"none", "stdin", "chunks"}
         /\ halted' \in BOOLEAN
<1> USE DEF replVars
<1>1. /\ turns \in Nat /\ calls \in Nat
      /\ reader \in {"none", "stdin", "chunks"}
      /\ halted \in BOOLEAN
  BY DEF TypeOK
<1>2. CASE UNCHANGED replVars
  BY <1>1, <1>2
<1>3. CASE NewTurn
  <2>1. halted' \in BOOLEAN
    BY <1>1, <1>3, Zenon DEF NewTurn
  <2> QED BY <1>1, <1>3, <2>1 DEF NewTurn
<1>4. CASE Submit
  BY <1>1, <1>4 DEF Submit
<1>5. CASE CtrlC \/ DoubleCtrlC
  <2>1. halted' \in BOOLEAN
    BY <1>1, <1>5, Zenon DEF CtrlC, DoubleCtrlC
  <2>2. BlockedReader \in {"none", "stdin", "chunks"}
    BY DEF BlockedReader
  <2> QED BY <1>1, <1>5, <2>1, <2>2 DEF CtrlC, DoubleCtrlC
<1>6. CASE DeviceRunsOn \/ OperatorPressesEnter
  BY <1>1, <1>6 DEF DeviceRunsOn, OperatorPressesEnter
<1>7. CASE OtherTerminal
  BY <1>1, <1>7 DEF OtherTerminal
<1>8. CASE UNCHANGED vars
  BY <1>2, <1>8 DEF vars
<1> QED
  BY <1>2, <1>3, <1>4, <1>5, <1>6, <1>7, <1>8
     DEF Next, EndTurn, Quit, Funnel, OperatorAnswers, KillTask, TurnCancelled,
         Terminate, TimePasses, Ended

(* Ctrl-C sets the event, and only a new turn, which forgets that it was   *)
(* pressed, clears it; nothing is left behind on a thread before the exit. *)
LEMMA DispatchLeavesNothing ==
  ASSUME NEW log, NEW who, NEW at, Dispatch(log, who, at)
  PROVE  left' = left
  BY DEF Dispatch, DispatchFails, DispatchOffline, DispatchRadio, BeginTx, BeginRx, driverVars

LEMMA HaltStep ==
  ASSUME HaltInv, [Next]_vars
  PROVE  HaltInv'
<1> USE DEF HaltInv, killVars, replVars, driverVars
<1>1. CASE NewTurn
  BY <1>1 DEF NewTurn
<1>2. CASE Submit \/ EndTurn \/ Quit \/ Terminate
  BY <1>2 DEF Submit, Receive, EndTurn, Quit, Terminate
<1>3. CASE Funnel
  <2>1. CASE ListActive \/ Refuse \/ AskOperator \/ OfflineDone
    BY <1>3, <2>1 DEF Funnel, ListActive, Refuse, AskOperator, OfflineDone, Result, Leave
  <2>2. CASE Proceed
    BY <1>3, <2>2, DispatchLeavesNothing DEF Funnel, Proceed, Dispatch
  <2>3. CASE OfflineEscapes("exited") \/ TransferEscapes("exited")
    BY <2>3 DEF OfflineEscapes, TransferEscapes, Escapes, Leave
  <2>4. CASE TxReturns \/ RxKilled \/ NextSweep \/ RxReturns
    BY <1>3, <2>4 DEF Funnel, TxReturns, RxKilled, NextSweep, RxReturns, Result, Leave, TxDone,
                      RxDone, BeginRx
  <2>5. CASE pc = "radio" /\ (DeviceRuns \/ CoroutineRuns \/ TransferFails)
    <3>1. UNCHANGED <<pc, stop_event, halted>>
      BY <1>3, <2>5 DEF Funnel, DeviceRuns, CoroutineRuns, TransferFails, execVars
    <3>2. left' = left \cup {} \/ left' = left
      BY <2>5 DEF DeviceRuns, CoroutineRuns, TransferFails, DeviceMoves, StartTx, TxCheck,
                  TxHandOver, TxEnd, TxRaises, TxFlush, StartRx, RxCallback, RxDrain,
                  RxStopped, Unwind
    <3> QED BY <3>1, <3>2
  <2> QED BY <1>3, <2>1, <2>2, <2>3, <2>4, <2>5, Zenon DEF Funnel
<1>4. CASE OperatorAnswers
  <2>1. CASE Approve
    BY <1>4, <2>1, DispatchLeavesNothing DEF OperatorAnswers, Approve, Dispatch
  <2>2. CASE Deny
    BY <1>4, <2>2 DEF OperatorAnswers, Deny, Leave
  <2> QED BY <1>4, <2>1, <2>2 DEF OperatorAnswers
<1>5. CASE CtrlC
  BY <1>5 DEF CtrlC, FirstPress
<1>6. CASE DoubleCtrlC
  BY <1>6 DEF DoubleCtrlC
<1>7. CASE KillTask
  BY <1>7 DEF KillTask, RevokeAndLog, RevokeFailed, execVars
<1>8. CASE DeviceRunsOn \/ TurnCancelled \/ OperatorPressesEnter
  <2>1. pc' = "exited"
    BY <1>8 DEF DeviceRunsOn, DeviceRuns, LeftoversRun, TurnCancelled, TransferCancelled,
                Escapes, OperatorPressesEnter, Leave, execVars
  <2> QED BY <2>1
<1>9. CASE OtherTerminal \/ TimePasses
  BY <1>9 DEF OtherTerminal, TimePasses, execVars
<1>10. CASE UNCHANGED vars
  BY <1>10 DEF vars
<1> QED
  BY <1>1, <1>2, <1>3, <1>4, <1>5, <1>6, <1>7, <1>8, <1>9, <1>10 DEF Next, Ended
-----------------------------------------------------------------------------
LEMMA InitialState == Init => HostInit /\ IInv
<1> SUFFICES ASSUME Init PROVE HostInit /\ IInv
  OBVIOUS
<1>1. HostInit
  BY DEF Init, HostInit
<1>2. TypeOK /\ HaltInv
  <2>1. halted \in BOOLEAN /\ ~halted
    BY Zenon DEF Init
  <2>2. HostTypes
    BY <1>1, HostInitially DEF HostInv
  <2> QED BY <2>1, <2>2 DEF Init, InitDriver, TypeOK, HaltInv
<1> QED BY <1>1, <1>2, HostInitially DEF IInv

LEMMA InvariantStep == IInv /\ [Next]_vars => IInv' /\ [HostNext]_hostVars
<1> SUFFICES ASSUME IInv, [Next]_vars PROVE IInv' /\ [HostNext]_hostVars
  OBVIOUS
<1>1. [HostNext]_hostVars
  BY HostStep DEF IInv, HostInv
<1>2. HostInv'
  BY <1>1, HostInductive DEF IInv
<1> QED BY <1>1, <1>2, ReplType, HaltStep DEF IInv, TypeOK, HostInv

LEMMA Invariant == Spec => []IInv
  BY InitialState, InvariantStep, PTL DEF Spec

(* `hackrf-agent chat` drives the executor as a host may: one command at a *)
(* time, a stop event that never comes down over a busy radio, a table     *)
(* that it shares with the other terminal and the kill switch.             *)
THEOREM SessionIsAHost == Spec => HostSpec
  BY InitialState, InvariantStep, Invariant, PTL DEF Spec, HostSpec

(* Every variable of the session keeps its type, whatever the interleaving.*)
THEOREM TypeCorrect == Spec => []TypeOK
<1>1. IInv => TypeOK
  BY DEF IInv
<1> QED
  BY <1>1, Invariant, PTL

(* Nothing the session transmits goes out without an authority that still  *)
(* stands in the table, or that the operator gave.                         *)
THEOREM OnlyAuthorised == Spec => []Authorised
  BY SessionIsAHost, HostsAreAuthorised, PTL

(* The session's two accounts bound it at every buffer.                    *)
THEOREM BudgetsHold == Spec => []SessionBudgetsHold
  BY SessionIsAHost, HostsKeepBudgets, PTL

(* The session implements the safety part of the operator's promise.       *)
THEOREM TransmitAuthorityKept == Spec => TransmitSteps
  BY SessionIsAHost, HostsKeepThePromise, PTL

(* The driver of a process that has ended is at rest.                      *)
LEMMA EndIsRest ==
  ASSUME CommandInv, pc = "terminated", [Next]_vars
  PROVE  UNCHANGED <<driverVars, cmd>>
<1> USE DEF driverVars, txVars, rxVars, execVars, commandVars
<1>1. transfer = "idle"
  BY DEF CommandInv
<1>2. ~(NewTurn \/ Submit \/ EndTurn \/ Quit \/ OperatorAnswers \/ CtrlC \/ DoubleCtrlC)
  BY DEF NewTurn, Submit, Receive, EndTurn, Quit, OperatorAnswers, Approve, Deny, CtrlC, DoubleCtrlC
<1>3. ~(Funnel \/ DeviceRunsOn \/ TurnCancelled \/ OperatorPressesEnter \/ Terminate)
  BY DEF Funnel, ListActive, Refuse, AskOperator, Proceed, OfflineDone, OfflineEscapes,
         TransferEscapes, TxReturns, RxKilled, NextSweep, RxReturns, DeviceRunsOn, TurnCancelled,
         OperatorPressesEnter, Terminate
<1> QED
  BY <1>2, <1>3 DEF Next, KillTask, OtherTerminal, TimePasses, Ended, vars

(* Ctrl-C during a turn silences it: kill_switch.py's event, the check at  *)
(* the head of each driver call and the callbacks' own look at it leave no *)
(* window in which a transfer starts or a buffer goes out, but the one     *)
(* whose callback was past its look.                                       *)
THEOREM KilledStaysSilent == Spec => KilledTurnIsSilent
<1>1. IInv /\ [Next]_vars => [halted /\ pc # "exited" => FallsSilent]_vars
  <2> SUFFICES ASSUME IInv, [Next]_vars, halted, pc # "exited"
               PROVE  FallsSilent
    OBVIOUS
  <2>1. HostTypes /\ CommandInv /\ SentInv /\ on_air \in Nat /\ [HostNext]_hostVars
    BY InvariantStep DEF IInv, HostInv, AirtimeInv, HostTypes, TypeDriver
  <2>2. CASE stop_event
    BY <2>1, <2>2, StopSilences
  <2>3. CASE pc = "terminated"
    <3>1. UNCHANGED <<driverVars, cmd>>
      BY <2>1, <2>3, EndIsRest
    <3> QED
      BY <3>1 DEF FallsSilent, OnlyInFlight, InFlight, driverVars, txVars
  <2> QED BY <2>2, <2>3 DEF IInv, HaltInv
<1> QED
  BY <1>1, Invariant, PTL DEF Spec, KilledTurnIsSilent
-----------------------------------------------------------------------------
(* The trails, written the way the executor puts them together.            *)
LEMMA Trails ==
  /\ TrailReceived \o <<"RISK_ASSESSED">> = TrailAssessed
  /\ TrailReceived \o <<"RISK_ASSESSED", "BLOCKED">> = Append(TrailAssessed, "BLOCKED")
  /\ TrailReceived \o <<"RISK_ASSESSED", "APPROVAL_REQUESTED">> = TrailAsked
  /\ TrailReceived \o <<"RISK_ASSESSED", "APPROVAL_REQUESTED", "APPROVAL_GRANTED">>
       = TrailConsented
  /\ Append(TrailAsked, "APPROVAL_GRANTED") = TrailConsented
  /\ Append(Append(TrailAssessed, "EXECUTED"), "RESULT")
       = TrailAssessed \o <<"EXECUTED", "RESULT">>
  /\ Append(Append(TrailConsented, "EXECUTED"), "RESULT")
       = TrailConsented \o <<"EXECUTED", "RESULT">>
BY DEF TrailReceived, TrailAssessed, TrailAsked, TrailConsented

(* The trail goes with the stage of the funnel.                            *)
LEMMA StageStoryStep ==
  ASSUME CommandInv, CommandInv', TrailTellsTheStory, [Next]_vars
  PROVE  /\ pc' \in {"listing", "assessing"} => trail' = TrailReceived
         /\ pc' = "approval" => trail' = TrailAsked
         /\ pc' \in {"offline", "radio"} \/ transfer' # "idle" => trail' \in TrailsExecuted
         /\ pc' \in {"prompt", "thinking"} => trail' \in TrailsConcluded
<1> USE DEF TrailTellsTheStory, CommandInv, driverVars, txVars, rxVars, execVars, commandVars
<1>1. CASE NewTurn \/ EndTurn \/ Quit \/ Terminate
  BY <1>1 DEF NewTurn, EndTurn, Quit, Terminate
<1>2. CASE Submit
  <2>1. trail' = TrailReceived /\ pc' = "listing"
    BY <1>2 DEF Submit, Receive, TrailReceived
  <2> QED BY <2>1
<1>3. CASE ListActive
  BY <1>3 DEF ListActive
<1>4. CASE AskOperator
  <2>1. trail = TrailReceived /\ pc' = "approval"
        /\ trail' = trail \o <<"RISK_ASSESSED", "APPROVAL_REQUESTED">>
    BY <1>4 DEF AskOperator
  <2>2. trail' = TrailAsked
    BY <2>1, Trails
  <2> QED BY <2>1, <2>2
<1>5. CASE Refuse
  <2>1. trail = TrailReceived /\ pc' = "thinking"
        /\ trail' = trail \o <<"RISK_ASSESSED", "BLOCKED">>
    BY <1>5 DEF Refuse, Leave
  <2>2. trail' \in TrailsConcluded
    BY <2>1, Trails DEF TrailsConcluded
  <2> QED BY <2>1, <2>2
<1>6. CASE Deny
  <2>1. trail = TrailAsked /\ pc' = "thinking" /\ trail' = Append(trail, "APPROVAL_DENIED")
    BY <1>6 DEF Deny, Leave
  <2>2. trail' \in TrailsConcluded
    BY <2>1 DEF TrailsConcluded
  <2> QED BY <2>1, <2>2
<1>7. CASE Proceed \/ Approve
  <2>1. PICK log \in {TrailAssessed, TrailConsented} : \E who, at : Dispatch(log, who, at)
    <3>1. CASE Proceed /\ risk.requires_confirmation
      BY <3>1, Trails DEF Proceed
    <3>2. CASE Proceed /\ ~risk.requires_confirmation
      BY <3>2, Trails DEF Proceed
    <3>3. CASE Approve
      BY <3>3, Trails DEF Approve
    <3> QED BY <1>7, <3>1, <3>2, <3>3
  <2>2. PICK who, at : Dispatch(log, who, at)
    BY <2>1
  <2>3. CASE DispatchFails(log)
    <3>1. pc' = "thinking" /\ trail' = log \o <<"EXECUTED", "RESULT">>
      BY <2>3 DEF DispatchFails, Leave
    <3>2. trail' \in TrailsConcluded
      BY <2>1, <3>1 DEF TrailsConcluded
    <3> QED BY <3>1, <3>2
  <2>4. CASE Dispatched(log, who, at) /\ pc' \in {"offline", "radio"}
    <3>1. trail' \in TrailsExecuted
      BY <2>1, <2>4 DEF Dispatched, TrailsExecuted
    <3> QED BY <2>4, <3>1
  <2> QED
    BY <2>2, <2>3, <2>4 DEF Dispatch, DispatchOffline, DispatchRadio
<1>8. CASE Result /\ pc \in {"offline", "radio"}
  <2>1. trail \in TrailsExecuted /\ trail' = Append(trail, "RESULT") /\ pc' = "thinking"
    BY <1>8 DEF Result, Leave
  <2>2. trail' \in TrailsConcluded
    BY <2>1, Trails DEF TrailsExecuted, TrailsConcluded
  <2> QED BY <2>1, <2>2
<1>9. OfflineDone \/ TxReturns \/ RxKilled \/ RxReturns => Result /\ pc \in {"offline", "radio"}
  BY DEF OfflineDone, TxReturns, RxKilled, RxReturns
<1>10. CASE OfflineEscapes("exited") \/ TransferEscapes("exited") \/ TurnCancelled
  <2>1. CASE UNCHANGED execVars /\ \E late \in {{}, {"set_up"}, {"start"}, {"stop"}} : Unwind(late)
    <3>1. transfer # "idle"
      BY <2>1 DEF Unwind, Streaming
    <3> QED BY <2>1, <3>1
  <2>2. CASE transfer' = "idle" /\ Leave("exited")
    BY <2>2 DEF Leave
  <2>3. CASE OfflineEscapes("exited")
    BY <2>3 DEF OfflineEscapes, Leave
  <2> QED
    BY <1>10, <2>1, <2>2, <2>3 DEF TransferEscapes, TurnCancelled, TransferCancelled, Escapes, Abandon
<1>11. CASE NextSweep
  BY <1>8, <1>11 DEF NextSweep
<1>12. CASE DeviceRuns \/ CoroutineRuns \/ TransferFails \/ DeviceRunsOn
  <2>1. RadioRuns
    BY <1>12 DEF DeviceRunsOn, RadioRuns
  <2>2. UNCHANGED <<pc, trail>>
    BY <2>1, RadioSteps DEF LeftoversRun
  <2>3. transfer' # "idle" => transfer # "idle" \/ pc = "radio"
    <3>1. CASE LateMoves
      BY <3>1 DEF LateMoves, LateCallReturns, CutOff, LateBuffer
    <3>2. CASE DeviceMoves \/ RxDrain(cmd.length) \/ RxStopped(cmd.length) \/ Unwind({})
      BY <3>2 DEF DeviceMoves, StartTx, TxCheck, TxHandOver, TxEnd, TxRaises, TxFlush, TxCallback,
                  StartRx, RxCallback, RxDrain, RxStopped, Unwind, Streaming
    <3> QED BY <2>1, <3>1, <3>2, RadioSteps
  <2> QED BY <2>2, <2>3
<1>13. CASE CtrlC \/ KillTask \/ OperatorPressesEnter \/ OtherTerminal \/ TimePasses
  BY <1>13 DEF CtrlC, KillTask, OperatorPressesEnter, OtherTerminal, TimePasses
<1>14. CASE DoubleCtrlC
  BY <1>14 DEF DoubleCtrlC
<1>15. CASE UNCHANGED vars
  BY <1>15 DEF vars
<1> QED
  BY <1>1, <1>2, <1>3, <1>4, <1>5, <1>6, <1>7, <1>8, <1>9, <1>10, <1>11, <1>12, <1>13,
     <1>14, <1>15 DEF Next, Funnel, OperatorAnswers, Ended

(* A radio that no grant covers was keyed with the approval in the trail,  *)
(* and a grant that covers it when it is keyed goes on covering it.        *)
LEMMA ConsentStoryStep ==
  ASSUME IInv, TrailTellsTheStory, [Next]_vars, Transmitting', ~BackedByGrant'
  PROVE  trail' = Append(TrailConsented, "EXECUTED")
<1>0. HostTypes /\ CommandInv /\ SnapshotInv /\ [HostNext]_hostVars
  BY HostStep DEF IInv, HostInv
<1>1. CASE Transmitting /\ UNCHANGED <<cmd, revoked_then, assessed_at, trail>>
  <2>1. ~BackedByGrant
    BY <1>0, <1>1, BackingLasts, TableStep DEF HostTypes
  <2> QED BY <1>1, <2>1 DEF TrailTellsTheStory
<1>2. CASE KeyUp
  <2>1. cmd.valid /\ ~stop_event
    BY <1>2 DEF KeyUp, DispatchRadio
  <2>2. CASE Approve
    <3>1. trail' = Append(Append(trail, "APPROVAL_GRANTED"), "EXECUTED") /\ trail = TrailAsked
      BY <2>1, <2>2 DEF Approve, Dispatch, Dispatched, DispatchFails, TrailTellsTheStory
    <3> QED BY <3>1, Trails
  <2>3. CASE Proceed /\ risk.requires_confirmation
    <3>1. trail = TrailReceived
      BY <2>3 DEF Proceed, TrailTellsTheStory
    <3>2. trail' = Append(trail \o <<"RISK_ASSESSED", "APPROVAL_REQUESTED", "APPROVAL_GRANTED">>,
                          "EXECUTED")
      BY <2>1, <2>3 DEF Proceed, Dispatch, Dispatched, DispatchFails
    <3> QED BY <3>1, <3>2, Trails
  <2>4. CASE Proceed /\ ~risk.requires_confirmation
    <3>1. BackedByGrant'
      BY <1>0, <1>2, <2>4, LowMeansBacked
    <3> QED BY <3>1
  <2> QED BY <1>2, <2>2, <2>3, <2>4 DEF KeyUp
<1> QED BY <1>0, <1>1, <1>2, TransmittingSteps

(* executor.py's audit.log() calls: whatever the operator, the kill switch *)
(* and the other terminal do, the events of a command's trace say where it *)
(* is, and no radio is busy, or transmits without a grant, but on the      *)
(* record.                                                                 *)
THEOREM TrailIsTrue == Spec => []TrailTellsTheStory
<1>1. Init => TrailTellsTheStory
  BY DEF Init, InitExecutor, InitDriver, TrailTellsTheStory, Transmitting, TxStates,
         TrailsConcluded
<1>2. IInv /\ IInv' /\ TrailTellsTheStory /\ [Next]_vars => TrailTellsTheStory'
  <2> SUFFICES ASSUME IInv, IInv', TrailTellsTheStory, [Next]_vars
               PROVE  TrailTellsTheStory'
    OBVIOUS
  <2>1. CommandInv /\ CommandInv'
    BY DEF IInv, HostInv
  <2>2. Transmitting' /\ ~BackedByGrant' => trail' = Append(TrailConsented, "EXECUTED")'
    BY ConsentStoryStep DEF TrailConsented, TrailAsked, TrailAssessed, TrailReceived
  <2>3. /\ pc' \in {"listing", "assessing"} => trail' = TrailReceived
        /\ pc' = "approval" => trail' = TrailAsked
        /\ pc' \in {"offline", "radio"} \/ transfer' # "idle" => trail' \in TrailsExecuted
        /\ pc' \in {"prompt", "thinking"} => trail' \in TrailsConcluded
    BY <2>1, StageStoryStep
  <2> QED BY <2>2, <2>3 DEF TrailTellsTheStory
<1> QED
  BY <1>1, <1>2, Invariant, PTL DEF Spec
=============================================================================
