-------------------------- MODULE McpServerProofs --------------------------
(***************************************************************************)
(* The MCP server, for any number of tool calls, any commands and any      *)
(* order of signals and cancellations: the driver lock guards the funnel   *)
(* and the air, the queue for it is fair, and a signal silences what it    *)
(* does not cancel.  The server is a host of the executor, and what        *)
(* HostProofs proves of hosts holds of it.                                 *)
(***************************************************************************)
EXTENDS McpServer, HostProofs, SequenceTheorems

(* The queue for the lock is in the order of arrival.                      *)
Waiter == [call : Nat \ {0}, command : Commands]
QueueInv ==
  /\ arrived \in Nat
  /\ waiting \in Seq(Waiter)
  /\ \A i \in 1..Len(waiting) : waiting[i].call <= arrived
  /\ \A i, j \in 1..Len(waiting) : i < j => waiting[i].call < waiting[j].call

SignalInv == sigint_count > 0 => stop_event

(* Only calls that have arrived hold the lock, register or are cancelled.  *)
CallsInv ==
  /\ holder \in 1..arrived \cup {None}
  /\ current_tool_task \in 1..arrived \cup {None}
  /\ cancelled \subseteq 1..arrived
  /\ sigint_count \in 0..2

(* With the lock free nothing is in a transfer, during the exit either.    *)
LockInv == LockGuardsFunnel /\ (holder = None => transfer = "idle")

IInv == HostInv /\ LockInv /\ QueueInv /\ CallsInv /\ SignalInv
-----------------------------------------------------------------------------
(* Where a step of the funnel comes from and leads to: it is left only     *)
(* with the radio idle, and the radio is busy only in it.                  *)
LEMMA FunnelEnds ==
  ASSUME CommandInv, Funnel \/ HostAnswers
  PROVE  /\ pc \notin {"thinking", "exited"} /\ pc' # "exited"
         /\ pc' = "thinking" => transfer' = "idle"
         /\ transfer' # "idle" => pc' = "radio"
<1> USE DEF CommandInv, TxDone, RxDone, Result, Leave
<1>1. CASE ListActive \/ Refuse \/ AskOperator \/ Deny \/ OfflineDone \/ OfflineEscapes("thinking")
  BY <1>1 DEF ListActive, Refuse, AskOperator, Deny, OfflineDone, OfflineEscapes, driverVars
<1>2. CASE Proceed \/ Approve
  BY <1>2 DEF Proceed, Approve, Dispatch, DispatchFails, Dispatched, DispatchOffline,
              DispatchRadio, BeginTx, BeginRx, driverVars
<1>3. CASE TransferEscapes("thinking") \/ TxReturns \/ RxKilled \/ NextSweep \/ RxReturns
  BY <1>3 DEF TransferEscapes, Escapes, Abandon, TxReturns, RxKilled, NextSweep, RxReturns, BeginRx
<1>4. CASE CoroutineRuns \/ TransferFails \/ (pc = "radio" /\ DeviceRuns)
  BY <1>4 DEF CoroutineRuns, TransferFails, DeviceRuns, execVars
<1> QED
  BY <1>1, <1>2, <1>3, <1>4 DEF Funnel, HostAnswers

LEMMA FunnelKeeps ==
  ASSUME Funnel \/ HostAnswers
  PROVE  UNCHANGED <<stop_event, arrived, waiting, cancelled, sigint_count>>
<1>1. UNCHANGED <<arrived, waiting, cancelled, sigint_count>>
  BY DEF Funnel, HostAnswers, ReleaseOrKeep
<1>2. UNCHANGED stop_event
  BY DEF Funnel, HostAnswers, ListActive, Refuse, AskOperator, Proceed, Approve, Deny, Dispatch,
         OfflineDone, OfflineEscapes, TransferEscapes, Escapes, TxReturns, RxKilled, NextSweep,
         RxReturns, CoroutineRuns, TransferFails, DeviceRuns, killVars
<1> QED BY <1>1, <1>2

LEMMA WaitersAreCalls ==
  ASSUME QueueInv, NEW i \in 1..Len(waiting)
  PROVE  waiting[i] \in Waiter /\ waiting[i].call \in Nat \ {0}
<1>1. waiting[i] \in Waiter
  BY ElementOfSeq DEF QueueInv
<1> QED BY <1>1 DEF Waiter

(* Every step of the server is one that a host may take.                   *)
LEMMA HostStep ==
  ASSUME HostTypes, CommandInv, QueueInv, [Next]_vars
  PROVE  [HostNext]_hostVars
<1>1. /\ last_press \in Int /\ revoking \in Nat
      /\ stop_event \in BOOLEAN
      /\ transfer # "idle" => pc \in {"radio", "exited"}
  BY Zenon DEF HostTypes, TypeKillSwitch, CommandInv
<1> USE DEF execVars, commandVars, budgetVars, driverVars, txVars, rxVars, killVars, permVars,
            hostVars, Resting
<1>2. CASE CallTool
  <2>1. Receives \/ UNCHANGED <<execVars, driverVars, killVars, permVars>>
    BY <1>2, Zenon DEF CallTool, Receives
  <2> QED BY <2>1 DEF HostNext
<1>3. CASE LockPasses
  <2>1. Head(waiting).command \in Commands
    <3>1. 1 \in 1..Len(waiting) /\ Head(waiting) = waiting[1]
      BY <1>3 DEF LockPasses, QueueInv
    <3>2. waiting[1] \in Waiter
      BY <3>1, WaitersAreCalls
    <3> QED BY <3>1, <3>2 DEF Waiter
  <2> QED BY <1>3, <2>1, Zenon DEF LockPasses, Receives, HostNext
<1>4. CASE Funnel \/ HostAnswers
  <2>1. CASE CoroutineRuns \/ TransferFails \/ DeviceRuns
    BY <2>1 DEF RadioRuns, HostNext
  <2>2. CASE OfflineEscapes("thinking") \/ TransferEscapes("thinking")
    <3>1. IsAborted
      BY <2>2 DEF IsAborted
    <3> QED BY <3>1 DEF HostNext
  <2> QED
    BY <1>4, <2>1, <2>2, Zenon DEF Funnel, HostAnswers, Handles, HostNext
<1>5. CASE FirstSigint \/ Sigterm
  <2>1. stop_event' \in BOOLEAN /\ (stop_event => stop_event')
    BY <1>5, Zenon DEF FirstSigint, Sigterm
  <2>2. HostMoves
    BY <1>1, <1>5, <2>1 DEF FirstSigint, Sigterm, HostMoves, TableMoves
  <2> QED BY <2>2 DEF HostNext
<1>6. CASE Exit
  <2>1. stop_event' \in BOOLEAN /\ (stop_event => stop_event')
    BY <1>1, <1>6, Zenon DEF Exit
  <2>2. HostMoves
    BY <1>1, <1>6, <2>1 DEF Exit, HostMoves, TableMoves
  <2> QED BY <2>2 DEF HostNext
<1>7. CASE HolderCancelled
  <2>1. TransferCancelled("thinking") \/ Dropped("thinking")
    BY <1>7, Zenon DEF HolderCancelled
  <2>2. IsCancelled
    BY <2>1 DEF IsCancelled
  <2> QED BY <2>2 DEF HostNext
<1>8. CASE ExitUnwinds \/ LeftBehind
  <2>1. IsCancelled \/ RadioRuns
    BY <1>8 DEF ExitUnwinds, LeftBehind, IsCancelled, RadioRuns
  <2> QED BY <2>1 DEF HostNext
<1>9. CASE OtherTerminal
  <2>1. TableMoves
    BY <1>9 DEF OtherTerminal
  <2>2. HostMoves
    BY <1>1, <1>9, <2>1 DEF OtherTerminal, HostMoves
  <2> QED BY <2>2 DEF HostNext
<1>10. CASE WaiterCancelled \/ HostCancels \/ UNCHANGED vars
  BY <1>10 DEF WaiterCancelled, HostCancels, vars
<1> QED
  BY <1>2, <1>3, <1>4, <1>5, <1>6, <1>7, <1>8, <1>9, <1>10 DEF Next, Ended

(* The lock is free when the funnel is empty, and only then.               *)
LEMMA LockStep ==
  ASSUME LockInv, CommandInv, QueueInv, [Next]_vars
  PROVE  LockInv'
<1> USE DEF LockInv, LockGuardsFunnel, CommandInv
<1>1. CASE CallTool
  <2>1. arrived' # None
    BY <1>1, NoneIsNoNumber DEF CallTool, QueueInv
  <2> QED BY <1>1, <2>1 DEF CallTool, Receive, execVars, driverVars
<1>2. CASE LockPasses
  <2>1. Head(waiting).call # None
    <3>1. 1 \in 1..Len(waiting) /\ Head(waiting) = waiting[1]
      BY <1>2 DEF LockPasses, QueueInv
    <3> QED BY <3>1, WaitersAreCalls, NoneIsNoNumber
  <2> QED BY <1>2, <2>1 DEF LockPasses, Receive, driverVars
<1>3. CASE Funnel \/ HostAnswers
  <2>1. IF pc' = "thinking" THEN holder' = None ELSE holder' = holder
    BY <1>3 DEF Funnel, HostAnswers, ReleaseOrKeep
  <2> QED BY <1>3, <2>1, FunnelEnds
<1>4. CASE FirstSigint \/ Sigterm \/ HostCancels \/ WaiterCancelled \/ OtherTerminal
  BY <1>4 DEF FirstSigint, Sigterm, HostCancels, WaiterCancelled, OtherTerminal,
              callVars, execVars, driverVars
<1>5. CASE Exit
  BY <1>5 DEF Exit, driverVars
<1>6. CASE HolderCancelled
  <2>1. CASE Dropped("thinking")
    BY <1>6, <2>1 DEF HolderCancelled, Dropped, Leave, driverVars
  <2>2. ASSUME NEW late, Unwind(late) /\ UNCHANGED execVars
        PROVE  LockInv'
    BY <1>6, <2>2 DEF HolderCancelled, Unwind, execVars
  <2>3. ASSUME NEW late, Escapes("thinking", late)
        PROVE  LockInv'
    BY <1>6, <2>3 DEF HolderCancelled, Escapes, Abandon, Leave
  <2> QED BY <1>6, <2>1, <2>2, <2>3 DEF HolderCancelled, TransferCancelled
<1>7. CASE ExitUnwinds
  <2>1. pc = "exited" /\ UNCHANGED holder
    BY <1>7 DEF ExitUnwinds, callVars
  <2>2. CASE transfer = "idle"
    <3>1. UNCHANGED transfer /\ pc' = pc
      BY <1>7, <2>1, <2>2
         DEF ExitUnwinds, TransferCancelled, Escapes, Unwind, Abandon, Streaming, Stopping,
             DeviceRuns, DeviceMoves, StartTx, TxCheck, TxCallback, TxHandOver, TxEnd, TxRaises,
             TxFlush, StartRx, RxCallback, execVars
    <3> QED BY <2>1, <2>2, <3>1
  <2>3. pc' = "exited"
    BY <1>7, <2>1 DEF ExitUnwinds, TransferCancelled, Escapes, Leave, DeviceRuns, execVars
  <2> QED BY <2>1, <2>2, <2>3
<1>9. CASE LeftBehind
  <2>1. transfer = "idle" => transfer' = "idle"
    BY <1>9 DEF LeftBehind, LeftoversRun, LateCallReturns, CutOff, LateBuffer
  <2> QED BY <1>9, <2>1 DEF LeftBehind, LeftoversRun, callVars
<1>8. CASE UNCHANGED vars
  BY <1>8 DEF vars, execVars, driverVars, callVars
<1> QED
  BY <1>1, <1>2, <1>3, <1>4, <1>5, <1>6, <1>7, <1>8, <1>9 DEF Next, Ended

(* Who joins the queue, who leaves it, and who leaves it alone.            *)
LEMMA JoinsAtTheEnd ==
  ASSUME QueueInv, NEW c \in Commands, arrived' = arrived + 1,
         waiting' = Append(waiting, [call |-> arrived', command |-> c])
  PROVE  QueueInv'
<1> DEFINE w == [call |-> arrived', command |-> c]
<1>1. arrived' \in Nat \ {0} /\ w \in Waiter /\ w.call = arrived'
  BY DEF QueueInv, Waiter
<1>2. /\ waiting' \in Seq(Waiter) /\ Len(waiting') = Len(waiting) + 1
      /\ waiting'[Len(waiting) + 1] = w
      /\ \A i \in 1..Len(waiting) : waiting'[i] = waiting[i]
  BY <1>1 DEF QueueInv
<1>3. Len(waiting) \in Nat /\ \A i \in 1..Len(waiting) : waiting[i].call \in Nat
  BY WaitersAreCalls DEF QueueInv
<1>4. \A i \in 1..Len(waiting') : waiting'[i].call <= arrived'
  BY <1>1, <1>2, <1>3 DEF QueueInv
<1>5. ASSUME NEW i \in 1..Len(waiting'), NEW j \in 1..Len(waiting'), i < j
      PROVE  waiting'[i].call < waiting'[j].call
  <2>1. i \in 1..Len(waiting)
    BY <1>2, <1>3, <1>5
  <2>2. CASE j \in 1..Len(waiting)
    BY <1>2, <1>5, <2>1, <2>2 DEF QueueInv
  <2>3. CASE j = Len(waiting) + 1
    BY <1>1, <1>2, <1>3, <2>1, <2>3 DEF QueueInv
  <2> QED BY <1>2, <1>3, <2>2, <2>3
<1> QED BY <1>1, <1>2, <1>4, <1>5 DEF QueueInv

LEMMA LeavesTheFront ==
  ASSUME QueueInv, arrived' = arrived, waiting # << >>, waiting' = Tail(waiting)
  PROVE  QueueInv'
<1>1. /\ waiting' \in Seq(Waiter) /\ Len(waiting') = Len(waiting) - 1
      /\ \A i \in 1..Len(waiting') : waiting'[i] = waiting[i + 1]
  BY DEF QueueInv
<1>2. Len(waiting) \in Nat
  BY DEF QueueInv
<1>3. \A i \in 1..Len(waiting') : i + 1 \in 1..Len(waiting)
  BY <1>1, <1>2
<1> QED BY <1>1, <1>2, <1>3 DEF QueueInv

LEMMA LeavesTheMiddle ==
  ASSUME QueueInv, arrived' = arrived, NEW k \in DOMAIN waiting,
         waiting' = SubSeq(waiting, 1, k - 1) \o SubSeq(waiting, k + 1, Len(waiting))
  PROVE  QueueInv'
<1>1. /\ k \in 1..Len(waiting) /\ Len(waiting) \in Nat
      /\ \A i \in 1..Len(waiting) : waiting[i] \in Waiter
  BY WaitersAreCalls DEF QueueInv
<1> DEFINE front == SubSeq(waiting, 1, k - 1)
           back == SubSeq(waiting, k + 1, Len(waiting))
<1>2. /\ front \in Seq(Waiter) /\ Len(front) = k - 1
      /\ \A i \in 1..(k - 1) : front[i] = waiting[i]
  BY <1>1, SubSeqProperties
<1>3. /\ back \in Seq(Waiter) /\ Len(back) = Len(waiting) - k
      /\ \A i \in 1..(Len(waiting) - k) : back[i] = waiting[i + k]
  BY <1>1, SubSeqProperties
<1> HIDE DEF front, back
<1>4. waiting' = front \o back
  BY DEF front, back
<1>5. /\ waiting' \in Seq(Waiter) /\ Len(waiting') = Len(waiting) - 1
      /\ Len(waiting) - 1 \in Nat
      /\ \A i \in 1..Len(waiting') :
           waiting'[i] = IF i <= k - 1 THEN front[i] ELSE back[i - (k - 1)]
  <2>1. Len(front) + Len(back) = Len(waiting) - 1 /\ Len(waiting) - 1 \in Nat
    BY <1>1, <1>2, <1>3
  <2>2. /\ front \o back \in Seq(Waiter)
        /\ Len(front \o back) = Len(front) + Len(back)
        /\ \A i \in 1..(Len(front) + Len(back)) :
             (front \o back)[i] = IF i <= Len(front) THEN front[i] ELSE back[i - Len(front)]
    BY <1>2, <1>3, ConcatProperties
  <2> QED BY <1>2, <1>4, <2>1, <2>2
<1> DEFINE old(i) == IF i < k THEN i ELSE i + 1
<1>6. ASSUME NEW i \in 1..Len(waiting')
      PROVE  old(i) \in 1..Len(waiting) /\ waiting'[i] = waiting[old(i)]
  <2>1. i \in Int /\ 1 <= i /\ i <= Len(waiting) - 1 /\ k \in Int /\ Len(waiting) \in Int
    BY <1>1, <1>5
  <2>2. CASE i < k
    BY <1>1, <1>2, <1>5, <2>1, <2>2
  <2>3. CASE i >= k
    <3>1. i - (k - 1) \in 1..(Len(waiting) - k)
      BY <1>1, <2>1, <2>3
    <3>2. waiting'[i] = back[i - (k - 1)]
      <4>1. ~(i <= k - 1)
        BY <2>1, <2>3
      <4> QED BY <1>5, <4>1, Zenon
    <3>3. back[i - (k - 1)] = waiting[(i - (k - 1)) + k]
      BY <1>3, <3>1
    <3>4. (i - (k - 1)) + k = i + 1
      BY <2>1
    <3>5. i + 1 \in 1..Len(waiting)
      BY <2>1
    <3>6. old(i) = i + 1
      BY <2>1, <2>3
    <3> QED BY <3>2, <3>3, <3>4, <3>5, <3>6
  <2>4. i < k \/ i >= k
    BY <2>1
  <2> HIDE DEF old
  <2> QED BY <2>2, <2>3, <2>4, Zenon
<1>7. \A i \in 1..Len(waiting') : waiting'[i].call <= arrived'
  BY <1>6 DEF QueueInv
<1>8. ASSUME NEW i \in 1..Len(waiting'), NEW j \in 1..Len(waiting'), i < j
      PROVE  waiting'[i].call < waiting'[j].call
  <2>1. old(i) < old(j)
    BY <1>1, <1>5, <1>8
  <2> QED BY <1>6, <2>1 DEF QueueInv
<1> QED BY <1>5, <1>7, <1>8 DEF QueueInv

LEMMA QueueStep ==
  ASSUME QueueInv, [Next]_vars
  PROVE  QueueInv'
<1>1. CASE CallTool
  <2>1. CASE UNCHANGED waiting
    <3>1. arrived \in Nat /\ arrived' = arrived + 1
      BY <1>1 DEF CallTool, QueueInv
    <3>2. \A i \in 1..Len(waiting) : waiting[i].call \in Nat
      BY WaitersAreCalls
    <3>3. \A i \in 1..Len(waiting) : waiting[i].call <= arrived'
      BY <3>1, <3>2 DEF QueueInv
    <3> QED BY <2>1, <3>1, <3>3 DEF QueueInv
  <2>2. ASSUME NEW c \in Commands, waiting' = Append(waiting, [call |-> arrived', command |-> c])
        PROVE  QueueInv'
    BY <1>1, <2>2, JoinsAtTheEnd DEF CallTool
  <2> QED BY <1>1, <2>1, <2>2 DEF CallTool
<1>2. CASE LockPasses
  BY <1>2, LeavesTheFront DEF LockPasses
<1>3. CASE WaiterCancelled
  BY <1>3, LeavesTheMiddle DEF WaiterCancelled
<1>4. CASE UNCHANGED <<arrived, waiting>>
  BY <1>4 DEF QueueInv
<1>5. CASE FirstSigint \/ Sigterm \/ HostCancels \/ Exit \/ HolderCancelled \/ ExitUnwinds
           \/ LeftBehind \/ OtherTerminal
  BY <1>4, <1>5 DEF FirstSigint, Sigterm, HostCancels, Exit, HolderCancelled, ExitUnwinds,
                    LeftBehind, OtherTerminal, callVars
<1>6. CASE UNCHANGED vars
  BY <1>4, <1>6 DEF vars, callVars
<1> QED
  BY <1>1, <1>2, <1>3, <1>4, <1>5, <1>6, FunnelKeeps DEF Next, Ended

LEMMA CallsStep ==
  ASSUME CallsInv, QueueInv, [Next]_vars
  PROVE  CallsInv'
<1> USE DEF CallsInv, callVars
<1>1. CASE CallTool
  <2>1. arrived' \in Nat /\ arrived' \in 1..arrived' /\ 1..arrived \subseteq 1..arrived'
    BY <1>1 DEF CallTool, QueueInv
  <2>2. holder' \in {holder, arrived'} /\ UNCHANGED <<cancelled, sigint_count>>
        /\ current_tool_task' = arrived'
    BY <1>1 DEF CallTool
  <2> QED BY <2>1, <2>2, Zenon
<1>2. CASE LockPasses
  <2>1. Head(waiting).call \in 1..arrived
    <3>1. 1 \in 1..Len(waiting) /\ Head(waiting) = waiting[1] /\ arrived \in Nat
      BY <1>2 DEF LockPasses, QueueInv
    <3>2. waiting[1].call \in Nat \ {0} /\ waiting[1].call <= arrived
      BY <3>1, WaitersAreCalls DEF QueueInv
    <3> QED BY <3>1, <3>2
  <2> QED BY <1>2, <2>1 DEF LockPasses
<1>3. CASE Funnel \/ HostAnswers
  BY <1>3 DEF Funnel, HostAnswers, ReleaseOrKeep, Unregister
<1>4. CASE FirstSigint \/ Sigterm
  <2>1. cancelled' \subseteq 1..arrived
    <3>1. cancelled' = cancelled \cup ({current_tool_task} \ {None})
      BY <1>4, Zenon DEF FirstSigint, Sigterm, CancelRegistered
    <3>2. {current_tool_task} \ {None} \subseteq 1..arrived
      OBVIOUS
    <3> QED BY <3>1, <3>2
  <2>2. UNCHANGED <<arrived, holder, current_tool_task>> /\ sigint_count' \in 0..2
    BY <1>4 DEF FirstSigint, Sigterm
  <2> QED BY <2>1, <2>2
<1>5. CASE Exit
  BY <1>5 DEF Exit
<1>6. CASE WaiterCancelled \/ HolderCancelled \/ ExitUnwinds \/ LeftBehind
  BY <1>6 DEF WaiterCancelled, HolderCancelled, ExitUnwinds, LeftBehind, Unregister
<1>8. CASE HostCancels
  <2>1. PICK n \in ({holder} \ {None}) \cup {waiting[i].call : i \in DOMAIN waiting} :
          cancelled' = cancelled \cup {n}
    BY <1>8 DEF HostCancels
  <2>2. n \in 1..arrived
    <3>1. ASSUME NEW i \in DOMAIN waiting PROVE waiting[i].call \in 1..arrived
      <4>1. i \in 1..Len(waiting) /\ arrived \in Nat
        BY DEF QueueInv
      <4>2. waiting[i].call \in Nat \ {0} /\ waiting[i].call <= arrived
        BY <4>1, WaitersAreCalls DEF QueueInv
      <4> QED BY <4>1, <4>2
    <3> QED BY <3>1
  <2> QED BY <1>8, <2>1, <2>2 DEF HostCancels
<1>7. CASE OtherTerminal \/ UNCHANGED vars
  BY <1>7 DEF OtherTerminal, vars
<1> QED
  BY <1>1, <1>2, <1>3, <1>4, <1>5, <1>6, <1>7, <1>8 DEF Next, Ended

(* Once set, the stop event stays set, and a signal sets it.               *)
LEMMA SignalStep ==
  ASSUME SignalInv, [Next]_vars
  PROVE  SignalInv'
<1> USE DEF SignalInv, killVars
<1>1. CASE CallTool \/ LockPasses
  BY <1>1 DEF CallTool, LockPasses, Receive
<1>2. CASE Funnel \/ HostAnswers
  BY <1>2, FunnelKeeps
<1>3. CASE FirstSigint \/ Sigterm
  BY <1>3 DEF FirstSigint, Sigterm
<1>4. CASE Exit
  BY <1>4 DEF Exit
<1>5. CASE WaiterCancelled \/ HostCancels
  BY <1>5 DEF WaiterCancelled, HostCancels
<1>8. CASE HolderCancelled \/ ExitUnwinds \/ LeftBehind
  BY <1>8 DEF HolderCancelled, ExitUnwinds, LeftBehind, LeftoversRun, TransferCancelled, Escapes,
              Dropped, DeviceRuns, callVars
<1>6. CASE OtherTerminal
  BY <1>6 DEF OtherTerminal, callVars
<1>7. CASE UNCHANGED vars
  BY <1>7 DEF vars, callVars
<1> QED
  BY <1>1, <1>2, <1>3, <1>4, <1>5, <1>6, <1>7, <1>8 DEF Next, Ended

(* A server that starts has nobody at the lock, and the radio is idle.     *)
LEMMA Initially == Init => HostInit /\ IInv
<1>1. Init => HostInit
  BY DEF Init, HostInit
<1>2. Init => LockInv /\ CallsInv /\ SignalInv
  BY DEF Init, InitDriver, LockInv, LockGuardsFunnel, CallsInv, SignalInv
<1>3. Init => QueueInv
  BY DEF Init, QueueInv
<1> QED BY <1>1, <1>2, <1>3, HostInitially DEF IInv

LEMMA InductiveStep == IInv /\ [Next]_vars => IInv' /\ [HostNext]_hostVars
<1> SUFFICES ASSUME IInv, [Next]_vars PROVE IInv' /\ [HostNext]_hostVars
  OBVIOUS
<1>1. HostTypes /\ CommandInv
  BY DEF IInv, HostInv
<1>2. [HostNext]_hostVars
  BY <1>1, HostStep DEF IInv
<1> QED
  BY <1>1, <1>2, HostInductive, LockStep, QueueStep, CallsStep, SignalStep DEF IInv

LEMMA Invariant == Spec => []IInv
  BY Initially, InductiveStep, PTL DEF Spec
-----------------------------------------------------------------------------
(* mcp/server.py runs the executor as a host does: whatever the order of   *)
(* calls, signals and cancellations, the funnel takes one command at a     *)
(* time, and nothing else touches the driver.                              *)
THEOREM ServerIsAHost == Spec => HostSpec
  BY Initially, InductiveStep, PTL DEF Spec, HostSpec

(* Every variable of the server keeps its type, for any number of calls    *)
(* (mcp/server.py, _call_tool and the signal handlers).                    *)
THEOREM ServerTypeCorrect == Spec => []TypeOK
<1>1. ASSUME IInv PROVE TypeOK
  <2>1. arrived \in Nat /\ waiting \in Seq(Waiter) /\ Len(waiting) \in Nat
    BY <1>1 DEF IInv, QueueInv
  <2>2. ASSUME NEW i \in 1..Len(waiting)
        PROVE  waiting[i] \in [call : 1..arrived, command : Commands]
    <3>1. waiting[i] \in Waiter /\ waiting[i].call \in Nat \ {0}
      BY <1>1, WaitersAreCalls DEF IInv
    <3>2. waiting[i].call <= arrived
      BY <1>1 DEF IInv, QueueInv
    <3> QED BY <2>1, <3>1, <3>2 DEF Waiter
  <2>3. waiting \in [1..Len(waiting) -> [call : 1..arrived, command : Commands]]
    <3>1. waiting \in [1..Len(waiting) -> Waiter]
      BY <2>1, LenProperties
    <3> QED BY <2>2, <3>1
  <2>4. waiting \in Seq([call : 1..arrived, command : Commands])
    <3> DEFINE T == [call : 1..arrived, command : Commands]
    <3>1. Seq(T) = UNION {[1..n -> T] : n \in Nat}
      BY SeqDef, Zenon
    <3>2. [1..Len(waiting) -> T] \in {[1..n -> T] : n \in Nat}
      BY <2>1
    <3> HIDE DEF T
    <3>3. waiting \in Seq(T)
      BY <2>3, <3>1, <3>2, Zenon DEF T
    <3> QED BY <3>3, Zenon DEF T
  <2> QED BY <1>1, <2>1, <2>4 DEF IInv, HostInv, CallsInv, TypeOK
<1> QED BY <1>1, Invariant, PTL

(* The funnel is the chat's, and so is what it promises: nothing goes out  *)
(* on a blocked band, nor without approval, auto_approve_medium or a grant *)
(* that covered it, whoever is in the queue and whoever is cancelled.      *)
THEOREM ServerIsAuthorised == Spec => []Authorised
  BY ServerIsAHost, HostsAreAuthorised, PTL

(* The budgets of the server process hold for all its calls together:      *)
(* executor.py counts them per executor, and the server has one.           *)
THEOREM ServerKeepsBudgets == Spec => []SessionBudgetsHold
  BY ServerIsAHost, HostsKeepBudgets, PTL

(* The radio is keyed, and turns to a buffer, only while the stop event is *)
(* down, and only to what the call that holds the lock was keyed for; a    *)
(* call that is cancelled, once or twice, leaves at most the one buffer    *)
(* that its callback was filling (hw/hackrf_driver.py, tx_callback).       *)
THEOREM ServerKeepsThePromise == Spec => TransmitSteps
  BY ServerIsAHost, HostsKeepThePromise, PTL

(* "Serialize on the driver lock" (mcp/server.py, _call_tool): with the    *)
(* lock free, the funnel is empty and no coroutine is in a transfer,       *)
(* whatever was cancelled, wherever it was and how often; what cancelled   *)
(* calls have left on their threads is another matter (LockGuardsTheAir).  *)
THEOREM LockGuards == Spec => []LockGuardsFunnel
<1>1. IInv => LockGuardsFunnel
  BY DEF IInv, LockInv
<1> QED BY <1>1, Invariant, PTL

(* Two calls never share the air: unless a call that transmits has the     *)
(* lock, nothing goes out but the one buffer that the callback of a        *)
(* cancelled call was filling when its coroutine was thrown out of the     *)
(* finally clause (hw/hackrf_driver.py, _tx_from_file and its finally).    *)
THEOREM LockGuardsTheAir == Spec => LockGuardsAir
<1> DEFINE A == holder = None \/ ~Transmitting => OnlyInFlight
<1>1. IInv /\ [Next]_vars => [A]_vars
  <2>1. IInv /\ holder = None => ~Transmitting
    BY DEF IInv, LockInv, Transmitting, TxStates
  <2>2. IInv => HostTypes /\ CommandInv /\ SentInv
    BY DEF IInv, HostInv, AirtimeInv
  <2> QED BY <2>1, <2>2, InductiveStep, OnlyTransmittersTransmit
<1> QED BY <1>1, Invariant, PTL DEF Spec, LockGuardsAir

(* The lock goes to the oldest call that waits for it and is not being     *)
(* cancelled (mcp/server.py, driver_lock; asyncio.Lock).                   *)
THEOREM ServedInOrder == Spec => FirstInFirstOut
<1> DEFINE A == holder' # holder /\ holder' # None =>
                  \A i \in DOMAIN waiting' :
                    waiting'[i].call \notin cancelled' => holder' < waiting'[i].call
<1>1. ASSUME IInv, [Next]_vars PROVE [A]_vars
  <2>1. CASE CallTool
    BY <2>1 DEF CallTool, NobodyWaits
  <2>2. CASE LockPasses
    <3>1. /\ waiting \in Seq(Waiter) /\ waiting # << >> /\ waiting' = Tail(waiting)
          /\ holder' = waiting[1].call
      BY <1>1, <2>2 DEF LockPasses, IInv, QueueInv
    <3>2. ASSUME NEW i \in DOMAIN waiting' PROVE holder' < waiting'[i].call
      <4>1. i + 1 \in 1..Len(waiting) /\ waiting'[i] = waiting[i + 1] /\ i \in Nat \ {0}
        BY <3>1, <3>2
      <4>2. 1 \in 1..Len(waiting) /\ 1 < i + 1
        BY <3>1, <4>1
      <4> QED BY <1>1, <3>1, <4>1, <4>2 DEF IInv, QueueInv
    <3> QED BY <3>2
  <2>3. CASE Funnel \/ HostAnswers
    BY <2>3 DEF Funnel, HostAnswers, ReleaseOrKeep
  <2>4. CASE FirstSigint \/ Sigterm \/ HostCancels \/ Exit \/ WaiterCancelled \/ HolderCancelled
             \/ ExitUnwinds \/ LeftBehind
    BY <2>4 DEF FirstSigint, Sigterm, HostCancels, Exit, WaiterCancelled, HolderCancelled,
                ExitUnwinds, LeftBehind, callVars
  <2>5. CASE OtherTerminal \/ UNCHANGED vars
    BY <2>5 DEF OtherTerminal, callVars, vars
  <2> QED
    BY <1>1, <2>1, <2>2, <2>3, <2>4, <2>5 DEF Next, Ended
<1> QED BY <1>1, Invariant, PTL DEF Spec, FirstInFirstOut

(* A signal silences the radio for good, whichever call it cancels: the    *)
(* stop event is never cleared and every path to the air looks at it, so   *)
(* that only a buffer whose callback had looked already still goes out     *)
(* (mcp/server.py, _on_signal; hw/hackrf_driver.py, tx_callback).          *)
THEOREM SignalsSilence == Spec => SignalSilences
<1> DEFINE A == stop_event \/ sigint_count > 0 => FallsSilent
<1>1. IInv /\ [Next]_vars => [A]_vars
  <2>1. IInv => HostTypes /\ CommandInv /\ SentInv
    BY DEF IInv, HostInv, AirtimeInv
  <2> QED BY <2>1, InductiveStep, StopSilences DEF IInv, SignalInv
<1> QED BY <1>1, Invariant, PTL DEF Spec, SignalSilences
=============================================================================
